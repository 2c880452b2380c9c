------------------------ MODULE AcademicStructureProofs ------------------------
(***************************************************************************)
(* Whoever else plans the School: its dates stay in one Term each, nothing *)
(* a request runs into is left to the database, none but overlapping years *)
(* deadlock, and an editor whose Terms are joined covers its year.         *)
(***************************************************************************)
EXTENDS AcademicStructure, FiniteSetTheorems, SequenceTheorems, TLAPS

-----------------------------------------------------------------------------
(* Of a finite set, what stands lower in an order has a lower rank in it.  *)
LEMMA RankGrows ==
  ASSUME NEW S, IsFiniteSet(S), NEW f, \A s \in S : f[s] \in Int,
         NEW x \in S, NEW y \in S, f[x] < f[y]
  PROVE  Cardinality({s \in S : f[s] <= f[x]}) < Cardinality({s \in S : f[s] <= f[y]})
<1> DEFINE X == {s \in S : f[s] <= f[x]}
           Y == {s \in S : f[s] <= f[y]}
<1>1. IsFiniteSet(Y) /\ X \in SUBSET Y /\ y \in Y /\ y \notin X
  <2>1. IsFiniteSet(Y)
    BY FS_Subset
  <2> QED
    BY <2>1
<1>2. IsFiniteSet(X) /\ Cardinality(X) <= Cardinality(Y) /\ Cardinality(X) # Cardinality(Y)
  BY <1>1, FS_Subset
<1>3. Cardinality(X) \in Nat /\ Cardinality(Y) \in Nat
  BY <1>1, <1>2, FS_CardinalityType
<1> QED
  BY <1>2, <1>3

(* A rank is at least 1, and at most the number of those ranked.           *)
LEMMA RankBounds ==
  ASSUME NEW S, IsFiniteSet(S), NEW f, \A s \in S : f[s] \in Int, NEW x \in S
  PROVE  Cardinality({s \in S : f[s] <= f[x]}) \in 1 .. Cardinality(S)
<1> DEFINE X == {s \in S : f[s] <= f[x]}
<1>1. X \in SUBSET S /\ x \in X
  OBVIOUS
<1>2. IsFiniteSet(X) /\ Cardinality(X) <= Cardinality(S)
  BY <1>1, FS_Subset
<1>3. Cardinality(X) \in Nat /\ Cardinality(S) \in Nat /\ Cardinality(X) # 0
  BY <1>1, <1>2, FS_CardinalityType, FS_EmptySet
<1> QED
  BY <1>2, <1>3

(* Where no two stand alike, every rank is taken by one.                   *)
LEMMA RankTaken ==
  ASSUME NEW S, IsFiniteSet(S), NEW f, \A s \in S : f[s] \in Int,
         \A x, y \in S : x # y => f[x] # f[y]
  PROVE  \A n \in 1 .. Cardinality(S) :
           \E x \in S : Cardinality({s \in S : f[s] <= f[x]}) = n
<1> DEFINE rank == [x \in S |-> Cardinality({s \in S : f[s] <= f[x]})]
           N == Cardinality(S)
<1>1. N \in Nat
  BY FS_CardinalityType
<1>2. rank \in [S -> 1 .. N]
  BY RankBounds
<1>3. ASSUME NEW x \in S, NEW y \in S, x # y
      PROVE  rank[x] # rank[y]
  <2>1. f[x] < f[y] \/ f[y] < f[x]
    BY <1>3
  <2>2. rank[x] = Cardinality({s \in S : f[s] <= f[x]}) /\ rank[y] = Cardinality({s \in S : f[s] <= f[y]})
    BY <1>3
  <2>3. f[x] < f[y] => rank[x] < rank[y]
    BY <1>3, <2>2, RankGrows
  <2>4. f[y] < f[x] => rank[y] < rank[x]
    BY <1>3, <2>2, RankGrows
  <2>5. rank[x] \in 1 .. N /\ rank[y] \in 1 .. N
    BY <1>2
  <2> QED
    BY <1>1, <2>1, <2>5, <2>3, <2>4
<1>4. rank \in Injection(S, 1 .. N)
  BY <1>2, <1>3 DEF Injection, IsInjective
<1>5. IsFiniteSet(1 .. N) /\ Cardinality(1 .. N) = N
  BY <1>1, FS_Interval
<1>6. rank \in Surjection(S, 1 .. N)
  BY <1>4, <1>5, FS_Injection
<1> QED
  BY <1>6 DEF Surjection

-----------------------------------------------------------------------------
(* What the Terms of a year that is there look like.                       *)
LEMMA TermFacts ==
  ASSUME TypeOK, EveryDateInOneTerm, NEW y \in Years, years[y] # None
  PROVE  /\ TermsOf(y) \subseteq TermIds /\ IsFiniteSet(TermsOf(y))
         /\ years[y] \in Bounds
         /\ \A i \in TermsOf(y) : terms[i] \in Term /\ terms[i] # None /\ terms[i].year = y
         /\ Covers(years[y], Division(y))
         /\ \A e \in ExceptionsOf(y) : Within(years[y], e.date)
<1>1. IsFiniteSet(TermIds)
  BY StructureAssumption, FS_Interval DEF TermIds
<1>2. TermsOf(y) \in SUBSET TermIds
  BY DEF TermsOf, TermsIn
<1>3. IsFiniteSet(TermsOf(y))
  BY <1>1, <1>2, FS_Subset
<1> QED
  BY <1>2, <1>3 DEF TypeOK, TermsOf, TermsIn, ExceptionsOf, EveryDateInOneTerm, SoundPlan, Division

(* A year's Terms are all listed, each once, in an order that is joined.   *)
LEMMA ListedSound ==
  ASSUME TypeOK, EveryDateInOneTerm, NEW y \in Years, years[y] # None
  PROVE  /\ Listed(y) \in Seq(Draft) /\ Len(Listed(y)) = Cardinality(TermsOf(y))
         /\ NamedOnce(Listed(y))
         /\ Len(Listed(y)) # 0 =>
              /\ Listed(y)[1].first = years[y].first
              /\ Listed(y)[Len(Listed(y))].last = years[y].last
              /\ \A m \in 1 .. Len(Listed(y)) - 1 : Listed(y)[m + 1].first = Listed(y)[m].last + 1
<1> DEFINE T == TermsOf(y)
           N == Cardinality(T)
           f == [i \in T |-> terms[i].first]
           g == [i \in T |-> terms[i].last]
           at == [n \in 1 .. N |-> CHOOSE i \in T : Place(y, i) = n]
<1>1. /\ T \subseteq TermIds /\ IsFiniteSet(T) /\ years[y] \in Bounds
      /\ \A i \in T : terms[i] \in Term /\ terms[i] # None /\ terms[i].year = y
      /\ Covers(years[y], Division(y))
  BY TermFacts
<1>2. N \in Nat
  BY <1>1, FS_CardinalityType
<1>3. years[y].first \in Nat /\ years[y].last \in Nat
  BY <1>1, StructureAssumption DEF Bounds, Dates
<1>4. /\ \A i \in T : f[i] \in Nat /\ g[i] \in Nat /\ f[i] <= g[i]
      /\ \A i \in T : f[i] = terms[i].first /\ g[i] = terms[i].last
  BY <1>1, StructureAssumption DEF Term, Dates
<1>5. /\ \A i \in T : years[y].first <= f[i] /\ g[i] <= years[y].last
      /\ \A i, j \in T : i # j => g[i] < f[j] \/ g[j] < f[i]
      /\ T # {} => \E i \in T : f[i] = years[y].first
      /\ \A i \in T : g[i] = years[y].last \/ \E j \in T : f[j] = g[i] + 1
  <2>1. DOMAIN Division(y) = T /\ \A i \in T : Division(y)[i] = terms[i]
    BY DEF Division
  <2> QED
    BY <1>1, <1>4, <2>1 DEF Covers, Overlap
<1>6. \A i \in T : Place(y, i) = Cardinality({j \in T : f[j] <= f[i]})
  BY DEF Place
<1> HIDE DEF f, g, T
<1>7. \A i, j \in T : i # j => f[i] # f[j]
  BY <1>4, <1>5
<1>8. \A i \in T : f[i] \in Int
  BY <1>4
<1>9. \A n \in 1 .. N : \E i \in T : Place(y, i) = n
  <2>1. \A n \in 1 .. N : \E i \in T : Cardinality({j \in T : f[j] <= f[i]}) = n
    BY <1>1, <1>8, <1>7, RankTaken DEF N
  <2> QED
    BY <1>6, <2>1
<1>10. \A n \in 1 .. N : at[n] \in T /\ Place(y, at[n]) = n
  BY <1>9
<1>11. \A i, j \in T : f[i] < f[j] => Place(y, i) < Place(y, j)
  <2>1. \A i, j \in T : f[i] < f[j] =>
          Cardinality({k \in T : f[k] <= f[i]}) < Cardinality({k \in T : f[k] <= f[j]})
    BY <1>1, <1>8, RankGrows
  <2> QED
    BY <1>6, <2>1
<1>12. \A i \in T : Place(y, i) \in 1 .. N
  <2>1. ASSUME NEW i \in T
        PROVE  Cardinality({k \in T : f[k] <= f[i]}) \in 1 .. N
    BY <1>1, <1>8, RankBounds
  <2> QED
    BY <1>6, <2>1
<1>13. \A i \in T : at[Place(y, i)] = i
  BY <1>4, <1>7, <1>10, <1>11, <1>12
<1> HIDE DEF at
<1>14. Listed(y) = [n \in 1 .. N |-> Shown(at[n])]
  BY DEF Listed, at, N, T
<1>15. \A n \in 1 .. N : Shown(at[n]) \in Draft
  <2>1. \A i \in T : Shown(i) \in Draft
    BY <1>1, StructureAssumption DEF Shown, Draft, Term, Dates
  <2> QED
    BY <1>10, <2>1
<1>16. Listed(y) \in Seq(Draft) /\ Len(Listed(y)) = N
  <2> DEFINE e(n) == Shown(at[n])
  <2>1. \A n \in 1 .. N : e(n) \in Draft
    BY <1>15
  <2> HIDE DEF e
  <2>2. [n \in 1 .. N |-> e(n)] \in Seq(Draft)
    BY <1>2, <2>1, IsASeq
  <2>3. [n \in 1 .. N |-> e(n)] = Listed(y)
    BY <1>14 DEF e
  <2> QED
    BY <1>2, <1>14, <2>2, <2>3
<1>17. \A n \in 1 .. N : Listed(y)[n].id = at[n] /\ Listed(y)[n].first = f[at[n]] /\ Listed(y)[n].last = g[at[n]]
  BY <1>4, <1>10, <1>14 DEF Shown
<1> HIDE DEF N
<1>18. NamedOnce(Listed(y))
  <2>1. DOMAIN Listed(y) = 1 .. N
    BY <1>14
  <2> QED
    BY <1>10, <1>17, <2>1 DEF NamedOnce
<1>19. ASSUME N # 0
       PROVE  /\ f[at[1]] = years[y].first
              /\ g[at[N]] = years[y].last
  <2>1. T # {} /\ 1 \in 1 .. N /\ N \in 1 .. N
    BY <1>1, <1>2, <1>19, FS_EmptySet DEF N
  <2>2. PICK i \in T : f[i] = years[y].first
    BY <1>5, <2>1
  <2>3. Place(y, i) <= 1
    <3>1. ~(f[at[1]] < f[i])
      BY <1>3, <1>4, <1>5, <1>10, <2>1, <2>2
    <3>2. f[i] < f[at[1]] => Place(y, i) < 1
      BY <1>10, <1>11, <2>1
    <3>3. f[i] = f[at[1]] => i = at[1]
      BY <1>7, <1>10, <2>1
    <3> QED
      BY <1>4, <1>10, <1>12, <2>1, <3>1, <3>2, <3>3
  <2>4. f[at[1]] = years[y].first
    BY <1>12, <1>13, <2>2, <2>3
  <2>5. \A j \in T : ~(f[at[N]] < f[j])
    BY <1>2, <1>10, <1>11, <1>12, <2>1
  <2>6. g[at[N]] = years[y].last
    BY <1>4, <1>5, <1>10, <2>1, <2>5
  <2> QED
    BY <2>4, <2>6
<1>20. ASSUME NEW m \in 1 .. N - 1
       PROVE  f[at[m + 1]] = g[at[m]] + 1
  <2> DEFINE i == at[m]
             j == at[m + 1]
  <2>1. i \in T /\ j \in T /\ Place(y, i) = m /\ Place(y, j) = m + 1
    BY <1>2, <1>10
  <2>2. f[i] < f[j]
    BY <1>2, <1>4, <1>7, <1>11, <2>1
  <2>3. g[i] < f[j]
    BY <1>4, <1>5, <2>1, <2>2
  <2>4. g[i] # years[y].last
    BY <1>3, <1>4, <1>5, <2>1, <2>3
  <2>5. PICK k \in T : f[k] = g[i] + 1
    BY <1>5, <2>1, <2>4
  <2>6. Place(y, k) > m
    BY <1>4, <1>11, <2>1, <2>5
  <2>7. ~(f[k] < f[j])
    <3>1. f[k] < f[j] => Place(y, k) < m + 1
      BY <1>11, <2>1
    <3> QED
      BY <1>2, <1>12, <2>6, <3>1
  <2> QED
    BY <1>4, <2>1, <2>3, <2>5, <2>7
<1> QED
  <2>1. N # 0 => 1 \in 1 .. N /\ N \in 1 .. N
    BY <1>2
  <2>2. \A m \in 1 .. N - 1 : m \in 1 .. N /\ m + 1 \in 1 .. N
    BY <1>2
  <2> QED
    BY <1>16, <1>17, <1>18, <1>19, <1>20, <2>1, <2>2 DEF N, T

-----------------------------------------------------------------------------
(* A sequence without one of its elements.                                 *)
LEMMA RemovedAt ==
  ASSUME NEW S, NEW s \in Seq(S), NEW at \in 1 .. Len(s)
  PROVE  /\ RemoveAt(s, at) \in Seq(S) /\ Len(RemoveAt(s, at)) = Len(s) - 1
         /\ \A n \in 1 .. Len(s) - 1 : RemoveAt(s, at)[n] = IF n < at THEN s[n] ELSE s[n + 1]
<1> DEFINE head == SubSeq(s, 1, at - 1)
           tail == SubSeq(s, at + 1, Len(s))
<1>1. Len(s) \in Nat /\ \A n \in 1 .. Len(s) : s[n] \in S
  BY ElementOfSeq, LenProperties
<1>2. /\ head \in Seq(S) /\ Len(head) = at - 1
      /\ \A n \in 1 .. at - 1 : head[n] = s[n]
  <2>1. 1 \in Int /\ at - 1 \in Int /\ \A n \in 1 .. at - 1 : s[n] \in S
    BY <1>1
  <2>2. /\ head \in Seq(S) /\ Len(head) = IF 1 <= at - 1 THEN at - 1 - 1 + 1 ELSE 0
        /\ \A n \in 1 .. at - 1 - 1 + 1 : head[n] = s[1 + n - 1]
    BY <2>1, SubSeqProperties
  <2> QED
    BY <1>1, <2>2
<1>3. /\ tail \in Seq(S) /\ Len(tail) = Len(s) - at
      /\ \A n \in 1 .. Len(s) - at : tail[n] = s[at + n]
  <2>1. at + 1 \in Int /\ Len(s) \in Int /\ \A n \in at + 1 .. Len(s) : s[n] \in S
    BY <1>1
  <2>2. /\ tail \in Seq(S) /\ Len(tail) = IF at + 1 <= Len(s) THEN Len(s) - (at + 1) + 1 ELSE 0
        /\ \A n \in 1 .. Len(s) - (at + 1) + 1 : tail[n] = s[at + 1 + n - 1]
    BY <2>1, SubSeqProperties
  <2> QED
    BY <1>1, <2>2
<1>4. RemoveAt(s, at) = head \o tail
  BY DEF RemoveAt
<1> HIDE DEF head, tail
<1>5. /\ head \o tail \in Seq(S) /\ Len(head \o tail) = Len(head) + Len(tail)
      /\ \A n \in 1 .. Len(head) + Len(tail) :
           (head \o tail)[n] = IF n <= Len(head) THEN head[n] ELSE tail[n - Len(head)]
  BY <1>2, <1>3, ConcatProperties
<1>6. ASSUME NEW n \in 1 .. Len(s) - 1
      PROVE  RemoveAt(s, at)[n] = IF n < at THEN s[n] ELSE s[n + 1]
  <2>1. n \in 1 .. Len(head) + Len(tail) /\ Len(head) = at - 1
    BY <1>1, <1>2, <1>3
  <2>2. CASE n < at
    BY <1>1, <1>2, <1>4, <1>5, <2>1, <2>2
  <2>3. CASE ~(n < at)
    <3>1. n - (at - 1) \in 1 .. Len(s) - at /\ at + (n - (at - 1)) = n + 1
      BY <1>1, <2>3
    <3>2. tail[n - (at - 1)] = s[n + 1]
      BY <1>3, <3>1
    <3>3. n \in 1 .. Len(head) + Len(tail) /\ ~(n <= Len(head)) /\ n - Len(head) = n - (at - 1)
      BY <1>1, <2>1, <2>3
    <3>4. RemoveAt(s, at)[n] = tail[n - (at - 1)]
      BY <1>4, <1>5, <3>3
    <3> QED
      BY <2>3, <3>2, <3>4
  <2> QED
    BY <2>2, <2>3
<1> QED
  BY <1>1, <1>2, <1>3, <1>4, <1>5, <1>6

(* What an editor holds, field by field.                                   *)
LEMMA EditorFacts ==
  ASSUME NEW e \in Editor
  PROVE  /\ e.year \in Years /\ e.first \in 0 .. LastDate /\ e.last \in 0 .. LastDate
         /\ e.drafts \in Seq(Draft) /\ Len(e.drafts) \in Nat /\ DOMAIN e.drafts = 1 .. Len(e.drafts)
         /\ \A n \in 1 .. Len(e.drafts) : e.drafts[n] \in Draft
         /\ e.edits \in Nat /\ e.loose \in BOOLEAN
         /\ e.drafts # <<>> => Len(e.drafts) # 0
BY LenProperties, ElementOfSeq, EmptySeq DEF Editor

(* A sequence made longer by one.                                          *)
LEMMA ConcatOne ==
  ASSUME NEW S, NEW head \in Seq(S), NEW x \in S
  PROVE  /\ head \o <<x>> \in Seq(S) /\ Len(head \o <<x>>) = Len(head) + 1
         /\ \A n \in 1 .. Len(head) : (head \o <<x>>)[n] = head[n]
         /\ (head \o <<x>>)[Len(head) + 1] = x
<1> DEFINE N == Len(head)
           s == head \o <<x>>
<1>1. N \in Nat /\ <<x>> \in Seq(S) /\ Len(<<x>>) = 1 /\ <<x>>[1] = x
  OBVIOUS
<1>2. /\ s \in Seq(S) /\ Len(s) = N + 1
      /\ \A n \in 1 .. N + 1 : s[n] = IF n <= N THEN head[n] ELSE <<x>>[n - N]
  BY <1>1, ConcatProperties
<1> HIDE DEF N, s
<1>3. \A n \in 1 .. N : n \in 1 .. N + 1 /\ n <= N
  BY <1>1
<1>4. N + 1 \in 1 .. N + 1 /\ ~(N + 1 <= N) /\ N + 1 - N = 1
  BY <1>1
<1> QED
  BY <1>1, <1>2, <1>3, <1>4 DEF N, s

(* An edit keeps every Term named once, and Terms joined unless it loosens *)
(* them: it is of a bound of the year,                                     *)
LEMMA SetBoundKeeps ==
  ASSUME NEW e \in Editor, EditorSound(e), NEW bound \in {"first", "last"}, NEW v \in {Blank} \cup Dates
  PROVE  SetBound(e, bound, v) \in Editor /\ EditorSound(SetBound(e, bound, v))
<1> DEFINE N == Len(e.drafts)
           at == IF bound = "first" THEN 1 ELSE N
           d == SetBound(e, bound, v)
<1>1. v \in 0 .. LastDate /\ v \in 0 .. LastDate + 1
  BY StructureAssumption DEF Blank, Dates
<1>2. N \in Nat /\ e.drafts \in Seq(Draft) /\ DOMAIN e.drafts = 1 .. N /\ \A n \in 1 .. N : e.drafts[n] \in Draft
  BY EditorFacts
<1>3. CASE e.drafts = <<>>
  <2>1. d = [e EXCEPT ![bound] = v]
    BY <1>3 DEF SetBound
  <2>2. d \in Editor /\ d.drafts = e.drafts /\ d.loose = e.loose /\ N = 0
    BY <1>1, <1>3, <2>1 DEF Editor
  <2> QED
    BY <2>2 DEF EditorSound, Joined
<1>4. CASE e.drafts # <<>>
  <2>1. N # 0 /\ at \in 1 .. N
    BY <1>2, <1>4, EditorFacts
  <2> DEFINE t == [e.drafts[at] EXCEPT ![bound] = v]
  <2>2. d = [[e EXCEPT ![bound] = v] EXCEPT !.drafts = [e.drafts EXCEPT ![at] = t]]
    BY <1>4 DEF SetBound, Editor
  <2>3. t \in Draft /\ t.id = e.drafts[at].id /\ t[bound] = v
        /\ (bound = "first" => t.last = e.drafts[at].last) /\ (bound = "last" => t.first = e.drafts[at].first)
    BY <1>1, <1>2, <2>1 DEF Draft
  <2> HIDE DEF t
  <2>4. /\ [e.drafts EXCEPT ![at] = t] \in Seq(Draft) /\ Len([e.drafts EXCEPT ![at] = t]) = N
        /\ \A n \in 1 .. N : [e.drafts EXCEPT ![at] = t][n] = IF n = at THEN t ELSE e.drafts[n]
    BY <1>2, <2>1, <2>3, ExceptSeq
  <2>5. /\ d \in Editor /\ d.drafts = [e.drafts EXCEPT ![at] = t] /\ d.loose = e.loose
        /\ d.first = (IF bound = "first" THEN v ELSE e.first) /\ d.last = IF bound = "last" THEN v ELSE e.last
    BY <1>1, <2>2, <2>4 DEF Editor
  <2>6. DOMAIN d.drafts = 1 .. N
    BY <1>2, <2>5
  <2>7. NamedOnce(d.drafts)
    BY <1>2, <2>1, <2>3, <2>4, <2>5, <2>6 DEF NamedOnce, EditorSound
  <2>8. ASSUME ~e.loose
        PROVE  Joined(d)
    <3>1. /\ e.drafts[1].first = e.first /\ e.drafts[N].last = e.last
          /\ \A m \in 1 .. N - 1 : e.drafts[m].last = Blank \/ e.drafts[m + 1].first = e.drafts[m].last + 1
      BY <2>1, <2>8 DEF EditorSound, Joined
    <3>2. Len(d.drafts) = N
      BY <2>4, <2>5
    <3>3. d.drafts[1].first = d.first /\ d.drafts[N].last = d.last
      BY <1>2, <2>1, <2>3, <2>4, <2>5, <3>1
    <3>4. ASSUME NEW m \in 1 .. N - 1
          PROVE  d.drafts[m].last = Blank \/ d.drafts[m + 1].first = d.drafts[m].last + 1
      <4>1. m \in 1 .. N /\ m + 1 \in 1 .. N /\ m # N /\ m + 1 # 1
        BY <1>2
      <4>2. d.drafts[m].last = e.drafts[m].last /\ d.drafts[m + 1].first = e.drafts[m + 1].first
        BY <2>3, <2>4, <2>5, <4>1
      <4> QED
        BY <3>1, <4>2
    <3> QED
      BY <3>2, <3>3, <3>4 DEF Joined
  <2> QED
    BY <2>5, <2>7, <2>8 DEF EditorSound
<1> QED
  BY <1>3, <1>4

(* of the last day of a Term,                                              *)
LEMMA SetLastDayKeeps ==
  ASSUME NEW e \in Editor, EditorSound(e), NEW at \in DOMAIN e.drafts, NEW v \in {Blank} \cup Dates
  PROVE  SetLastDay(e, at, v) \in Editor /\ EditorSound(SetLastDay(e, at, v))
<1> DEFINE N == Len(e.drafts)
           moved(n) == IF n = at THEN [e.drafts[n] EXCEPT !.last = v]
                       ELSE IF n = at + 1 /\ v # Blank THEN [e.drafts[n] EXCEPT !.first = v + 1]
                       ELSE e.drafts[n]
           s == [n \in 1 .. N |-> moved(n)]
           d == SetLastDay(e, at, v)
<1>1. v \in 0 .. LastDate /\ v + 1 \in 0 .. LastDate + 1
  BY StructureAssumption DEF Blank, Dates
<1>2. N \in Nat /\ e.drafts \in Seq(Draft) /\ DOMAIN e.drafts = 1 .. N /\ \A n \in 1 .. N : e.drafts[n] \in Draft
  BY EditorFacts
<1>3. ASSUME NEW n \in 1 .. N
      PROVE  /\ moved(n) \in Draft /\ moved(n).id = e.drafts[n].id
             /\ moved(n).last = (IF n = at THEN v ELSE e.drafts[n].last)
             /\ moved(n).first = IF n = at + 1 /\ v # Blank THEN v + 1 ELSE e.drafts[n].first
  <2>1. at \in Nat /\ e.drafts[n] \in Draft /\ at # at + 1
    BY <1>2
  <2>2. CASE n = at
    BY <1>1, <2>1, <2>2 DEF Draft
  <2>3. CASE n = at + 1 /\ v # Blank
    BY <1>1, <2>1, <2>3 DEF Draft
  <2>4. CASE n # at /\ ~(n = at + 1 /\ v # Blank)
    <3>1. moved(n) = e.drafts[n]
      BY <2>4
    <3> QED
      BY <2>1, <2>4, <3>1
  <2> QED
    BY <2>2, <2>3, <2>4
<1> HIDE DEF moved
<1>4. s \in Seq(Draft) /\ Len(s) = N /\ DOMAIN s = 1 .. N
  <2>1. \A n \in 1 .. N : moved(n) \in Draft
    BY <1>3
  <2>2. s \in Seq(Draft)
    BY <1>2, <2>1, IsASeq
  <2> QED
    BY <1>2, <2>2, LenProperties
<1>5. \A n \in 1 .. N : s[n] = moved(n)
  OBVIOUS
<1>6. d = [[e EXCEPT !.drafts = s] EXCEPT !.loose = e.loose \/ at = N]
  BY <1>2 DEF SetLastDay, moved, Editor
<1> HIDE DEF s
<1>7. /\ d \in Editor /\ d.drafts = s /\ d.first = e.first /\ d.last = e.last
      /\ d.loose <=> (e.loose \/ at = N)
  BY <1>4, <1>6 DEF Editor
<1>8. NamedOnce(d.drafts)
  BY <1>2, <1>3, <1>4, <1>5, <1>7 DEF NamedOnce, EditorSound
<1>9. ASSUME ~d.loose
      PROVE  Joined(d)
  <2>1. ~e.loose /\ at # N /\ at \in 1 .. N /\ N # 0 /\ 1 \in 1 .. N /\ N \in 1 .. N /\ at + 1 # 1
    BY <1>2, <1>7, <1>9
  <2>2. /\ e.drafts[1].first = e.first /\ e.drafts[N].last = e.last
        /\ \A m \in 1 .. N - 1 : e.drafts[m].last = Blank \/ e.drafts[m + 1].first = e.drafts[m].last + 1
    BY <2>1 DEF EditorSound, Joined
  <2>3. d.drafts[1].first = d.first /\ d.drafts[N].last = d.last
    BY <1>3, <1>5, <1>7, <2>1, <2>2
  <2>4. ASSUME NEW m \in 1 .. N - 1
        PROVE  d.drafts[m].last = Blank \/ d.drafts[m + 1].first = d.drafts[m].last + 1
    <3>1. m \in 1 .. N /\ m + 1 \in 1 .. N
      BY <1>2
    <3>2. d.drafts[m].last = (IF m = at THEN v ELSE e.drafts[m].last)
      BY <1>3, <1>5, <1>7, <3>1
    <3>3. d.drafts[m + 1].first = IF m + 1 = at + 1 /\ v # Blank THEN v + 1 ELSE e.drafts[m + 1].first
      BY <1>3, <1>5, <1>7, <3>1
    <3>4. m + 1 = at + 1 <=> m = at
      BY <1>2, <2>1
    <3> QED
      BY <2>2, <3>2, <3>3, <3>4
  <2> QED
    BY <1>4, <1>7, <2>3, <2>4 DEF Joined
<1> QED
  BY <1>7, <1>8, <1>9 DEF EditorSound

(* of its first day,                                                       *)
LEMMA SetFirstDayKeeps ==
  ASSUME NEW e \in Editor, EditorSound(e), NEW at \in DOMAIN e.drafts, NEW v \in {Blank} \cup Dates
  PROVE  SetFirstDay(e, at, v) \in Editor /\ EditorSound(SetFirstDay(e, at, v))
<1> DEFINE N == Len(e.drafts)
           t == [e.drafts[at] EXCEPT !.first = v]
           s == [e.drafts EXCEPT ![at] = t]
           d == SetFirstDay(e, at, v)
<1>1. v \in 0 .. LastDate + 1
  BY StructureAssumption DEF Blank, Dates
<1>2. N \in Nat /\ e.drafts \in Seq(Draft) /\ DOMAIN e.drafts = 1 .. N /\ \A n \in 1 .. N : e.drafts[n] \in Draft
  BY EditorFacts
<1>3. d = [[e EXCEPT !.drafts = s] EXCEPT !.loose = TRUE]
  BY <1>2 DEF SetFirstDay, Editor
<1>4. t \in Draft /\ t.id = e.drafts[at].id
  BY <1>1, <1>2 DEF Draft
<1> HIDE DEF t
<1>5. s \in Seq(Draft) /\ Len(s) = N /\ \A n \in 1 .. N : s[n] = IF n = at THEN t ELSE e.drafts[n]
  BY <1>2, <1>4, ExceptSeq
<1>6. DOMAIN s = 1 .. N
  BY <1>2
<1> HIDE DEF s
<1>7. d \in Editor /\ d.drafts = s /\ d.loose
  BY <1>3, <1>5 DEF Editor
<1>8. NamedOnce(s)
  BY <1>2, <1>4, <1>5, <1>6 DEF NamedOnce, EditorSound
<1> QED
  BY <1>7, <1>8 DEF EditorSound

(* a Term added at the end,                                                *)
LEMMA AddTermKeeps ==
  ASSUME NEW e \in Editor, EditorSound(e)
  PROVE  AddTerm(e) \in Editor /\ EditorSound(AddTerm(e))
<1> DEFINE N == Len(e.drafts)
           t == [e.drafts[N] EXCEPT !.last = Blank]
           head == IF N = 0 THEN e.drafts ELSE [e.drafts EXCEPT ![N] = t]
           new == [id |-> None, first |-> IF N = 0 THEN e.first ELSE Blank, last |-> e.last]
           s == head \o <<new>>
           d == AddTerm(e)
<1>1. Blank \in 0 .. LastDate /\ Blank \in 0 .. LastDate + 1 /\ LastDate \in Nat
  BY StructureAssumption DEF Blank
<1>2. /\ N \in Nat /\ e.drafts \in Seq(Draft) /\ DOMAIN e.drafts = 1 .. N /\ \A n \in 1 .. N : e.drafts[n] \in Draft
      /\ e.first \in 0 .. LastDate /\ e.last \in 0 .. LastDate
  BY EditorFacts
<1>3. d = [e EXCEPT !.drafts = s]
  <2>1. N # 0 => t = [e.drafts[N] EXCEPT !.last = Blank]
    OBVIOUS
  <2>2. e.drafts = e["drafts"]
    OBVIOUS
  <2> QED
    BY DEF AddTerm, Editor
<1>4. new \in Draft /\ new.id = None /\ new.last = e.last /\ new.first = IF N = 0 THEN e.first ELSE Blank
  BY <1>1, <1>2 DEF Draft
<1>5. /\ head \in Seq(Draft) /\ Len(head) = N
      /\ \A n \in 1 .. N : head[n].id = e.drafts[n].id /\ head[n].first = e.drafts[n].first
      /\ \A n \in 1 .. N : head[n].last = IF n = N THEN Blank ELSE e.drafts[n].last
  <2>1. CASE N = 0
    BY <1>2, <2>1
  <2>2. CASE N # 0
    <3>1. N \in 1 .. N /\ head = [e.drafts EXCEPT ![N] = t]
      BY <1>2, <2>2
    <3>2. t \in Draft /\ t.id = e.drafts[N].id /\ t.first = e.drafts[N].first /\ t.last = Blank
      BY <1>1, <1>2, <3>1 DEF Draft
    <3> HIDE DEF t, head
    <3>3. head \in Seq(Draft) /\ Len(head) = N /\ \A n \in 1 .. N : head[n] = IF n = N THEN t ELSE e.drafts[n]
      BY <1>2, <3>1, <3>2, ExceptSeq
    <3> QED
      BY <3>2, <3>3
  <2> QED
    BY <2>1, <2>2
<1> HIDE DEF head, new
<1>6. /\ s \in Seq(Draft) /\ Len(s) = N + 1
      /\ (\A n \in 1 .. N : s[n] = head[n]) /\ s[N + 1] = new
  <2> HIDE DEF N, d, t
  <2> QED
    BY <1>4, <1>5, ConcatOne
<1>7. DOMAIN s = 1 .. N + 1
  BY <1>6, LenProperties
<1> HIDE DEF s
<1>8. (\A n \in 1 .. N : s[n] = head[n]) /\ s[N + 1] = new
  BY <1>6
<1>9. d \in Editor /\ d.drafts = s /\ d.first = e.first /\ d.last = e.last /\ d.loose = e.loose
  <2>1. d = [e EXCEPT !.drafts = s] /\ s \in Seq(Draft)
    BY <1>3, <1>6
  <2> HIDE DEF d
  <2> QED
    BY <2>1 DEF Editor
<1>10. NamedOnce(s)
  <2>1. \A n \in 1 .. N + 1 : n \in 1 .. N \/ n = N + 1
    BY <1>2
  <2>2. \A n \in 1 .. N : s[n].id = e.drafts[n].id
    BY <1>5, <1>8
  <2> QED
    BY <1>2, <1>4, <1>7, <1>8, <2>1, <2>2 DEF NamedOnce, EditorSound
<1>11. ASSUME ~e.loose
       PROVE  Joined(d)
  <2>1. d.drafts[N + 1].last = d.last
    BY <1>4, <1>8, <1>9
  <2>2. d.drafts[1].first = d.first
    <3>1. CASE N = 0
      BY <1>4, <1>8, <1>9, <3>1
    <3>2. CASE N # 0
      <4>1. 1 \in 1 .. N
        BY <1>2, <3>2
      <4> QED
        BY <1>5, <1>8, <1>9, <1>11, <3>2, <4>1 DEF EditorSound, Joined
    <3> QED
      BY <3>1, <3>2
  <2>3. ASSUME NEW m \in 1 .. N
        PROVE  s[m].last = Blank \/ s[m + 1].first = s[m].last + 1
    <3>1. CASE m = N
      BY <1>5, <1>8, <3>1
    <3>2. CASE m # N
      <4>1. m \in 1 .. N - 1 /\ m + 1 \in 1 .. N /\ N # 0
        BY <1>2, <3>2
      <4>2. e.drafts[m].last = Blank \/ e.drafts[m + 1].first = e.drafts[m].last + 1
        BY <1>11, <4>1 DEF EditorSound, Joined
      <4> QED
        BY <1>5, <1>8, <3>2, <4>1, <4>2
    <3> QED
      BY <3>1, <3>2
  <2>4. N + 1 - 1 = N
    BY <1>2
  <2> QED
    BY <1>6, <1>9, <2>1, <2>2, <2>3, <2>4 DEF Joined
<1> QED
  BY <1>9, <1>10, <1>11 DEF EditorSound

(* or a Term removed.                                                      *)
LEMMA RemoveTermKeeps ==
  ASSUME NEW e \in Editor, EditorSound(e), NEW at \in DOMAIN e.drafts
  PROVE  RemoveTerm(e, at) \in Editor /\ EditorSound(RemoveTerm(e, at))
<1> DEFINE N == Len(e.drafts)
           kept == RemoveAt(e.drafts, at)
           s == IF kept = <<>> THEN kept
                ELSE IF at = 1 THEN [kept EXCEPT ![1].first = e.first]
                ELSE [kept EXCEPT ![at - 1].last = e.drafts[at].last]
           d == RemoveTerm(e, at)
           from(n) == IF n < at THEN n ELSE n + 1
<1>1. /\ N \in Nat /\ e.drafts \in Seq(Draft) /\ DOMAIN e.drafts = 1 .. N /\ \A n \in 1 .. N : e.drafts[n] \in Draft
      /\ e.first \in 0 .. LastDate /\ at \in 1 .. N
  BY EditorFacts
<1>2. /\ kept \in Seq(Draft) /\ Len(kept) = N - 1
      /\ \A n \in 1 .. N - 1 : kept[n] = IF n < at THEN e.drafts[n] ELSE e.drafts[n + 1]
  BY <1>1, RemovedAt
<1>3. d = [e EXCEPT !.drafts = s]
  BY DEF RemoveTerm, Editor
<1> HIDE DEF kept
<1>4. ASSUME NEW n \in 1 .. N - 1
      PROVE  from(n) \in 1 .. N /\ kept[n] = e.drafts[from(n)]
  <2>1. N \in Nat /\ at \in 1 .. N
    BY <1>1
  <2> HIDE DEF N
  <2>2. n \in 1 .. N /\ n + 1 \in 1 .. N
    BY <2>1
  <2> QED
    BY <1>2, <2>2
<1>5. \A m, n \in 1 .. N - 1 : m # n => from(m) # from(n)
  BY <1>1
<1>6. kept = <<>> <=> N = 1
  <2>1. kept = <<>> => Len(kept) = 0
    BY EmptySeq
  <2>2. kept # <<>> => Len(kept) # 0
    BY <1>2, EmptySeq
  <2> QED
    BY <1>1, <1>2, <2>1, <2>2
<1>7. /\ s \in Seq(Draft) /\ Len(s) = N - 1
      /\ \A n \in 1 .. N - 1 :
           /\ s[n].id = kept[n].id
           /\ s[n].first = (IF at = 1 /\ n = 1 THEN e.first ELSE kept[n].first)
           /\ s[n].last = IF at # 1 /\ n = at - 1 THEN e.drafts[at].last ELSE kept[n].last
  <2>1. CASE N = 1
    <3>1. at = 1 /\ s = kept /\ 1 .. N - 1 = {}
      BY <1>1, <1>6, <2>1
    <3> QED
      BY <1>2, <3>1
  <2>2. CASE N # 1 /\ at = 1
    <3> DEFINE t == [kept[1] EXCEPT !.first = e.first]
    <3>1. kept # <<>> /\ 1 \in 1 .. Len(kept) /\ s = [kept EXCEPT ![1] = t]
      BY <1>1, <1>2, <1>6, <2>2
    <3>2. /\ t \in Draft /\ t.id = kept[1].id /\ t.first = e.first /\ t.last = kept[1].last
      <4>1. e.first \in 0 .. LastDate + 1 /\ kept[1] \in Draft
        BY <1>1, <1>2, <3>1, StructureAssumption, ElementOfSeq
      <4>2. \A k \in Draft, v \in 0 .. LastDate + 1 :
              LET u == [k EXCEPT !.first = v]
              IN u \in Draft /\ u.id = k.id /\ u.first = v /\ u.last = k.last
        BY DEF Draft
      <4> QED
        BY <4>1, <4>2
    <3> HIDE DEF t, s
    <3>3. s \in Seq(Draft) /\ Len(s) = Len(kept) /\ \A n \in 1 .. Len(kept) : s[n] = IF n = 1 THEN t ELSE kept[n]
      BY <1>2, <3>1, <3>2, ExceptSeq
    <3> QED
      BY <1>2, <2>2, <3>2, <3>3
  <2>3. CASE N # 1 /\ at # 1
    <3> DEFINE t == [kept[at - 1] EXCEPT !.last = e.drafts[at].last]
    <3>1. kept # <<>> /\ at - 1 \in 1 .. Len(kept) /\ s = [kept EXCEPT ![at - 1] = t]
      BY <1>1, <1>2, <1>6, <2>3
    <3>2. /\ t \in Draft /\ t.id = kept[at - 1].id /\ t.first = kept[at - 1].first /\ t.last = e.drafts[at].last
      <4>1. e.drafts[at] \in Draft /\ kept[at - 1] \in Draft
        BY <1>1, <1>2, <3>1, ElementOfSeq
      <4> QED
        BY <4>1 DEF Draft
    <3> HIDE DEF t, s
    <3>3. s \in Seq(Draft) /\ Len(s) = Len(kept) /\ \A n \in 1 .. Len(kept) : s[n] = IF n = at - 1 THEN t ELSE kept[n]
      BY <1>2, <3>1, <3>2, ExceptSeq
    <3> QED
      BY <1>2, <2>3, <3>2, <3>3
  <2> QED
    BY <2>1, <2>2, <2>3
<1> HIDE DEF s
<1>8. DOMAIN s = 1 .. N - 1
  BY <1>7, LenProperties
<1>9. d \in Editor /\ d.drafts = s /\ d.first = e.first /\ d.last = e.last /\ d.loose = e.loose
  BY <1>3, <1>7 DEF Editor
<1>10. NamedOnce(s)
  <2>1. \A m, n \in 1 .. N : m # n /\ e.drafts[m].id # None => e.drafts[m].id # e.drafts[n].id
    BY <1>1 DEF EditorSound, NamedOnce
  <2>2. ASSUME NEW m \in 1 .. N - 1, NEW n \in 1 .. N - 1, m # n, s[m].id # None
        PROVE  s[m].id # s[n].id
    <3>1. s[m].id = e.drafts[from(m)].id /\ s[n].id = e.drafts[from(n)].id
      BY <1>4, <1>7
    <3>2. from(m) \in 1 .. N /\ from(n) \in 1 .. N /\ from(m) # from(n)
      BY <1>4, <1>5, <2>2
    <3> HIDE DEF from
    <3> QED
      BY <2>1, <2>2, <3>1, <3>2
  <2> QED
    BY <1>8, <2>2 DEF NamedOnce
<1>11. ASSUME ~e.loose, N # 1
       PROVE  Joined(d)
  <2>1. /\ e.drafts[1].first = e.first /\ e.drafts[N].last = e.last
        /\ \A m \in 1 .. N - 1 : e.drafts[m].last = Blank \/ e.drafts[m + 1].first = e.drafts[m].last + 1
    BY <1>1, <1>11 DEF EditorSound, Joined
  <2>2. 1 \in 1 .. N - 1 /\ N - 1 \in 1 .. N - 1
    <3>1. N \in Nat /\ at \in 1 .. N /\ N # 1
      BY <1>1, <1>11
    <3> HIDE DEF N
    <3> QED
      BY <3>1
  <2>3. s[1].first = e.first
    <3>1. CASE at = 1
      BY <1>7, <2>2, <3>1
    <3>2. CASE at # 1
      <4>1. from(1) = 1
        BY <1>1, <3>2
      <4> QED
        BY <1>4, <1>7, <2>1, <2>2, <3>2, <4>1
    <3> QED
      BY <3>1, <3>2
  <2>4. s[N - 1].last = e.last
    <3>1. CASE at = N
      <4>1. at # 1 /\ N - 1 = at - 1
        BY <1>11, <3>1
      <4> QED
        BY <1>7, <2>1, <2>2, <3>1, <4>1
    <3>2. CASE at # N
      <4>1. from(N - 1) = N /\ N - 1 # at - 1
        BY <1>1, <3>2
      <4> QED
        BY <1>4, <1>7, <2>1, <2>2, <4>1
    <3> QED
      BY <3>1, <3>2
  <2>5. ASSUME NEW m \in 1 .. N - 1 - 1
        PROVE  s[m].last = Blank \/ s[m + 1].first = s[m].last + 1
    <3>1. m \in 1 .. N - 1 /\ m + 1 \in 1 .. N - 1 /\ m + 1 # 1
      BY <1>1
    <3>2. s[m + 1].first = kept[m + 1].first
      BY <1>7, <3>1
    <3>3. CASE at # 1 /\ m = at - 1
      <4>1. s[m].last = e.drafts[at].last
        BY <1>7, <3>1, <3>3
      <4>2. at \in 1 .. N - 1 /\ ~(m + 1 < at) /\ m + 1 + 1 = at + 1
        BY <1>1, <3>1, <3>3
      <4>3. kept[m + 1] = e.drafts[at + 1]
        BY <1>2, <3>1, <4>2
      <4> QED
        BY <2>1, <3>2, <4>1, <4>2, <4>3
    <3>4. CASE at = 1 \/ m # at - 1
      <4>1. s[m].last = e.drafts[from(m)].last /\ kept[m + 1] = e.drafts[from(m + 1)]
        BY <1>4, <1>7, <3>1, <3>4
      <4>2. from(m + 1) = from(m) + 1 /\ from(m) \in 1 .. N - 1
        <5>1. N \in Nat /\ at \in 1 .. N /\ m \in 1 .. N - 1 - 1
          BY <1>1
        <5> HIDE DEF N
        <5>2. m < at => m + 1 < at
          BY <3>4, <5>1
        <5> QED
          BY <5>1, <5>2
      <4> HIDE DEF from
      <4> QED
        BY <2>1, <3>2, <4>1, <4>2
    <3> QED
      BY <3>3, <3>4
  <2> QED
    BY <1>7, <1>9, <2>3, <2>4, <2>5 DEF Joined
<1>12. N = 1 => Joined(d)
  BY <1>7, <1>9 DEF Joined
<1> QED
  BY <1>9, <1>10, <1>11, <1>12 DEF EditorSound

(* So does whatever is edited.                                             *)
LEMMA EditsKeep ==
  ASSUME NEW e \in Editor, EditorSound(e), NEW d \in Edits(e)
  PROVE  [d EXCEPT !.edits = @ + 1] \in Editor /\ EditorSound([d EXCEPT !.edits = @ + 1])
<1>1. d \in Editor /\ EditorSound(d)
  <2>1. CASE \E bound \in {"first", "last"}, v \in {Blank} \cup Dates : d = SetBound(e, bound, v)
    BY <2>1, SetBoundKeeps
  <2>2. CASE \E at \in DOMAIN e.drafts, v \in {Blank} \cup Dates : d = SetLastDay(e, at, v)
    BY <2>2, SetLastDayKeeps
  <2>3. CASE \E at \in DOMAIN e.drafts, v \in {Blank} \cup Dates : d = SetFirstDay(e, at, v)
    BY <2>3, SetFirstDayKeeps
  <2>4. CASE d = AddTerm(e)
    BY <2>4, AddTermKeeps
  <2>5. CASE \E at \in DOMAIN e.drafts : d = RemoveTerm(e, at)
    BY <2>5, RemoveTermKeeps
  <2> QED
    BY <2>1, <2>2, <2>3, <2>4, <2>5 DEF Edits
<1> DEFINE c == [d EXCEPT !.edits = @ + 1]
<1>2. c \in Editor
  <2>1. d.edits + 1 \in Nat /\ c = [d EXCEPT !.edits = d.edits + 1]
    BY <1>1 DEF Editor
  <2> HIDE DEF c
  <2> QED
    BY <1>1, <2>1 DEF Editor
<1>3. c.drafts = d.drafts /\ c.first = d.first /\ c.last = d.last /\ c.loose = d.loose
  BY <1>1 DEF Editor
<1>4. EditorSound(c)
  <2> HIDE DEF c
  <2> QED
    BY <1>1, <1>3 DEF EditorSound, Joined
<1> QED
  BY <1>2, <1>4

(* An editor opens over what is listed.                                    *)
LEMMA OpenedSound ==
  ASSUME TypeOK, EveryDateInOneTerm, NEW y \in Years, years[y] # None
  PROVE  LET e == [year |-> y, first |-> years[y].first, last |-> years[y].last,
                   drafts |-> Listed(y), edits |-> 0, loose |-> FALSE]
         IN e \in Editor /\ EditorSound(e)
<1> DEFINE e == [year |-> y, first |-> years[y].first, last |-> years[y].last,
                 drafts |-> Listed(y), edits |-> 0, loose |-> FALSE]
<1>1. years[y] \in Bounds
  BY TermFacts
<1>2. e \in Editor
  BY <1>1, ListedSound, StructureAssumption DEF Editor, Bounds, Dates
<1>3. e.drafts = Listed(y) /\ e.first = years[y].first /\ e.last = years[y].last
  OBVIOUS
<1>4. NamedOnce(e.drafts) /\ Joined(e)
  BY <1>3, ListedSound DEF Joined
<1> QED
  BY <1>2, <1>4 DEF EditorSound

(* A set of numbers with a member has a least one.                         *)
LEMMA LeastIn ==
  ASSUME NEW S \in SUBSET Nat, S # {},
         NEW R, IsWellFoundedOn(R, Nat), \A x, y \in Nat : <<y, x>> \in R <=> y < x
  PROVE  \E m \in S : \A n \in S : m <= n
<1>1. PICK m \in S : \A n \in S : ~(<<n, m>> \in R)
  BY WFMin
<1>2. ASSUME NEW n \in S
      PROVE  m <= n
  <2>1. m \in Nat /\ n \in Nat
    OBVIOUS
  <2>2. ~(n < m)
    BY <1>1, <2>1, Zenon
  <2> QED
    BY <2>1, <2>2
<1> QED
  BY <1>2

(* Terms that are joined, all of whose days are given, are in order.       *)
LEMMA JoinedOrdered ==
  ASSUME NEW N \in Nat, NEW f \in [1 .. N -> Int], NEW g \in [1 .. N -> Int],
         \A n \in 1 .. N : f[n] <= g[n],
         \A n \in 1 .. N - 1 : f[n + 1] = g[n] + 1
  PROVE  \A m, n \in 1 .. N : m < n => g[m] < f[n]
<1> SUFFICES ASSUME NEW m \in 1 .. N, NEW k \in 1 .. N, m < k, ~(g[m] < f[k])
             PROVE  FALSE
  OBVIOUS
<1> DEFINE S == {n \in 1 .. N : m < n /\ ~(g[m] < f[n])}
<1>1. S \in SUBSET Nat /\ k \in S
  OBVIOUS
<1>2. \A x, y \in Nat : <<y, x>> \in OpToRel(<, Nat) <=> y < x
  BY DEF OpToRel
<1>3. PICK n \in S : \A l \in S : n <= l
  BY <1>1, <1>2, LeastIn, NatLessThanWellFounded
<1>4. n - 1 \in 1 .. N - 1 /\ n - 1 \in 1 .. N /\ n - 1 + 1 = n /\ ~(g[m] < f[n]) /\ m < n
  BY <1>3
<1>5. f[n] = g[n - 1] + 1
  BY <1>4
<1>6. CASE n - 1 = m
  BY <1>4, <1>5, <1>6
<1>7. CASE n - 1 # m
  <2>1. n - 1 \notin S
    BY <1>3, <1>4
  <2>2. g[m] < f[n - 1]
    BY <1>4, <1>7, <2>1
  <2>3. f[n - 1] <= g[n - 1]
    BY <1>4
  <2>4. g[m] \in Int /\ f[n - 1] \in Int /\ g[n - 1] \in Int /\ f[n] \in Int
    BY <1>4
  <2> QED
    BY <1>4, <1>5, <2>2, <2>3, <2>4
<1> QED
  BY <1>6, <1>7

(* Terms that are joined and may be sent cover their year.                 *)
LEMMA JoinedCovers ==
  ASSUME NEW e \in Editor, Joined(e), Submittable(e)
  PROVE  Covers([first |-> e.first, last |-> e.last], e.drafts)
<1> DEFINE N == Len(e.drafts)
           f == [n \in 1 .. N |-> e.drafts[n].first]
           g == [n \in 1 .. N |-> e.drafts[n].last]
<1>1. /\ N \in Nat /\ DOMAIN e.drafts = 1 .. N /\ \A n \in 1 .. N : e.drafts[n] \in Draft
      /\ e.first \in Nat /\ e.last \in Nat /\ e.first # 0
  BY EditorFacts, StructureAssumption DEF Submittable, Blank
<1>2. /\ \A n \in 1 .. N : f[n] = e.drafts[n].first /\ g[n] = e.drafts[n].last
      /\ (\A n \in 1 .. N : f[n] \in Int /\ g[n] \in Int) => f \in [1 .. N -> Int] /\ g \in [1 .. N -> Int]
  OBVIOUS
<1> HIDE DEF f, g
<1>3. \A n \in 1 .. N : f[n] \in e.first .. e.last /\ g[n] \in f[n] .. e.last /\ g[n] # 0
  <2>1. \A n \in 1 .. N : f[n] \in e.first .. e.last /\ g[n] \in f[n] .. e.last
    BY <1>1, <1>2 DEF Submittable
  <2> QED
    BY <1>1, <2>1
<1>4. f \in [1 .. N -> Int] /\ g \in [1 .. N -> Int] /\ \A n \in 1 .. N : f[n] <= g[n]
  <2>1. \A n \in 1 .. N : f[n] \in Int /\ g[n] \in Int /\ f[n] <= g[n]
    BY <1>1, <1>3
  <2> QED
    BY <1>2, <2>1
<1>5. N # 0 => f[1] = e.first /\ g[N] = e.last /\ \A n \in 1 .. N - 1 : f[n + 1] = g[n] + 1
  <2>1. N # 0 => 1 \in 1 .. N /\ N \in 1 .. N
    BY <1>1
  <2>2. \A n \in 1 .. N - 1 : n \in 1 .. N /\ n + 1 \in 1 .. N
    BY <1>1
  <2>3. N # 0 =>
          /\ e.drafts[1].first = e.first /\ e.drafts[N].last = e.last
          /\ \A n \in 1 .. N - 1 : e.drafts[n].last = Blank \/ e.drafts[n + 1].first = e.drafts[n].last + 1
    BY DEF Joined
  <2> QED
    BY <1>3, <1>2, <2>1, <2>2, <2>3 DEF Blank
<1>6. \A m, n \in 1 .. N : m < n => g[m] < f[n]
  <2>1. \A n \in 1 .. N - 1 : f[n + 1] = g[n] + 1
    BY <1>1, <1>5
  <2> QED
    BY <1>1, <1>4, <2>1, JoinedOrdered
<1>7. \A n \in 1 .. N : f[n] \in Int /\ g[n] \in Int
  BY <1>4
<1>8. \A m, n \in 1 .. N : m # n => ~Overlap(e.drafts[m], e.drafts[n])
  <2>1. \A m, n \in 1 .. N : m # n => m < n \/ n < m
    BY <1>1
  <2> QED
    BY <1>2, <1>6, <1>7, <2>1 DEF Overlap
<1>9. \A m \in 1 .. N : g[m] = e.last \/ \E n \in 1 .. N : f[n] = g[m] + 1
  <2>1. ASSUME NEW m \in 1 .. N
        PROVE  g[m] = e.last \/ \E n \in 1 .. N : f[n] = g[m] + 1
    <3>1. N # 0 /\ (m = N \/ m \in 1 .. N - 1)
      BY <1>1
    <3>2. m \in 1 .. N - 1 => m + 1 \in 1 .. N
      BY <1>1
    <3> QED
      BY <1>5, <3>1, <3>2
  <2> QED
    BY <2>1
<1>10. N # 0 => \E n \in 1 .. N : f[n] = e.first
  <2>1. N # 0 => 1 \in 1 .. N
    BY <1>1
  <2> QED
    BY <1>5, <2>1
<1>11. \A n \in 1 .. N : e.first <= f[n] /\ g[n] <= e.last
  BY <1>1, <1>3, <1>4
<1>12. 1 .. N # {} => N # 0
  BY <1>1
<1> HIDE DEF N
<1>13. \A n \in 1 .. N : e.first <= e.drafts[n].first /\ e.drafts[n].last <= e.last
  BY <1>2, <1>11
<1>14. N # 0 => \E n \in 1 .. N : e.drafts[n].first = e.first
  BY <1>2, <1>10
<1>15. \A m \in 1 .. N : e.drafts[m].last = e.last \/ \E n \in 1 .. N : e.drafts[n].first = e.drafts[m].last + 1
  BY <1>2, <1>9
<1> QED
  BY <1>1, <1>8, <1>12, <1>13, <1>14, <1>15 DEF Covers

(* Drafts that may be sent are sound.                                      *)
LEMMA SentSound ==
  ASSUME NEW e \in Editor, EditorSound(e), Submittable(e)
  PROVE  DraftsSound(e.drafts) /\ [first |-> e.first, last |-> e.last] \in Bounds
<1>1. /\ DOMAIN e.drafts = 1 .. Len(e.drafts) /\ e.first \in 1 .. LastDate /\ e.last \in 1 .. LastDate
      /\ e.first <= e.last
  BY EditorFacts, StructureAssumption DEF Submittable, Blank
<1>2. ASSUME NEW n \in DOMAIN e.drafts
      PROVE  e.drafts[n].first \in Dates /\ e.drafts[n].last \in e.drafts[n].first .. LastDate
  BY <1>1, StructureAssumption DEF Submittable, Dates
<1> QED
  BY <1>1, <1>2 DEF DraftsSound, EditorSound, Bounds, Dates

-----------------------------------------------------------------------------
(* What is known of a request, by the rows it holds.                       *)
LEMMA IdleTyped == RequestTyped(Idle)
<1>1. /\ Idle.kind = None /\ Idle.step = None /\ Idle.on = None /\ Idle.to = None
      /\ Idle.drafts = None /\ Idle.seen = {} /\ Idle.doomed = {}
  BY DEF Idle
<1>2. None \notin Kinds
  BY StructureAssumption
<1> QED
  BY <1>1, <1>2 DEF RequestTyped, Stands, Kinds

(* A step that leaves the rows alone keeps the invariant, if what is known *)
(* of the request that takes it holds of it afterwards.                    *)
LEMMA Unmoved ==
  ASSUME IInv, NEW a \in Administrators, NEW q, UNCHANGED rows,
         request' = [request EXCEPT ![a] = q], RequestTyped(q), sent' \in 0 .. MaxRequests,
         editor' \in [Administrators -> Editor \cup {None}],
         \A b \in Administrators : editor'[b] # None => EditorSound(editor'[b]),
         \A b \in Others(a) : Apart(a, b)' /\ Apart(b, a)',
         MeetsNone(a)', ReadStands(a)',
         \A b \in Others(a) :
           Is(b, "offer", {"held"}) /\ Is(a, "change", {"checked"})' /\ request[b].to \in LeftOut(a)'
             => request[b].to \in q.doomed
  PROVE  IInv'
<1>1. /\ school' = school /\ years' = years /\ terms' = terms /\ made' = made
      /\ exceptions' = exceptions /\ courses' = courses /\ offerings' = offerings
  BY DEF rows
<1>2. /\ DOMAIN request = Administrators /\ DOMAIN request' = Administrators /\ request'[a] = q
      /\ \A b \in Others(a) : request'[b] = request[b] /\ b \in Administrators /\ b # a
  BY DEF IInv, TypeOK, Others
<1>3. \A b \in Administrators : b # a => b \in Others(a)
  BY DEF Others
<1>4. TypeOK'
  <2>1. \A b \in Administrators : RequestTyped(request'[b])
    BY <1>2, <1>3 DEF IInv, TypeOK
  <2> QED
    BY <1>1, <1>2, <2>1 DEF IInv, TypeOK
<1>5. Planned'
  BY <1>1 DEF IInv, Planned, EveryDateInOneTerm
<1>6. ASSUME NEW b \in Administrators, NEW c \in Administrators, b # c
      PROVE  Apart(b, c)'
  <2>1. CASE b = a \/ c = a
    BY <1>3, <1>6, <2>1
  <2>2. CASE b # a /\ c # a
    <3>1. request'[b] = request[b] /\ request'[c] = request[c] /\ Apart(b, c)
      BY <1>2, <1>3, <1>6, <2>2 DEF IInv
    <3> QED
      BY <3>1 DEF Apart, HoldsYear, HoldsCourse, SchoolLockers, SchoolSharers, Is
  <2> QED
    BY <2>1, <2>2
<1>7. ASSUME NEW b \in Others(a)
      PROVE  MeetsNone(b)'
  <2>1. request'[b] = request[b] /\ MeetsNone(b) /\ b \in Administrators /\ b # a
    BY <1>2 DEF IInv
  <2>2. SetAgainstOthers(b)' =>
          \A y \in Years \ {request'[b].on} : years'[y] # None => ~Overlap(years'[y], request'[b].to)
    BY <1>1, <2>1 DEF MeetsNone, SetAgainstOthers, Is
  <2>3. ASSUME NEW c \in Others(b), SetAgainstOthers(b)', SetAgainstOthers(c)'
        PROVE  ~Overlap(request'[c].to, request'[b].to)
    <3>1. CASE c = a
      <4>1. b \in Others(a) /\ SetAgainstOthers(a)' /\ SetAgainstOthers(b)'
        BY <2>3, <3>1
      <4>2. ~Overlap(request'[b].to, request'[a].to)
        BY <4>1 DEF MeetsNone, Others
      <4> QED
        BY <3>1, <4>2 DEF Overlap
    <3>2. CASE c # a
      <4>1. request'[c] = request[c]
        BY <1>2, <1>3, <3>2 DEF Others
      <4> QED
        BY <2>1, <2>3, <4>1 DEF MeetsNone, SetAgainstOthers, Is
    <3> QED
      BY <3>1, <3>2
  <2> QED
    BY <2>2, <2>3 DEF MeetsNone, Others
<1>8. ASSUME NEW b \in Others(a)
      PROVE  ReadStands(b)'
  <2>1. request'[b] = request[b] /\ ReadStands(b) /\ b \in Administrators
    BY <1>2 DEF IInv
  <2>2. ChangeSound(request[b]) <=> ChangeSound(request[b])'
    BY <1>1, <2>1 DEF ChangeSound, Shown, TermsOf, ExceptionsOf, Division
  <2>3. ASSUME Is(b, "offer", {"held"}), NEW c \in Administrators, Is(c, "change", {"checked"})',
               request[b].to \in LeftOut(c)'
        PROVE  request[b].to \in request'[c].doomed
    <3>1. CASE c = a
      BY <1>2, <2>3, <3>1
    <3>2. CASE c # a
      <4>1. request'[c] = request[c]
        BY <1>2, <1>3, <3>2
      <4>2. Is(c, "change", {"checked"})
        BY <2>3, <4>1 DEF Is
      <4>3. LeftOut(c)' = LeftOut(c)
        BY <4>1, Zenon DEF LeftOut
      <4> QED
        BY <2>1, <2>3, <4>1, <4>2, <4>3 DEF ReadStands
    <3> QED
      BY <3>1, <3>2
  <2>4. (HoldsYear(b) <=> HoldsYear(b)') /\ (b \in SchoolLockers <=> b \in SchoolLockers')
        /\ (Is(b, "offer", {"held"}) <=> Is(b, "offer", {"held"})')
        /\ (Is(b, "offer", {"locked", "held"}) <=> Is(b, "offer", {"locked", "held"})')
    BY <2>1 DEF HoldsYear, SchoolLockers, Is
  <2>5. /\ request'[b].kind = "create" => years'[request'[b].on] = None
        /\ HoldsYear(b)' => years'[request'[b].on] # None
        /\ request'[b].drafts # None => DraftsSound(request'[b].drafts)
        /\ b \in SchoolLockers' => ~school'.fixed \/ school'.timezone = request'[b].to
        /\ Is(b, "offer", {"locked", "held"})' => request'[b].on \in courses'
        /\ Is(b, "offer", {"held"})' => terms'[request'[b].to] # None
    BY <1>1, <2>1, <2>4 DEF ReadStands
  <2>6. /\ HoldsYear(b)' /\ request'[b].kind = "change" => ChangeSound(request[b])'
        /\ HoldsYear(b)' /\ request'[b].kind = "delete" =>
             TermsIn(terms', request'[b].on) = {} /\ DatesIn(exceptions', request'[b].on) = {}
        /\ HoldsYear(b)' /\ request'[b].kind = "except" =>
             /\ Within(years'[request'[b].on], request'[b].to)
             /\ \A e \in DatesIn(exceptions', request'[b].on) : e.date # request'[b].to
    BY <1>1, <2>1, <2>2, <2>4 DEF ReadStands, TermsOf, ExceptionsOf
  <2> QED
    BY <2>1, <2>3, <2>4, <2>5, <2>6 DEF ReadStands, TermsOf, ExceptionsOf
<1> QED
  BY <1>3, <1>4, <1>5, <1>6, <1>7, <1>8 DEF IInv

(* So does one that only moves an editor.                                  *)
LEMMA EditorMoved ==
  ASSUME IInv, UNCHANGED <<rows, request, sent>>,
         editor' \in [Administrators -> Editor \cup {None}],
         \A b \in Administrators : editor'[b] # None => EditorSound(editor'[b])
  PROVE  IInv'
<1>1. /\ school' = school /\ years' = years /\ terms' = terms /\ made' = made
      /\ exceptions' = exceptions /\ courses' = courses /\ offerings' = offerings
      /\ request' = request /\ sent' = sent
  BY DEF rows
<1>2. TypeOK' /\ Planned'
  BY <1>1 DEF IInv, TypeOK, Planned, EveryDateInOneTerm
<1>3. \A a, b \in Administrators : a # b => Apart(a, b)'
  BY <1>1 DEF IInv, Apart, HoldsYear, HoldsCourse, SchoolLockers, SchoolSharers, Is
<1>4. \A a \in Administrators : MeetsNone(a)'
  BY <1>1 DEF IInv, MeetsNone, SetAgainstOthers, Is, Others
<1>5. ASSUME NEW a \in Administrators
      PROVE  ReadStands(a)'
  <2>1. ReadStands(a)
    BY DEF IInv
  <2>2. ChangeSound(request[a]) <=> ChangeSound(request[a])'
    BY <1>1 DEF ChangeSound, Shown, TermsOf, ExceptionsOf, Division
  <2>3. (HoldsYear(a)' <=> HoldsYear(a)) /\ (a \in SchoolLockers' <=> a \in SchoolLockers)
        /\ \A b \in Administrators : \A kind, steps : Is(b, kind, steps)' <=> Is(b, kind, steps)
    BY <1>1 DEF HoldsYear, SchoolLockers, Is
  <2>4. \A b \in Administrators : LeftOut(b)' = LeftOut(b)
    BY <1>1, Zenon DEF LeftOut
  <2>5. TermsOf(request[a].on)' = TermsOf(request[a].on) /\ ExceptionsOf(request[a].on)' = ExceptionsOf(request[a].on)
    BY <1>1, Zenon DEF TermsOf, ExceptionsOf
  <2> QED
    BY <1>1, <2>1, <2>2, <2>3, <2>4, <2>5 DEF ReadStands
<1> QED
  BY <1>2, <1>3, <1>4, <1>5 DEF IInv

(* A request that ends holds nothing.                                      *)
LEMMA RefusedKeeps ==
  ASSUME IInv, NEW a \in Administrators, NEW editing \in BOOLEAN, Refused(a, editing)
  PROVE  IInv'
<1>1. /\ request' = [request EXCEPT ![a] = Idle] /\ sent' = sent /\ UNCHANGED rows
      /\ editor' = [editor EXCEPT ![a] = IF editing THEN @ ELSE None]
  BY DEF Refused, Ends
<1>2. request'[a] = Idle
  BY <1>1 DEF IInv, TypeOK
<1>3. /\ request'[a].kind = None /\ request'[a].drafts = None /\ None \notin Kinds
  BY <1>2, StructureAssumption DEF Idle
<1>4. \A b \in Others(a) : Apart(a, b)' /\ Apart(b, a)'
  BY <1>3 DEF Apart, HoldsYear, HoldsCourse, SchoolLockers, SchoolSharers, Is, YearKinds, Kinds
<1>5. MeetsNone(a)' /\ ReadStands(a)' /\ ~Is(a, "change", {"checked"})'
  BY <1>3 DEF MeetsNone, ReadStands, SetAgainstOthers, HoldsYear, SchoolLockers, Is, YearKinds, Kinds
<1>6. /\ editor' \in [Administrators -> Editor \cup {None}]
      /\ \A b \in Administrators : editor'[b] # None => EditorSound(editor'[b])
  BY <1>1 DEF IInv, TypeOK
<1>7. sent' \in 0 .. MaxRequests
  BY <1>1 DEF IInv, TypeOK
<1> QED
  BY <1>1, <1>4, <1>5, <1>6, <1>7, IdleTyped, Unmoved

(* A request just sent holds nothing yet.                                  *)
LEMMA SentKeeps ==
  ASSUME IInv, NEW a \in Administrators, NEW q, RequestTyped(q), q.step = "asked",
         UNCHANGED <<rows, editor>>, request' = [request EXCEPT ![a] = q], sent' = sent + 1, sent < MaxRequests,
         q.kind = "create" => Unused(q.on),
         q.drafts # None => DraftsSound(q.drafts)
  PROVE  IInv'
<1>1. request'[a] = q /\ UNCHANGED rows /\ editor' = editor
      /\ \A b \in Others(a) : request'[b] = request[b] /\ b \in Administrators
  BY DEF IInv, TypeOK, Others
<1>2. q.step = "asked" /\ request'[a].step = "asked"
  BY <1>1
<1>3. ~HoldsYear(a)' /\ ~HoldsCourse(a)' /\ a \notin SchoolLockers' /\ a \notin SchoolSharers'
      /\ ~SetAgainstOthers(a)' /\ ~Is(a, "change", {"checked"})'
      /\ ~Is(a, "offer", {"held"})' /\ ~Is(a, "offer", {"locked", "held"})'
  BY <1>2 DEF HoldsYear, HoldsCourse, SchoolLockers, SchoolSharers, SetAgainstOthers, Is
<1>4. \A b \in Others(a) : q.kind = "create" /\ request[b].kind = "create" => request[b].on # q.on
  BY <1>1 DEF Unused
<1>5. \A b \in Others(a) : Apart(a, b)' /\ Apart(b, a)'
  BY <1>1, <1>3, <1>4 DEF Apart
<1>6. MeetsNone(a)'
  BY <1>3 DEF MeetsNone
<1>7. ReadStands(a)'
  BY <1>1, <1>3 DEF ReadStands, Unused, rows
<1>8. sent' \in 0 .. MaxRequests
  BY StructureAssumption DEF IInv, TypeOK
<1>9. /\ editor' \in [Administrators -> Editor \cup {None}]
      /\ \A b \in Administrators : editor'[b] # None => EditorSound(editor'[b])
  BY <1>1 DEF IInv, TypeOK
<1> QED
  BY <1>1, <1>3, <1>5, <1>6, <1>7, <1>8, <1>9, Unmoved

(* Whoever waits for nobody finds what its statement needs free.           *)
LEMMA NobodyAwaited ==
  ASSUME NEW a, WaitsFor(a) = {}, NEW b \in Others(a)
  PROVE  /\ request[a].kind \in YearKinds /\ request[a].step = "asked" => b \notin YearHolders(request[a].on)
         /\ request[a].step = "written" /\ Writing(b) => \A c \in Uncertain(b) : ~Overlap(c, request[a].to)
         /\ Is(a, "change", {"checked"}) /\ request[a].doomed # {} => b \notin TermHolders(NextDoomed(a))
         /\ Is(a, "timezone", {"asked"}) => b \notin SchoolSharers
         /\ \A kind \in {"offer", "uncourse"} : Is(a, kind, {"asked"}) => b \notin CourseHolders(request[a].on)
         /\ Is(a, "offer", {"locked"}) => b \notin TermDeleters(request[a].to)
         /\ RefersToSchool(a) => b \notin SchoolLockers
<1>1. b \notin WaitsFor(a)
  OBVIOUS
<1>2. \A kind \in YearKinds : Is(a, kind, {"asked"}) => b \notin YearHolders(request[a].on)
  BY <1>1 DEF WaitsFor
<1>3. request[a].kind \in YearKinds /\ request[a].step = "asked" => Is(a, request[a].kind, {"asked"})
  BY DEF Is
<1>4. /\ request[a].step = "written" /\ Writing(b) => \A c \in Uncertain(b) : ~Overlap(c, request[a].to)
      /\ Is(a, "change", {"checked"}) /\ request[a].doomed # {} => b \notin TermHolders(NextDoomed(a))
      /\ Is(a, "timezone", {"asked"}) => b \notin SchoolSharers
  BY <1>1 DEF WaitsFor
<1>5. /\ \A kind \in {"offer", "uncourse"} : Is(a, kind, {"asked"}) => b \notin CourseHolders(request[a].on)
      /\ Is(a, "offer", {"locked"}) => b \notin TermDeleters(request[a].to)
      /\ RefersToSchool(a) => b \notin SchoolLockers
  BY <1>1 DEF WaitsFor
<1> QED
  BY <1>2, <1>3, <1>4, <1>5

(* Only the step of a request that proceeds is another.                    *)
LEMMA Proceeding ==
  ASSUME IInv, NEW a \in Administrators, NEW s, Proceeds(a, s)
  PROVE  /\ request' = [request EXCEPT ![a] = [request[a] EXCEPT !.step = s]]
         /\ request'[a] = [request[a] EXCEPT !.step = s]
         /\ DOMAIN request'[a] = DOMAIN Idle /\ request'[a].step = s
         /\ request'[a].kind = request[a].kind /\ request'[a].on = request[a].on /\ request'[a].to = request[a].to
         /\ request'[a].drafts = request[a].drafts /\ request'[a].seen = request[a].seen
         /\ request'[a].doomed = request[a].doomed
         /\ \A b \in Others(a) : b \in Administrators /\ b # a /\ request'[b] = request[b]
<1>1. DOMAIN request = Administrators /\ DOMAIN request[a] = DOMAIN Idle
  BY DEF IInv, TypeOK, RequestTyped
<1>2. DOMAIN Idle = {"kind", "step", "on", "to", "drafts", "seen", "doomed"}
  BY DEF Idle
<1>3. request' = [request EXCEPT ![a] = [request[a] EXCEPT !.step = s]]
  BY DEF Proceeds
<1>4. request'[a] = [request[a] EXCEPT !.step = s]
  BY <1>1, <1>3
<1>5. \A b \in Others(a) : b \in Administrators /\ b # a /\ request'[b] = request[b]
  BY <1>1, <1>3 DEF Others
<1> QED
  BY <1>1, <1>2, <1>3, <1>4, <1>5

(* A request that only proceeds keeps the invariant where it stands soundly. *)
LEMMA ProceedsKeeps ==
  ASSUME IInv, NEW a \in Administrators, NEW s, Proceeds(a, s), UNCHANGED <<rows, sent, editor>>,
         RequestTyped(request'[a]),
         \A b \in Others(a) : Apart(a, b)' /\ Apart(b, a)',
         MeetsNone(a)', ReadStands(a)',
         \A b \in Others(a) :
           Is(b, "offer", {"held"}) /\ Is(a, "change", {"checked"})' /\ request[b].to \in LeftOut(a)'
             => request[b].to \in request[a].doomed
  PROVE  IInv'
<1> DEFINE q == [request[a] EXCEPT !.step = s]
<1>1. request' = [request EXCEPT ![a] = q] /\ request'[a] = q /\ request'[a].doomed = request[a].doomed
  BY Proceeding
<1>2. sent' \in 0 .. MaxRequests /\ editor' \in [Administrators -> Editor \cup {None}]
      /\ \A b \in Administrators : editor'[b] # None => EditorSound(editor'[b])
  BY DEF IInv, TypeOK
<1> HIDE DEF q
<1>3. UNCHANGED rows /\ RequestTyped(q) /\ q.doomed = request[a].doomed
  BY <1>1
<1> QED
  BY <1>1, <1>2, <1>3, Unmoved

-----------------------------------------------------------------------------
(* A year is inserted where no change of the timezone is under way.        *)
LEMMA InsertYearKeeps ==
  ASSUME IInv, NEW a \in Administrators, InsertYear(a)
  PROVE  IInv'
<1>1. /\ request[a].kind = "create" /\ request[a].step = "asked" /\ WaitsFor(a) = {}
      /\ Proceeds(a, "written") /\ UNCHANGED <<rows, sent, editor>>
  BY DEF InsertYear, Ready
<1>2. /\ DOMAIN request'[a] = DOMAIN Idle /\ request'[a].step = "written"
      /\ request'[a].kind = "create" /\ request'[a].on = request[a].on /\ request'[a].to = request[a].to
      /\ request'[a].drafts = request[a].drafts /\ request'[a].seen = request[a].seen
      /\ request'[a].doomed = request[a].doomed
      /\ \A b \in Others(a) : b \in Administrators /\ b # a /\ request'[b] = request[b]
  BY <1>1, Proceeding
<1>3. \A b \in Others(a) : b \notin SchoolLockers
  BY <1>1, NobodyAwaited DEF RefersToSchool, Is
<1>4. RequestTyped(request'[a])
  <2>1. RequestTyped(request[a])
    BY DEF IInv, TypeOK
  <2>2. None # "create"
    BY StructureAssumption DEF Kinds
  <2> QED
    BY <1>1, <1>2, <2>1, <2>2 DEF RequestTyped, Stands, Kinds
<1>5. \A b \in Others(a) : Apart(a, b)' /\ Apart(b, a)'
  BY <1>1, <1>2, <1>3 DEF IInv, Apart, HoldsYear, HoldsCourse, SchoolLockers, SchoolSharers, Is, YearKinds
<1>6. MeetsNone(a)' /\ ~Is(a, "change", {"checked"})'
  BY <1>2 DEF MeetsNone, SetAgainstOthers, Is
<1>7. ReadStands(a)'
  <2>1. ReadStands(a) /\ UNCHANGED years /\ request[a].drafts = None
    BY <1>1 DEF IInv, TypeOK, RequestTyped, rows
  <2> QED
    BY <1>1, <1>2, <2>1 DEF ReadStands, HoldsYear, SchoolLockers, Is, YearKinds
<1> QED
  BY <1>1, <1>4, <1>5, <1>6, <1>7, ProceedsKeeps

(* One whose timezone is fixed with it meets nothing it did not before.    *)
LEMMA FixTimezoneKeeps ==
  ASSUME IInv, NEW a \in Administrators, FixTimezone(a)
  PROVE  IInv'
<1> DEFINE s == IF school.fixed THEN "recorded" ELSE "fixed"
<1>1. /\ request[a].kind = "create" /\ request[a].step = "checked"
      /\ Proceeds(a, s) /\ UNCHANGED <<rows, sent, editor>>
  BY DEF FixTimezone, Ready
<1>2. s \in {"fixed", "recorded"}
  OBVIOUS
<1> HIDE DEF s
<1>3. /\ DOMAIN request'[a] = DOMAIN Idle /\ request'[a].step = s
      /\ request'[a].kind = "create" /\ request'[a].on = request[a].on /\ request'[a].to = request[a].to
      /\ request'[a].drafts = request[a].drafts /\ request'[a].seen = request[a].seen
      /\ request'[a].doomed = request[a].doomed
      /\ \A b \in Others(a) : b \in Administrators /\ b # a /\ request'[b] = request[b]
  BY <1>1, Proceeding
<1>4. RequestTyped(request'[a])
  <2>1. RequestTyped(request[a])
    BY DEF IInv, TypeOK
  <2>2. None # "create"
    BY StructureAssumption DEF Kinds
  <2> QED
    BY <1>1, <1>3, <1>2, <2>1, <2>2 DEF RequestTyped, Stands, Kinds
<1>5. \A b \in Others(a) : Apart(a, b)' /\ Apart(b, a)'
  BY <1>1, <1>3, <1>2 DEF IInv, Apart, HoldsYear, HoldsCourse, SchoolLockers, SchoolSharers, Is, YearKinds
<1>6. MeetsNone(a)' /\ ~Is(a, "change", {"checked"})'
  <2>1. MeetsNone(a) /\ SetAgainstOthers(a)
    BY <1>1 DEF IInv, SetAgainstOthers, Is
  <2>2. \A b \in Others(a) : SetAgainstOthers(b)' => SetAgainstOthers(b)
    BY <1>3 DEF SetAgainstOthers, Is
  <2>3. UNCHANGED years
    BY <1>1 DEF rows
  <2> QED
    BY <1>3, <2>1, <2>2, <2>3 DEF MeetsNone, Is, Others
<1>7. ReadStands(a)'
  <2>1. ReadStands(a) /\ UNCHANGED years /\ request[a].drafts = None
    BY <1>1 DEF IInv, TypeOK, RequestTyped, rows
  <2> QED
    BY <1>1, <1>3, <1>2, <2>1 DEF ReadStands, HoldsYear, SchoolLockers, Is, YearKinds
<1> QED
  BY <1>1, <1>4, <1>5, <1>6, <1>7, ProceedsKeeps

(* Bounds that meet no settled year's, and none anyone is writing, are set *)
(* against all there are.                                                  *)
LEMMA CheckYearSets ==
  ASSUME IInv, NEW a \in Administrators, request[a].kind \in {"create", "change"}, request[a].step = "written",
         WaitsFor(a) = {},
         \A y \in Years \ {request[a].on} :
           years[y] # None /\ (\A b \in Administrators : Writing(b) => request[b].on # y)
             => ~Overlap(years[y], request[a].to)
  PROVE  /\ \A y \in Years \ {request[a].on} : years[y] # None => ~Overlap(years[y], request[a].to)
         /\ \A b \in Others(a) : SetAgainstOthers(b) => ~Overlap(request[b].to, request[a].to)
<1>1. \A b \in Others(a) : b \in Administrators /\ b # a
  BY DEF Others
<1>2. \A b \in Others(a) : Writing(b) => \A c \in Uncertain(b) : ~Overlap(c, request[a].to)
  BY NobodyAwaited
<1>3. ASSUME NEW y \in Years \ {request[a].on}, years[y] # None
      PROVE  ~Overlap(years[y], request[a].to)
  <2>1. CASE \A b \in Administrators : Writing(b) => request[b].on # y
    BY <1>3, <2>1
  <2>2. CASE \E b \in Administrators : Writing(b) /\ request[b].on = y
    <3>1. PICK b \in Administrators : Writing(b) /\ request[b].on = y
      BY <2>2
    <3>2. b \in Others(a)
      BY <3>1 DEF Others
    <3>3. request[b].kind # "create"
      BY <1>3, <3>1 DEF IInv, ReadStands
    <3>4. years[y] \in Uncertain(b)
      BY <1>3, <3>1, <3>3 DEF Writing, Uncertain, Is
    <3> QED
      BY <1>2, <3>1, <3>2, <3>4
  <2> QED
    BY <2>1, <2>2
<1>4. ASSUME NEW b \in Others(a), SetAgainstOthers(b)
      PROVE  ~Overlap(request[b].to, request[a].to)
  <2>1. CASE Writing(b)
    <3>1. request[b].to \in Uncertain(b)
      BY <1>4 DEF SetAgainstOthers, Uncertain, Is
    <3> QED
      BY <1>2, <2>1, <3>1
  <2>2. CASE ~Writing(b)
    <3>1. request[b].kind = "change" /\ request[b].step = "checked" /\ request[b].to = years[request[b].on]
      BY <1>4, <2>2 DEF SetAgainstOthers, Writing, Is
    <3>2. HoldsYear(b) /\ years[request[b].on] # None
      BY <1>1, <3>1 DEF IInv, ReadStands, HoldsYear, YearKinds
    <3>3. request[b].on \in Years
      BY <1>1, <3>1 DEF IInv, TypeOK, RequestTyped, Stands
    <3>4. request[b].on # request[a].on
      <4>1. CASE request[a].kind = "create"
        BY <3>2, <4>1 DEF IInv, ReadStands
      <4>2. CASE request[a].kind = "change"
        BY <1>1, <3>2, <4>2 DEF IInv, Apart, HoldsYear, YearKinds
      <4> QED
        BY <4>1, <4>2
    <3> QED
      BY <1>3, <3>1, <3>2, <3>3, <3>4
  <2> QED
    BY <2>1, <2>2
<1> QED
  BY <1>3, <1>4

(* A check passed leaves the year set against the others.                  *)
LEMMA CheckYearKeeps ==
  ASSUME IInv, NEW a \in Administrators, CheckYear(a)
  PROVE  IInv'
<1> DEFINE settled == {y \in Years : years[y] # None /\ \A b \in Administrators : Writing(b) => request[b].on # y}
           meets == \E y \in settled \ {request[a].on} : Overlap(years[y], request[a].to)
<1>1. request[a].step = "written"
  BY DEF CheckYear
<1>2. request[a].kind \in {"create", "change"}
  <2>1. RequestTyped(request[a]) /\ "written" # None
    BY StructureAssumption DEF IInv, TypeOK, Steps
  <2> QED
    BY <1>1, <2>1 DEF RequestTyped, Stands, Kinds
<1>3. CASE meets /\ Refused(a, TRUE)
  BY <1>3, RefusedKeeps
<1>4. CASE WaitsFor(a) = {} /\ ~meets /\ Proceeds(a, "checked") /\ UNCHANGED <<rows, sent, editor>>
  <2>1. /\ DOMAIN request'[a] = DOMAIN Idle /\ request'[a].step = "checked"
        /\ request'[a].kind = request[a].kind /\ request'[a].on = request[a].on /\ request'[a].to = request[a].to
        /\ request'[a].drafts = request[a].drafts /\ request'[a].seen = request[a].seen
        /\ request'[a].doomed = request[a].doomed
        /\ \A b \in Others(a) : b \in Administrators /\ b # a /\ request'[b] = request[b]
    BY <1>4, Proceeding
  <2>2. /\ \A y \in Years \ {request[a].on} : years[y] # None => ~Overlap(years[y], request[a].to)
        /\ \A b \in Others(a) : SetAgainstOthers(b) => ~Overlap(request[b].to, request[a].to)
    <3>1. \A y \in Years \ {request[a].on} :
           years[y] # None /\ (\A b \in Administrators : Writing(b) => request[b].on # y)
             => ~Overlap(years[y], request[a].to)
      BY <1>4
    <3> HIDE DEF meets, settled
    <3> QED
      BY <1>1, <1>2, <1>4, <3>1, CheckYearSets
  <2> HIDE DEF meets, settled
  <2>3. RequestTyped(request'[a])
    <3>1. RequestTyped(request[a])
      BY DEF IInv, TypeOK
    <3>2. None # "create" /\ None # "change"
      BY StructureAssumption DEF Kinds
    <3> QED
      BY <1>1, <1>2, <2>1, <3>1, <3>2 DEF RequestTyped, Stands, Kinds
  <2>4. \A b \in Others(a) : Apart(a, b)' /\ Apart(b, a)'
    BY <1>1, <1>2, <2>1 DEF IInv, Apart, HoldsYear, HoldsCourse, SchoolLockers, SchoolSharers, Is, YearKinds
  <2>5. MeetsNone(a)'
    <3>1. \A b \in Others(a) : SetAgainstOthers(b)' => SetAgainstOthers(b)
      BY <2>1 DEF SetAgainstOthers, Is
    <3>2. UNCHANGED years
      BY <1>4 DEF rows
    <3> QED
      BY <2>1, <2>2, <3>1, <3>2 DEF MeetsNone, Others
  <2>6. UNCHANGED <<years, terms, exceptions>> /\ ReadStands(a)
    BY <1>4 DEF IInv, rows
  <2>7. ReadStands(a)'
    <3>1. request[a].kind = "change" => ChangeSound(request[a])'
      <4>1. request[a].kind = "change" => ChangeSound(request[a])
        BY <1>1, <2>6 DEF ReadStands, HoldsYear, YearKinds
      <4> QED
        BY <2>1, <2>6, <4>1 DEF ChangeSound, Shown, TermsOf, ExceptionsOf, Division
    <3> QED
      BY <1>1, <1>2, <2>1, <2>6, <3>1 DEF ReadStands, HoldsYear, SchoolLockers, Is, YearKinds
  <2>8. LeftOut(a)' \subseteq request[a].doomed \/ request[a].kind # "change"
    <3>1. CASE request[a].kind = "change" /\ request[a].drafts # None
      <4>1. ChangeSound(request[a])
        BY <1>1, <2>6, <3>1 DEF ReadStands, HoldsYear, YearKinds
      <4>2. {s.id : s \in request[a].seen} \subseteq TermsOf(request[a].on)
        BY <4>1 DEF ChangeSound, Shown
      <4>3. LeftOut(a)' = {s.id : s \in request[a].seen} \ {request[a].drafts[n].id : n \in DOMAIN request[a].drafts}
        BY <2>1, <3>1 DEF LeftOut
      <4>4. request[a].doomed = TermsOf(request[a].on) \ {request[a].drafts[n].id : n \in DOMAIN request[a].drafts}
        BY <1>1, <3>1, <4>1 DEF ChangeSound
      <4> QED
        BY <4>2, <4>3, <4>4
    <3>2. CASE request[a].drafts = None
      BY <2>1, <3>2 DEF LeftOut
    <3> QED
      BY <3>1, <3>2
  <2>9. \A b \in Others(a) :
          Is(a, "change", {"checked"})' /\ request[b].to \in LeftOut(a)' => request[b].to \in request[a].doomed
    BY <2>1, <2>8 DEF Is
  <2> QED
    BY <1>4, <2>3, <2>4, <2>5, <2>7, <2>9, ProceedsKeeps
<1> QED
  BY <1>3, <1>4 DEF CheckYear

(* A year locked to be changed is read as it stands.                       *)
LEMMA LockYearKeeps ==
  ASSUME IInv, NEW a \in Administrators, LockYear(a)
  PROVE  IInv'
<1> DEFINE y == request[a].on
           drafts == request[a].drafts
           named == {drafts[n].id : n \in DOMAIN drafts}
           own == drafts # None => named \subseteq TermsOf(y) \cup {None}
           fits == /\ Covers(request[a].to, IF drafts = None THEN Division(y) ELSE drafts)
                   /\ \A e \in ExceptionsOf(y) : Within(request[a].to, e.date)
           step == IF request[a].to = years[y] THEN "checked" ELSE "written"
           seen == {Shown(i) : i \in TermsOf(y)}
           doomed == IF drafts = None THEN {} ELSE TermsOf(y) \ named
           q == [request[a] EXCEPT !.step = step, !.seen = seen, !.doomed = doomed]
<1>1. request[a].kind = "change" /\ request[a].step = "asked" /\ WaitsFor(a) = {}
  BY DEF LockYear, Ready
<1>2. RequestTyped(request[a]) /\ y \in Years /\ request[a].to \in Bounds /\ DOMAIN request = Administrators
  BY <1>1 DEF IInv, TypeOK, RequestTyped, Stands
<1>3. CASE Refused(a, FALSE) \/ Refused(a, TRUE)
  BY <1>3, RefusedKeeps
<1>4. CASE /\ years[y] # None /\ own /\ fits
           /\ request' = [request EXCEPT ![a].step = IF request[a].to = years[y] THEN "checked" ELSE "written",
                                         ![a].seen = {Shown(i) : i \in TermsOf(y)},
                                         ![a].doomed = IF drafts = None THEN {} ELSE TermsOf(y) \ named]
           /\ UNCHANGED <<rows, sent, editor>>
  <2>1. /\ q.kind = "change" /\ q.step = step /\ q.on = y /\ q.to = request[a].to /\ q.drafts = drafts
        /\ q.seen = seen /\ q.doomed = doomed /\ DOMAIN q = DOMAIN Idle
    <3>1. DOMAIN request[a] = {"kind", "step", "on", "to", "drafts", "seen", "doomed"}
      BY <1>2 DEF RequestTyped, Idle
    <3> QED
      BY <1>1, <1>2, <3>1 DEF RequestTyped
  <2>2. request' = [request EXCEPT ![a] = q]
    <3>1. request' = [request EXCEPT ![a].step = step, ![a].seen = seen, ![a].doomed = doomed]
      BY <1>4
    <3> HIDE DEF step, seen, doomed
    <3> QED
      BY <1>2, <3>1
  <2>3. /\ request'[a] = q /\ \A b \in Others(a) : b \in Administrators /\ b # a /\ request'[b] = request[b]
    BY <1>2, <2>2 DEF Others
  <2>4. years[y] # None /\ own /\ fits /\ UNCHANGED <<rows, sent, editor>>
    BY <1>4
  <2>5. years[y] \in Bounds /\ TermsOf(y) \subseteq TermIds /\ seen \subseteq Draft
    <3>1. /\ TermsOf(y) \subseteq TermIds /\ years[y] \in Bounds
          /\ \A i \in TermsOf(y) : terms[i] \in Term
      BY <1>2, <2>4, TermFacts DEF IInv, Planned
    <3>2. \A i \in TermsOf(y) : Shown(i) \in Draft
      BY <3>1, StructureAssumption DEF Shown, Draft, Term, Dates
    <3> QED
      BY <3>1, <3>2
  <2>6. step \in {"written", "checked"} /\ doomed \subseteq TermIds
    BY <2>5
  <2>7. step = "checked" => request[a].to = years[y]
    OBVIOUS
  <2>8. drafts # None => drafts \in Seq(Draft) /\ DraftsSound(drafts)
    BY <1>2 DEF IInv, ReadStands, RequestTyped
  <2>9. /\ drafts # None => doomed = TermsOf(y) \ named
        /\ drafts # None => named \subseteq TermsOf(y) \cup {None}
    BY <2>4
  <2>10. Covers(q.to, IF q.drafts = None THEN Division(y) ELSE q.drafts)
         /\ \A e \in ExceptionsOf(y) : Within(q.to, e.date)
    BY <2>1, <2>4
  <2>11. LET ids == {q.drafts[n].id : n \in DOMAIN q.drafts}
         IN q.drafts # None => q.doomed = TermsOf(y) \ ids /\ ids \subseteq TermsOf(y) \cup {None}
    BY <2>1, <2>9
  <2>12. q.seen = {Shown(i) : i \in TermsOf(y)}
    BY <2>1
  <2> HIDE DEF q, step, seen, doomed, own, fits, named
  <2>13. RequestTyped(q)
    <3>1. q.drafts # None => q.drafts \in Seq(Draft)
      BY <2>1, <2>8
    <3>2. None # "change"
      BY StructureAssumption DEF Kinds
    <3> QED
      BY <1>2, <2>1, <2>5, <2>6, <3>1, <3>2 DEF RequestTyped, Stands, Kinds
  <2>14. \A b \in Others(a) : b \notin YearHolders(y)
    BY <1>1, NobodyAwaited DEF YearKinds
  <2>15. ASSUME NEW b \in Others(a)
         PROVE  Apart(a, b)' /\ Apart(b, a)'
    <3>1. request'[b] = request[b] /\ (HoldsYear(b) => request[b].on # y)
      BY <2>3, <2>14 DEF YearHolders, HoldsYear
    <3>2. request'[a].kind = "change" /\ request'[a].on = y
      BY <2>1, <2>3
    <3>3. ~HoldsCourse(a)' /\ a \notin SchoolLockers' /\ a \notin SchoolSharers'
      BY <3>2 DEF HoldsCourse, SchoolLockers, SchoolSharers, Is
    <3>4. HoldsYear(b)' <=> HoldsYear(b)
      BY <3>1 DEF HoldsYear
    <3> QED
      BY <3>1, <3>2, <3>3, <3>4 DEF Apart
  <2>16. MeetsNone(a)'
    <3>1. UNCHANGED years
      BY <2>4 DEF rows
    <3>2. ASSUME SetAgainstOthers(a)'
          PROVE  /\ \A z \in Years \ {y} : years[z] # None => ~Overlap(years[z], years[y])
                 /\ \A b \in Others(a) : SetAgainstOthers(b) => ~Overlap(request[b].to, years[y])
                 /\ q.to = years[y]
      <4>1. q.step = "checked" /\ q.to = years[y]
        BY <2>1, <2>3, <2>7, <3>2 DEF SetAgainstOthers, Is
      <4>2. \A z \in Years \ {y} : years[z] # None => ~Overlap(years[z], years[y])
        BY <1>2, <2>4 DEF IInv, Planned, EveryDateInOneTerm, SoundPlan
      <4>3. ASSUME NEW b \in Others(a), SetAgainstOthers(b)
            PROVE  ~Overlap(request[b].to, years[y])
        <5>1. MeetsNone(b) /\ ReadStands(b)
          BY <2>3 DEF IInv
        <5>2. request[b].on # y
          <6>1. request[b].kind = "create" \/ HoldsYear(b)
            BY <4>3 DEF SetAgainstOthers, HoldsYear, Is, YearKinds
          <6> QED
            BY <2>4, <2>14, <2>3, <5>1, <6>1 DEF ReadStands, YearHolders, HoldsYear
        <5>3. ~Overlap(years[y], request[b].to)
          BY <1>2, <2>4, <4>3, <5>1, <5>2 DEF MeetsNone
        <5> QED
          BY <5>3 DEF Overlap
      <4> QED
        BY <4>1, <4>2, <4>3
    <3>3. \A b \in Others(a) : SetAgainstOthers(b)' => SetAgainstOthers(b)
      BY <2>3 DEF SetAgainstOthers, Is
    <3> QED
      BY <2>1, <2>3, <3>1, <3>2, <3>3 DEF MeetsNone, Others
  <2>17. UNCHANGED <<years, terms, exceptions>>
    BY <2>4 DEF rows
  <2>18. ReadStands(a)'
    <3>1. ChangeSound(q)
      BY <2>1, <2>10, <2>11, <2>12 DEF ChangeSound
    <3>2. ChangeSound(request[a])'
      BY <2>1, <2>3, <2>17, <3>1 DEF ChangeSound, Shown, TermsOf, ExceptionsOf, Division
    <3>3. request'[a].kind = "change" /\ request'[a].on = y
          /\ (request'[a].drafts # None => DraftsSound(request'[a].drafts))
      BY <2>1, <2>3, <2>8
    <3> QED
      BY <2>4, <2>17, <3>2, <3>3 DEF ReadStands, HoldsYear, SchoolLockers, Is, YearKinds
  <2>19. LeftOut(a)' \subseteq q.doomed
    <3>1. {s.id : s \in q.seen} \subseteq TermsOf(y)
      BY <2>12 DEF Shown
    <3> QED
      BY <2>1, <2>3, <2>11, <3>1 DEF LeftOut
  <2>20. sent' \in 0 .. MaxRequests /\ editor' \in [Administrators -> Editor \cup {None}]
         /\ \A b \in Administrators : editor'[b] # None => EditorSound(editor'[b])
    BY <2>4 DEF IInv, TypeOK
  <2>21. UNCHANGED rows
    BY <2>4
  <2> QED
    BY <2>2, <2>13, <2>15, <2>16, <2>18, <2>19, <2>20, <2>21, Unmoved
<1> QED
  BY <1>3, <1>4 DEF LockYear

(* A Term deleted is held by no offering under way.                        *)
LEMMA DeleteTermKeeps ==
  ASSUME IInv, NEW a \in Administrators, DeleteTerm(a)
  PROVE  IInv'
<1> DEFINE i == NextDoomed(a)
           doomed == request[a].doomed \ {i}
           q == [request[a] EXCEPT !.doomed = doomed]
<1>1. request[a].kind = "change" /\ request[a].step = "checked" /\ WaitsFor(a) = {} /\ request[a].doomed # {}
  BY DEF DeleteTerm, Ready
<1>2. RequestTyped(request[a]) /\ DOMAIN request = Administrators
  BY <1>1 DEF IInv, TypeOK
<1>3. CASE Refused(a, TRUE)
  BY <1>3, RefusedKeeps
<1>4. CASE request' = [request EXCEPT ![a].doomed = @ \ {i}] /\ UNCHANGED <<rows, sent, editor>>
  <2>1. /\ q.kind = "change" /\ q.step = "checked" /\ q.on = request[a].on /\ q.to = request[a].to
        /\ q.drafts = request[a].drafts /\ q.seen = request[a].seen /\ q.doomed = doomed /\ DOMAIN q = DOMAIN Idle
    <3>1. DOMAIN request[a] = {"kind", "step", "on", "to", "drafts", "seen", "doomed"}
      BY <1>2 DEF RequestTyped, Idle
    <3> QED
      BY <1>1, <1>2, <3>1 DEF RequestTyped
  <2>2. request' = [request EXCEPT ![a] = q]
    <3>1. request' = [request EXCEPT ![a].doomed = doomed]
      BY <1>2, <1>4
    <3> HIDE DEF doomed
    <3> QED
      BY <1>2, <3>1
  <2> HIDE DEF q
  <2>3. request'[a] = q /\ \A b \in Others(a) : b \in Administrators /\ b # a /\ request'[b] = request[b]
    BY <1>2, <2>2 DEF Others
  <2>4. RequestTyped(q)
    BY <1>1, <1>2, <2>1 DEF RequestTyped, Stands
  <2>5. \A b \in Others(a) : Apart(a, b)' /\ Apart(b, a)'
    BY <1>1, <2>1, <2>3 DEF IInv, Apart, HoldsYear, HoldsCourse, SchoolLockers, SchoolSharers, Is
  <2>6. UNCHANGED <<years, terms, exceptions>> /\ MeetsNone(a) /\ ReadStands(a) /\ SetAgainstOthers(a) /\ HoldsYear(a)
    BY <1>1, <1>4 DEF IInv, rows, SetAgainstOthers, HoldsYear, Is, YearKinds
  <2>7. MeetsNone(a)'
    <3>1. \A b \in Others(a) : SetAgainstOthers(b)' => SetAgainstOthers(b)
      BY <2>3 DEF SetAgainstOthers, Is
    <3> QED
      BY <2>1, <2>3, <2>6, <3>1 DEF MeetsNone, Others
  <2>8. ReadStands(a)'
    <3>1. ChangeSound(request[a])
      BY <1>1, <2>6 DEF ReadStands
    <3>2. ChangeSound(request[a])'
      BY <2>1, <2>3, <2>6, <3>1 DEF ChangeSound, Shown, TermsOf, ExceptionsOf, Division
    <3> QED
      BY <1>1, <2>1, <2>3, <2>6, <3>2 DEF ReadStands, HoldsYear, SchoolLockers, Is, YearKinds
  <2>9. ASSUME NEW b \in Others(a), Is(b, "offer", {"held"}), request[b].to \in LeftOut(a)'
        PROVE  request[b].to \in q.doomed
    <3>1. LeftOut(a)' = LeftOut(a)
      <4>1. request'[a].drafts = request[a].drafts /\ request'[a].seen = request[a].seen
        BY <2>1, <2>3
      <4> QED
        BY <4>1, Zenon DEF LeftOut
    <3>2. request[b].to \in request[a].doomed
      BY <1>1, <2>3, <2>9, <3>1 DEF IInv, ReadStands, Is
    <3>3. b \notin TermHolders(i)
      BY <1>1, NobodyAwaited DEF Is
    <3> QED
      BY <2>1, <2>3, <2>9, <3>2, <3>3 DEF TermHolders
  <2>10. sent' \in 0 .. MaxRequests /\ editor' \in [Administrators -> Editor \cup {None}]
         /\ \A b \in Administrators : editor'[b] # None => EditorSound(editor'[b])
    BY <1>4 DEF IInv, TypeOK
  <2>11. UNCHANGED rows
    BY <1>4
  <2> QED
    BY <2>2, <2>4, <2>5, <2>7, <2>8, <2>9, <2>10, <2>11, Unmoved
<1> QED
  BY <1>3, <1>4 DEF DeleteTerm

(* A year's row locked for a kind of request that leaves its bounds alone. *)
LEMMA LockedKeeps ==
  ASSUME IInv, NEW a \in Administrators, WaitsFor(a) = {}, request[a].step = "asked",
         request[a].kind \in {"delete", "except", "restore"}, years[request[a].on] # None,
         request[a].kind = "delete" => TermsOf(request[a].on) = {} /\ ExceptionsOf(request[a].on) = {},
         request[a].kind = "except" =>
           /\ Within(years[request[a].on], request[a].to)
           /\ \A e \in ExceptionsOf(request[a].on) : e.date # request[a].to,
         Proceeds(a, "checked"), UNCHANGED <<rows, sent, editor>>
  PROVE  IInv'
<1>1. /\ DOMAIN request'[a] = DOMAIN Idle /\ request'[a].step = "checked"
      /\ request'[a].kind = request[a].kind /\ request'[a].on = request[a].on /\ request'[a].to = request[a].to
      /\ request'[a].drafts = request[a].drafts /\ request'[a].seen = request[a].seen
      /\ request'[a].doomed = request[a].doomed
      /\ \A b \in Others(a) : b \in Administrators /\ b # a /\ request'[b] = request[b]
  BY Proceeding
<1>2. RequestTyped(request[a]) /\ request[a].drafts = None
  BY DEF IInv, TypeOK, RequestTyped
<1>3. RequestTyped(request'[a])
  <2>1. None # "delete" /\ None # "except" /\ None # "restore"
    BY StructureAssumption DEF Kinds
  <2> QED
    BY <1>1, <1>2, <2>1 DEF RequestTyped, Stands
<1>4. \A b \in Others(a) : b \notin YearHolders(request[a].on)
  BY NobodyAwaited DEF YearKinds
<1>5. \A b \in Others(a) : Apart(a, b)' /\ Apart(b, a)'
  BY <1>1, <1>4 DEF Apart, YearHolders, HoldsYear, HoldsCourse, SchoolLockers, SchoolSharers, Is
<1>6. MeetsNone(a)' /\ ~Is(a, "change", {"checked"})'
  BY <1>1 DEF MeetsNone, SetAgainstOthers, Is
<1>7. UNCHANGED <<years, terms, exceptions>>
  BY DEF rows
<1>8. ReadStands(a)'
  <2>1. request'[a].kind # "create" /\ request'[a].kind # "change" /\ request'[a].drafts = None
        /\ a \notin SchoolLockers' /\ ~Is(a, "offer", {"locked", "held"})' /\ ~Is(a, "offer", {"held"})'
    BY <1>1, <1>2 DEF SchoolLockers, Is
  <2>2. HoldsYear(a)' => years'[request'[a].on] # None
    BY <1>1, <1>7
  <2>3. request'[a].kind = "delete" => TermsOf(request[a].on)' = {} /\ ExceptionsOf(request[a].on)' = {}
    BY <1>1, <1>7 DEF TermsOf, ExceptionsOf
  <2>4. request'[a].kind = "except" =>
          /\ Within(years'[request'[a].on], request'[a].to)
          /\ \A e \in ExceptionsOf(request[a].on)' : e.date # request'[a].to
    BY <1>1, <1>7 DEF ExceptionsOf
  <2> QED
    BY <2>1, <2>2, <2>3, <2>4 DEF ReadStands
<1> QED
  BY <1>3, <1>5, <1>6, <1>8, ProceedsKeeps

(* So is one to be deleted, which has neither Terms nor exceptions,       *)
LEMMA LockToDeleteKeeps ==
  ASSUME IInv, NEW a \in Administrators, LockToDelete(a)
  PROVE  IInv'
<1>1. request[a].kind = "delete" /\ request[a].step = "asked" /\ WaitsFor(a) = {}
  BY DEF LockToDelete, Ready
<1>2. CASE Refused(a, FALSE)
  BY <1>2, RefusedKeeps
<1>3. CASE /\ years[request[a].on] # None /\ TermsOf(request[a].on) = {} /\ ExceptionsOf(request[a].on) = {}
           /\ Proceeds(a, "checked") /\ UNCHANGED <<rows, sent, editor>>
  BY <1>1, <1>3, LockedKeeps
<1> QED
  BY <1>2, <1>3 DEF LockToDelete

(* and one a date is to be put into or taken out of.                       *)
LEMMA LockToExceptKeeps ==
  ASSUME IInv, NEW a \in Administrators, LockToExcept(a)
  PROVE  IInv'
<1> DEFINE taken == \E e \in ExceptionsOf(request[a].on) : e.date = request[a].to
<1>1. request[a].kind \in {"except", "restore"} /\ request[a].step = "asked" /\ WaitsFor(a) = {}
  BY DEF LockToExcept, Ready
<1>2. CASE Refused(a, FALSE)
  BY <1>2, RefusedKeeps
<1>3. CASE /\ IF request[a].kind = "except"
                THEN years[request[a].on] # None /\ Within(years[request[a].on], request[a].to) /\ ~taken
                ELSE years[request[a].on] # None /\ taken
           /\ Proceeds(a, "checked") /\ UNCHANGED <<rows, sent, editor>>
  <2>1. years[request[a].on] # None
    BY <1>3
  <2>2. request[a].kind = "except" =>
          /\ Within(years[request[a].on], request[a].to)
          /\ \A e \in ExceptionsOf(request[a].on) : e.date # request[a].to
    BY <1>3
  <2>3. request[a].kind \in {"delete", "except", "restore"} /\ request[a].kind # "delete"
    BY <1>1
  <2> QED
    BY <1>1, <1>3, <2>1, <2>2, <2>3, LockedKeeps
<1> QED
  BY <1>2, <1>3 DEF LockToExcept

(* A School is locked whole where no other is, and no year just inserted.  *)
LEMMA LockSchoolKeeps ==
  ASSUME IInv, NEW a \in Administrators, LockSchool(a)
  PROVE  IInv'
<1>1. request[a].kind = "timezone" /\ request[a].step = "asked" /\ WaitsFor(a) = {}
  BY DEF LockSchool, Ready
<1>2. CASE Refused(a, FALSE)
  BY <1>2, RefusedKeeps
<1>3. CASE /\ school.fixed => school.timezone = request[a].to
           /\ Proceeds(a, "locked") /\ UNCHANGED <<rows, sent, editor>>
  <2>1. /\ DOMAIN request'[a] = DOMAIN Idle /\ request'[a].step = "locked"
        /\ request'[a].kind = "timezone" /\ request'[a].on = request[a].on /\ request'[a].to = request[a].to
        /\ request'[a].drafts = request[a].drafts /\ request'[a].seen = request[a].seen
        /\ request'[a].doomed = request[a].doomed
        /\ \A b \in Others(a) : b \in Administrators /\ b # a /\ request'[b] = request[b]
    BY <1>1, <1>3, Proceeding
  <2>2. RequestTyped(request[a]) /\ request[a].drafts = None
    BY <1>1 DEF IInv, TypeOK, RequestTyped
  <2>3. RequestTyped(request'[a])
    <3>1. None # "timezone"
      BY StructureAssumption DEF Kinds
    <3> QED
      BY <1>1, <2>1, <2>2, <3>1 DEF RequestTyped, Stands
  <2>4. \A b \in Others(a) : b \notin SchoolLockers /\ b \notin SchoolSharers
    BY <1>1, NobodyAwaited DEF RefersToSchool, Is
  <2>5. \A b \in Others(a) : Apart(a, b)' /\ Apart(b, a)'
    BY <2>1, <2>4 DEF Apart, HoldsYear, HoldsCourse, SchoolLockers, SchoolSharers, Is, YearKinds
  <2>6. MeetsNone(a)' /\ ~Is(a, "change", {"checked"})'
    BY <2>1 DEF MeetsNone, SetAgainstOthers, Is
  <2>7. school' = school
    BY <1>3 DEF rows
  <2>8. ReadStands(a)'
    BY <1>3, <2>1, <2>2, <2>7 DEF ReadStands, HoldsYear, Is, YearKinds
  <2> QED
    BY <1>3, <2>3, <2>5, <2>6, <2>8, ProceedsKeeps
<1> QED
  BY <1>2, <1>3 DEF LockSchool

(* A Course or an offering is locked where it still is.                    *)
LEMMA LockRecordKeeps ==
  ASSUME IInv, NEW a \in Administrators, LockRecord(a)
  PROVE  IInv'
<1> DEFINE there == IF request[a].kind = "unoffer" THEN request[a].on \in offerings ELSE request[a].on \in courses
<1>1. request[a].kind \in {"offer", "uncourse", "unoffer"} /\ request[a].step = "asked" /\ WaitsFor(a) = {}
  BY DEF LockRecord, Ready
<1>2. CASE Refused(a, FALSE)
  BY <1>2, RefusedKeeps
<1>3. CASE there /\ Proceeds(a, "locked") /\ UNCHANGED <<rows, sent, editor>>
  <2>1. /\ DOMAIN request'[a] = DOMAIN Idle /\ request'[a].step = "locked"
        /\ request'[a].kind = request[a].kind /\ request'[a].on = request[a].on /\ request'[a].to = request[a].to
        /\ request'[a].drafts = request[a].drafts /\ request'[a].seen = request[a].seen
        /\ request'[a].doomed = request[a].doomed
        /\ \A b \in Others(a) : b \in Administrators /\ b # a /\ request'[b] = request[b]
    BY <1>1, <1>3, Proceeding
  <2>2. RequestTyped(request[a]) /\ request[a].drafts = None
    BY <1>1 DEF IInv, TypeOK, RequestTyped
  <2>3. RequestTyped(request'[a])
    <3>1. None # "offer" /\ None # "uncourse" /\ None # "unoffer"
      BY StructureAssumption DEF Kinds
    <3> QED
      BY <1>1, <2>1, <2>2, <3>1 DEF RequestTyped, Stands
  <2>4. \A b \in Others(a) : request[a].kind # "unoffer" => b \notin CourseHolders(request[a].on)
    BY <1>1, NobodyAwaited DEF Is
  <2>5. \A b \in Others(a) : Apart(a, b)' /\ Apart(b, a)'
    BY <1>1, <2>1, <2>4 DEF Apart, CourseHolders, HoldsYear, HoldsCourse, SchoolLockers, SchoolSharers, Is, YearKinds
  <2>6. MeetsNone(a)' /\ ~Is(a, "change", {"checked"})'
    BY <1>1, <2>1 DEF MeetsNone, SetAgainstOthers, Is
  <2>7. courses' = courses
    BY <1>3 DEF rows
  <2>8. ReadStands(a)'
    BY <1>1, <1>3, <2>1, <2>2, <2>7 DEF ReadStands, HoldsYear, SchoolLockers, Is, YearKinds
  <2> QED
    BY <1>3, <2>3, <2>5, <2>6, <2>8, ProceedsKeeps
<1> QED
  BY <1>2, <1>3 DEF LockRecord

(* A Term is held where it still is, and nobody is about to delete it.     *)
LEMMA HoldTermKeeps ==
  ASSUME IInv, NEW a \in Administrators, HoldTerm(a)
  PROVE  IInv'
<1>1. request[a].kind = "offer" /\ request[a].step = "locked" /\ WaitsFor(a) = {}
  BY DEF HoldTerm, Ready
<1>2. CASE Refused(a, FALSE)
  BY <1>2, RefusedKeeps
<1>3. CASE terms[request[a].to] # None /\ Proceeds(a, "held") /\ UNCHANGED <<rows, sent, editor>>
  <2>1. /\ DOMAIN request'[a] = DOMAIN Idle /\ request'[a].step = "held"
        /\ request'[a].kind = "offer" /\ request'[a].on = request[a].on /\ request'[a].to = request[a].to
        /\ request'[a].drafts = request[a].drafts /\ request'[a].seen = request[a].seen
        /\ request'[a].doomed = request[a].doomed
        /\ \A b \in Others(a) : b \in Administrators /\ b # a /\ request'[b] = request[b]
    BY <1>1, <1>3, Proceeding
  <2>2. RequestTyped(request[a]) /\ request[a].drafts = None /\ ReadStands(a)
    BY <1>1 DEF IInv, TypeOK, RequestTyped
  <2>3. RequestTyped(request'[a])
    <3>1. None # "offer"
      BY StructureAssumption DEF Kinds
    <3> QED
      BY <1>1, <2>1, <2>2, <3>1 DEF RequestTyped, Stands
  <2>4. \A b \in Others(a) : b \notin TermDeleters(request[a].to)
    BY <1>1, NobodyAwaited DEF Is
  <2>5. \A b \in Others(a) : Apart(a, b)' /\ Apart(b, a)'
    BY <1>1, <2>1 DEF IInv, Apart, HoldsYear, HoldsCourse, SchoolLockers, SchoolSharers, Is, YearKinds
  <2>6. MeetsNone(a)' /\ ~Is(a, "change", {"checked"})'
    BY <2>1 DEF MeetsNone, SetAgainstOthers, Is
  <2>7. UNCHANGED <<courses, terms>>
    BY <1>3 DEF rows
  <2>8. ASSUME NEW b \in Administrators, Is(b, "change", {"checked"})', request[a].to \in LeftOut(b)'
        PROVE  request[a].to \in request'[b].doomed
    <3>1. b \in Others(a)
      BY <2>1, <2>8 DEF Is, Others
    <3>2. request'[b] = request[b] /\ Is(b, "change", {"checked"}) /\ request[a].to \in LeftOut(b)
      BY <2>1, <2>8, <3>1 DEF Is, LeftOut
    <3> QED
      BY <2>1, <2>4, <3>1, <3>2 DEF TermDeleters
  <2>9. request'[a].on \in courses'
    BY <1>1, <2>1, <2>2, <2>7 DEF ReadStands, Is
  <2>10. ReadStands(a)'
    BY <1>3, <2>1, <2>2, <2>7, <2>8, <2>9 DEF ReadStands, HoldsYear, SchoolLockers, Is, YearKinds
  <2> QED
    BY <1>3, <2>3, <2>5, <2>6, <2>10, ProceedsKeeps
<1> QED
  BY <1>2, <1>3 DEF HoldTerm

(* A request is sent as one of its kind, and a create for an unused year.  *)
LEMMA SendKeeps ==
  ASSUME IInv, NEW a \in Administrators, NEW kind, NEW on, NEW to, Send(a, kind, on, to),
         LET q == [Idle EXCEPT !.kind = kind, !.step = "asked", !.on = on, !.to = to] IN
         /\ kind \in Kinds
         /\ Stands(q, "create", {"asked", "written", "checked", "fixed", "recorded"}, Years, Bounds)
         /\ Stands(q, "change", {"asked", "written", "checked"}, Years, Bounds)
         /\ Stands(q, "delete", {"asked", "checked"}, Years, {None})
         /\ Stands(q, "except", {"asked", "checked"}, Years, Dates)
         /\ Stands(q, "restore", {"asked", "checked"}, Years, Dates)
         /\ Stands(q, "timezone", {"asked", "locked"}, {None}, Timezones)
         /\ Stands(q, "course", {"asked"}, Courses, {None})
         /\ Stands(q, "uncourse", {"asked", "locked"}, Courses, {None})
         /\ Stands(q, "offer", {"asked", "locked", "held"}, Courses, TermIds)
         /\ Stands(q, "unoffer", {"asked", "locked"}, [course : Courses, term : TermIds], {None}),
         kind = "create" => Unused(on)
  PROVE  IInv'
<1> DEFINE q == [Idle EXCEPT !.kind = kind, !.step = "asked", !.on = on, !.to = to]
<1>1. RequestTyped(q) /\ q.step = "asked" /\ q.kind = kind /\ q.on = on /\ q.drafts = None
  <2>1. /\ q.kind = kind /\ q.step = "asked" /\ q.on = on /\ q.to = to
        /\ q.drafts = None /\ q.seen = {} /\ q.doomed = {} /\ DOMAIN q = DOMAIN Idle
    BY DEF Idle
  <2>2. kind # None
    BY StructureAssumption DEF Kinds
  <2> HIDE DEF q
  <2>3. Stands(q, None, {None}, {None}, {None})
    BY <2>1, <2>2 DEF Stands
  <2> QED
    BY <2>1, <2>3 DEF RequestTyped, q
<1>2. /\ UNCHANGED <<rows, editor>> /\ request' = [request EXCEPT ![a] = q]
      /\ sent' = sent + 1 /\ sent < MaxRequests
  BY DEF Send
<1> HIDE DEF q
<1> QED
  BY <1>1, <1>2, SentKeeps

(* Whatever a screen asks is sent so.                                      *)
LEMMA AskKeeps ==
  ASSUME IInv, NEW a \in Administrators, Ask(a)
  PROVE  IInv'
<1> DEFINE Q(kind, on, to) == [Idle EXCEPT !.kind = kind, !.step = "asked", !.on = on, !.to = to]
           Kept(kind, on, to) ==
             /\ kind \in Kinds
             /\ Stands(Q(kind, on, to), "create", {"asked", "written", "checked", "fixed", "recorded"}, Years, Bounds)
             /\ Stands(Q(kind, on, to), "change", {"asked", "written", "checked"}, Years, Bounds)
             /\ Stands(Q(kind, on, to), "delete", {"asked", "checked"}, Years, {None})
             /\ Stands(Q(kind, on, to), "except", {"asked", "checked"}, Years, Dates)
             /\ Stands(Q(kind, on, to), "restore", {"asked", "checked"}, Years, Dates)
             /\ Stands(Q(kind, on, to), "timezone", {"asked", "locked"}, {None}, Timezones)
             /\ Stands(Q(kind, on, to), "course", {"asked"}, Courses, {None})
             /\ Stands(Q(kind, on, to), "uncourse", {"asked", "locked"}, Courses, {None})
             /\ Stands(Q(kind, on, to), "offer", {"asked", "locked", "held"}, Courses, TermIds)
             /\ Stands(Q(kind, on, to), "unoffer", {"asked", "locked"}, [course : Courses, term : TermIds], {None})
<1>1. ASSUME NEW kind, NEW on, NEW to, Send(a, kind, on, to), Kept(kind, on, to), kind = "create" => Unused(on)
      PROVE  IInv'
  BY <1>1, SendKeeps
<1>2. \A kind, on, to : /\ Q(kind, on, to).kind = kind /\ Q(kind, on, to).step = "asked"
                        /\ Q(kind, on, to).on = on /\ Q(kind, on, to).to = to
  BY DEF Idle
<1> HIDE DEF Q
<1>3. exceptions \subseteq [year : Years, date : Dates] /\ courses \subseteq Courses
      /\ offerings \subseteq [course : Courses, term : TermIds]
  BY DEF IInv, TypeOK
<1>4. CASE \E y \in Years, b \in Bounds : Unused(y) /\ Send(a, "create", y, b)
  <2>1. PICK y \in Years, b \in Bounds : Unused(y) /\ Send(a, "create", y, b)
    BY <1>4
  <2>2. Kept("create", y, b)
    BY <1>2 DEF Stands, Kinds
  <2> QED
    BY <1>1, <2>1, <2>2
<1>5. CASE \E y \in Years, b \in Bounds : years[y] # None /\ Send(a, "change", y, b)
  <2>1. PICK y \in Years, b \in Bounds : Send(a, "change", y, b)
    BY <1>5
  <2>2. Kept("change", y, b)
    BY <1>2 DEF Stands, Kinds
  <2> QED
    BY <1>1, <2>1, <2>2
<1>6. CASE \E y \in Years : years[y] # None /\ Send(a, "delete", y, None)
  <2>1. PICK y \in Years : Send(a, "delete", y, None)
    BY <1>6
  <2>2. Kept("delete", y, None)
    BY <1>2 DEF Stands, Kinds
  <2> QED
    BY <1>1, <2>1, <2>2
<1>7. CASE \E y \in Years, d \in Dates : years[y] # None /\ Send(a, "except", y, d)
  <2>1. PICK y \in Years, d \in Dates : Send(a, "except", y, d)
    BY <1>7
  <2>2. Kept("except", y, d)
    BY <1>2 DEF Stands, Kinds
  <2> QED
    BY <1>1, <2>1, <2>2
<1>8. CASE \E e \in exceptions : Send(a, "restore", e.year, e.date)
  <2>1. PICK e \in exceptions : Send(a, "restore", e.year, e.date)
    BY <1>8
  <2>2. e.year \in Years /\ e.date \in Dates
    BY <1>3
  <2>3. Kept("restore", e.year, e.date)
    BY <1>2, <2>2 DEF Stands, Kinds
  <2> QED
    BY <1>1, <2>1, <2>3
<1>9. CASE \E z \in Timezones : Send(a, "timezone", None, z)
  <2>1. PICK z \in Timezones : Send(a, "timezone", None, z)
    BY <1>9
  <2>2. Kept("timezone", None, z)
    BY <1>2 DEF Stands, Kinds
  <2> QED
    BY <1>1, <2>1, <2>2
<1>10. CASE \E c \in Courses : c \notin courses /\ Send(a, "course", c, None)
  <2>1. PICK c \in Courses : Send(a, "course", c, None)
    BY <1>10
  <2>2. Kept("course", c, None)
    BY <1>2 DEF Stands, Kinds
  <2> QED
    BY <1>1, <2>1, <2>2
<1>11. CASE \E c \in courses : Send(a, "uncourse", c, None)
  <2>1. PICK c \in courses : Send(a, "uncourse", c, None)
    BY <1>11
  <2>2. Kept("uncourse", c, None)
    BY <1>2, <1>3 DEF Stands, Kinds
  <2> QED
    BY <1>1, <2>1, <2>2
<1>12. CASE \E c \in courses, i \in TermIds : terms[i] # None /\ Send(a, "offer", c, i)
  <2>1. PICK c \in courses, i \in TermIds : Send(a, "offer", c, i)
    BY <1>12
  <2>2. Kept("offer", c, i)
    BY <1>2, <1>3 DEF Stands, Kinds
  <2> QED
    BY <1>1, <2>1, <2>2
<1>13. CASE \E o \in offerings : Send(a, "unoffer", o, None)
  <2>1. PICK o \in offerings : Send(a, "unoffer", o, None)
    BY <1>13
  <2>2. Kept("unoffer", o, None)
    BY <1>2, <1>3 DEF Stands, Kinds
  <2> QED
    BY <1>1, <2>1, <2>2
<1> QED
  BY <1>4, <1>5, <1>6, <1>7, <1>8, <1>9, <1>10, <1>11, <1>12, <1>13 DEF Ask

(* What an editor saves is a change of its year to the drafts it holds.    *)
LEMMA SaveKeeps ==
  ASSUME IInv, NEW a \in Administrators, Save(a)
  PROVE  IInv'
<1> DEFINE e == editor[a]
           q == [Idle EXCEPT !.kind = "change", !.step = "asked", !.on = e.year,
                             !.to = [first |-> e.first, last |-> e.last], !.drafts = e.drafts]
<1>1. e \in Editor /\ EditorSound(e) /\ Submittable(e)
  BY DEF Save, IInv, TypeOK
<1>2. /\ q.kind = "change" /\ q.step = "asked" /\ q.on = e.year /\ q.to = [first |-> e.first, last |-> e.last]
      /\ q.drafts = e.drafts /\ q.seen = {} /\ q.doomed = {} /\ DOMAIN q = DOMAIN Idle
  BY DEF Idle
<1>3. /\ UNCHANGED <<rows, editor>> /\ request' = [request EXCEPT ![a] = q]
      /\ sent' = sent + 1 /\ sent < MaxRequests
  BY DEF Save
<1> HIDE DEF e, q
<1>4. DraftsSound(q.drafts) /\ q.to \in Bounds
  BY <1>1, <1>2, SentSound
<1>5. e.year \in Years /\ e.drafts \in Seq(Draft)
  BY <1>1, EditorFacts
<1>6. RequestTyped(q)
  <2>1. None # "change"
    BY StructureAssumption DEF Kinds
  <2> QED
    BY <1>2, <1>4, <1>5, <2>1 DEF RequestTyped, Stands, Kinds
<1> QED
  BY <1>2, <1>3, <1>4, <1>6, SentKeeps

(* The steps of an editor keep what is known of it.                        *)
LEMMA EditingKeeps ==
  ASSUME IInv, NEW a \in Administrators, Edit(a) \/ Cancel(a) \/ \E y \in Years : OpenEditor(a, y)
  PROVE  IInv'
<1>1. editor \in [Administrators -> Editor \cup {None}]
      /\ \A b \in Administrators : editor[b] # None => EditorSound(editor[b])
  BY DEF IInv, TypeOK
<1>2. ASSUME NEW e \in Editor \cup {None}, e # None => EditorSound(e), editor' = [editor EXCEPT ![a] = e],
             UNCHANGED <<rows, request, sent>>
      PROVE  IInv'
  BY <1>1, <1>2, EditorMoved
<1>3. CASE Edit(a)
  <2>1. editor[a] \in Editor /\ EditorSound(editor[a])
    BY <1>1, <1>3 DEF Edit
  <2>2. PICK e \in Edits(editor[a]) : editor' = [editor EXCEPT ![a] = [e EXCEPT !.edits = @ + 1]]
    BY <1>3 DEF Edit
  <2>3. [e EXCEPT !.edits = @ + 1] \in Editor /\ EditorSound([e EXCEPT !.edits = @ + 1])
    BY <2>1, <2>2, EditsKeep
  <2> QED
    BY <1>2, <1>3, <2>2, <2>3 DEF Edit
<1>4. CASE Cancel(a)
  BY <1>2, <1>4 DEF Cancel
<1>5. CASE \E y \in Years : OpenEditor(a, y)
  <2>1. PICK y \in Years : OpenEditor(a, y)
    BY <1>5
  <2> DEFINE e == [year |-> y, first |-> years[y].first, last |-> years[y].last,
                   drafts |-> Listed(y), edits |-> 0, loose |-> FALSE]
  <2>2. e \in Editor /\ EditorSound(e)
    BY <2>1, OpenedSound DEF OpenEditor, IInv, Planned
  <2> QED
    BY <1>2, <2>1, <2>2 DEF OpenEditor
<1> QED
  BY <1>3, <1>4, <1>5

-----------------------------------------------------------------------------
(* A change committed under its own request's end: what the requests that  *)
(* stay under way found in the rows they hold is there still.              *)
LEMMA CommittedKeeps ==
  ASSUME IInv, NEW a \in Administrators, Ends(a, FALSE),
         school' \in [timezone : Timezones, fixed : BOOLEAN],
         years' \in [Years -> Bounds \cup {None}], terms' \in [TermIds -> Term \cup {None}],
         made' \in 0 .. MaxTerms, exceptions' \subseteq [year : Years, date : Dates],
         courses' \subseteq Courses, offerings' \subseteq [course : Courses, term : TermIds],
         Planned',
         \A b \in Others(a) :
           /\ SetAgainstOthers(b) =>
                \A y \in Years \ {request[b].on} : years'[y] # None => ~Overlap(years'[y], request[b].to)
           /\ request[b].kind = "create" => years'[request[b].on] = None
           /\ HoldsYear(b) =>
                /\ years'[request[b].on] = years[request[b].on]
                /\ TermsOf(request[b].on)' = TermsOf(request[b].on)
                /\ \A i \in TermsOf(request[b].on) : terms'[i] = terms[i]
                /\ ExceptionsOf(request[b].on)' = ExceptionsOf(request[b].on)
           /\ b \in SchoolLockers => school' = school
           /\ Is(b, "offer", {"locked", "held"}) => request[b].on \in courses'
           /\ Is(b, "offer", {"held"}) => terms'[request[b].to] # None
  PROVE  IInv'
<1>1. /\ DOMAIN request = Administrators /\ DOMAIN request' = Administrators
      /\ request'[a].kind = None /\ request'[a] = Idle /\ request'[a].drafts = None /\ None \notin Kinds
      /\ \A b \in Others(a) : request'[b] = request[b] /\ b \in Administrators /\ b # a
      /\ \A b \in Administrators : b # a => b \in Others(a)
  BY StructureAssumption DEF Ends, IInv, TypeOK, Others, Idle
<1>2. TypeOK'
  <2>1. \A b \in Administrators : RequestTyped(request'[b])
    BY <1>1, IdleTyped DEF IInv, TypeOK
  <2>2. sent' \in 0 .. MaxRequests /\ editor' \in [Administrators -> Editor \cup {None}]
    BY DEF Ends, IInv, TypeOK
  <2> QED
    BY <1>1, <2>1, <2>2 DEF TypeOK
<1>3. ~Is(a, "offer", {"held"})' /\ ~Is(a, "change", {"checked"})' /\ ~SetAgainstOthers(a)'
      /\ ~HoldsYear(a)' /\ ~HoldsCourse(a)' /\ a \notin SchoolLockers' /\ a \notin SchoolSharers'
      /\ ~Is(a, "offer", {"locked", "held"})' /\ request'[a].kind # "create"
  BY <1>1 DEF SetAgainstOthers, HoldsYear, HoldsCourse, SchoolLockers, SchoolSharers, Is, YearKinds, Kinds
<1>4. ASSUME NEW b \in Administrators, NEW c \in Administrators, b # c
      PROVE  Apart(b, c)'
  <2>1. CASE b = a \/ c = a
    BY <1>3, <2>1 DEF Apart
  <2>2. CASE b # a /\ c # a
    <3>1. request'[b] = request[b] /\ request'[c] = request[c] /\ Apart(b, c)
      BY <1>1, <1>4, <2>2 DEF IInv
    <3> QED
      BY <3>1 DEF Apart, HoldsYear, HoldsCourse, SchoolLockers, SchoolSharers, Is
  <2> QED
    BY <2>1, <2>2
<1>5. ASSUME NEW b \in Administrators
      PROVE  MeetsNone(b)'
  <2>1. CASE b = a
    BY <1>3, <2>1 DEF MeetsNone
  <2>2. CASE b # a
    <3>1. b \in Others(a) /\ request'[b] = request[b] /\ MeetsNone(b)
      BY <1>1, <2>2 DEF IInv
    <3>2. \A c \in Others(b) : SetAgainstOthers(c)' => c # a /\ request'[c] = request[c] /\ SetAgainstOthers(c)
      BY <1>1, <1>3 DEF SetAgainstOthers, Is, Others
    <3>3. SetAgainstOthers(b)' => SetAgainstOthers(b)
      BY <3>1 DEF SetAgainstOthers, Is
    <3> QED
      BY <3>1, <3>2, <3>3 DEF MeetsNone, Others
  <2> QED
    BY <2>1, <2>2
<1>6. ASSUME NEW b \in Others(a)
      PROVE  ReadStands(b)'
  <2>1. request'[b] = request[b] /\ ReadStands(b) /\ b \in Administrators
    BY <1>1 DEF IInv
  <2>2. (HoldsYear(b) <=> HoldsYear(b)') /\ (b \in SchoolLockers <=> b \in SchoolLockers')
        /\ (Is(b, "offer", {"held"}) <=> Is(b, "offer", {"held"})')
        /\ (Is(b, "offer", {"locked", "held"}) <=> Is(b, "offer", {"locked", "held"})')
    BY <2>1 DEF HoldsYear, SchoolLockers, Is
  <2>3. ASSUME HoldsYear(b), request[b].kind = "change"
        PROVE  ChangeSound(request[b])'
    <3>1. ChangeSound(request[b])
      BY <2>1, <2>3 DEF ReadStands
    <3>2. TermsOf(request[b].on)' = TermsOf(request[b].on) /\ ExceptionsOf(request[b].on)' = ExceptionsOf(request[b].on)
      BY <2>3
    <3>3. \A i \in TermsOf(request[b].on) : Shown(i)' = Shown(i)
      BY <2>3 DEF Shown
    <3>4. {Shown(i) : i \in TermsOf(request[b].on)}' = {Shown(i) : i \in TermsOf(request[b].on)}
      BY <2>1, <3>2, <3>3
    <3>5. Division(request[b].on)' = Division(request[b].on)
      BY <2>1, <2>3, <3>2 DEF Division
    <3> DEFINE r == request[b]
    <3>6. request'[b].seen = {Shown(i) : i \in TermsOf(r.on)}'
      BY <2>1, <3>1, <3>4 DEF ChangeSound
    <3>7. /\ \A e \in ExceptionsOf(r.on)' : Within(request'[b].to, e.date)
          /\ Covers(request'[b].to, IF request'[b].drafts = None THEN Division(r.on)' ELSE request'[b].drafts)
      BY <2>1, <3>1, <3>2, <3>5 DEF ChangeSound
    <3>8. LET named == {request'[b].drafts[n].id : n \in DOMAIN request'[b].drafts}
          IN /\ request'[b].drafts # None => named \subseteq TermsOf(r.on)' \cup {None}
             /\ request'[b].step = "written" /\ request'[b].drafts # None =>
                  request'[b].doomed = TermsOf(r.on)' \ named
      BY <2>1, <3>1, <3>2 DEF ChangeSound
    <3> QED
      BY <3>6, <3>7, <3>8, Zenon DEF ChangeSound
  <2>4. /\ HoldsYear(b) /\ request[b].kind = "delete" =>
             TermsOf(request[b].on)' = {} /\ ExceptionsOf(request[b].on)' = {}
        /\ HoldsYear(b) /\ request[b].kind = "except" =>
             /\ Within(years'[request[b].on], request[b].to)
             /\ \A e \in ExceptionsOf(request[b].on)' : e.date # request[b].to
        /\ HoldsYear(b) => years'[request[b].on] # None
    BY <2>1 DEF ReadStands
  <2>5. b \in SchoolLockers => ~school'.fixed \/ school'.timezone = request[b].to
    BY <2>1 DEF ReadStands
  <2>6. ASSUME Is(b, "offer", {"held"}), NEW c \in Administrators, Is(c, "change", {"checked"})',
               request[b].to \in LeftOut(c)'
        PROVE  request[b].to \in request'[c].doomed
    <3>1. c # a /\ request'[c] = request[c]
      BY <1>1, <1>3, <2>6
    <3>2. LeftOut(c)' = LeftOut(c) /\ Is(c, "change", {"checked"})
      BY <2>6, <3>1 DEF LeftOut, Is
    <3> QED
      BY <2>1, <2>6, <3>1, <3>2 DEF ReadStands
  <2> QED
    BY <2>1, <2>2, <2>3, <2>4, <2>5, <2>6 DEF ReadStands
<1>7. ReadStands(a)'
  BY <1>1, <1>3 DEF ReadStands
<1>8. \A b \in Administrators : editor'[b] # None => EditorSound(editor'[b])
  BY DEF Ends, IInv, TypeOK
<1> QED
  BY <1>1, <1>2, <1>4, <1>5, <1>6, <1>7, <1>8 DEF IInv

(* What a request under way is known to find, where its rows are let be.   *)
LEMMA Bystanders ==
  ASSUME IInv, NEW a \in Administrators, NEW b \in Others(a)
  PROVE  /\ b \in Administrators /\ b # a /\ Apart(a, b) /\ Apart(b, a)
         /\ MeetsNone(b) /\ ReadStands(b) /\ RequestTyped(request[b])
         /\ HoldsYear(b) => request[b].on \in Years /\ years[request[b].on] # None
         /\ request[b].kind = "create" => request[b].on \in Years /\ years[request[b].on] = None
         /\ SetAgainstOthers(b) =>
              \A y \in Years \ {request[b].on} : years[y] # None => ~Overlap(years[y], request[b].to)
         /\ SetAgainstOthers(a) /\ SetAgainstOthers(b) => ~Overlap(request[a].to, request[b].to)
<1>1. b \in Administrators /\ b # a /\ a \in Others(b)
  BY DEF Others
<1>2. /\ MeetsNone(b) /\ ReadStands(b) /\ RequestTyped(request[b]) /\ Apart(a, b) /\ Apart(b, a)
  BY <1>1 DEF IInv, TypeOK
<1>3. HoldsYear(b) \/ request[b].kind = "create" => request[b].on \in Years
  BY <1>2 DEF RequestTyped, Stands, HoldsYear, YearKinds
<1> QED
  BY <1>1, <1>2, <1>3 DEF MeetsNone, ReadStands

(* A year created has nothing in it, and meets no other.                   *)
LEMMA CommitCreationKeeps ==
  ASSUME IInv, NEW a \in Administrators, CommitCreation(a)
  PROVE  IInv'
<1> DEFINE x == request[a].on
           to == request[a].to
<1>1. request[a].kind = "create" /\ request[a].step \in {"fixed", "recorded"}
  BY DEF CommitCreation
<1>2. x \in Years /\ to \in Bounds /\ years[x] = None /\ MeetsNone(a) /\ TypeOK /\ None \notin Bounds
  BY <1>1, StructureAssumption DEF IInv, TypeOK, RequestTyped, Stands, ReadStands
<1>3. /\ years' = [years EXCEPT ![x] = to] /\ school' = [school EXCEPT !.fixed = TRUE] /\ Ends(a, FALSE)
      /\ UNCHANGED <<terms, made, exceptions, courses, offerings>>
  BY DEF CommitCreation
<1>4. years'[x] = to /\ \A y \in Years \ {x} : years'[y] = years[y]
  BY <1>2, <1>3 DEF TypeOK
<1>5. SetAgainstOthers(a) /\ a \in SchoolSharers
  BY <1>1 DEF SetAgainstOthers, SchoolSharers, Is
<1>6. \A y \in Years \ {x} : years[y] # None => ~Overlap(years[y], to)
  BY <1>2, <1>5 DEF MeetsNone
<1> HIDE DEF x, to
<1>7. EveryDateInOneTerm'
  <2>1. SoundPlan(years, terms, exceptions)
    BY DEF IInv, Planned, EveryDateInOneTerm
  <2>2. TermsIn(terms, x) = {} /\ DatesIn(exceptions, x) = {}
    BY <1>2, <2>1 DEF SoundPlan
  <2>3. \A y, z \in Years : y # z /\ years'[y] # None /\ years'[z] # None => ~Overlap(years'[y], years'[z])
    <3>1. \A y, z \in Years \ {x} : y # z /\ years'[y] # None /\ years'[z] # None => ~Overlap(years'[y], years'[z])
      BY <1>4, <2>1 DEF SoundPlan
    <3>2. \A y \in Years \ {x} : years'[y] # None => ~Overlap(years'[y], years'[x]) /\ ~Overlap(years'[x], years'[y])
      BY <1>4, <1>6 DEF Overlap
    <3> QED
      BY <3>1, <3>2
  <2>4. \A y \in Years :
          IF years'[y] = None THEN TermsIn(terms, y) = {} /\ DatesIn(exceptions, y) = {}
          ELSE /\ Covers(years'[y], [i \in TermsIn(terms, y) |-> terms[i]])
               /\ \A e \in DatesIn(exceptions, y) : Within(years'[y], e.date)
    <3>1. \A y \in Years \ {x} :
            IF years'[y] = None THEN TermsIn(terms, y) = {} /\ DatesIn(exceptions, y) = {}
            ELSE /\ Covers(years'[y], [i \in TermsIn(terms, y) |-> terms[i]])
                 /\ \A e \in DatesIn(exceptions, y) : Within(years'[y], e.date)
      BY <1>4, <2>1 DEF SoundPlan
    <3>2. Covers(years'[x], [i \in TermsIn(terms, x) |-> terms[i]])
      BY <2>2 DEF Covers
    <3> QED
      BY <1>2, <1>4, <2>2, <3>1, <3>2
  <2>5. terms' = terms /\ exceptions' = exceptions
    BY <1>3
  <2> QED
    BY <2>3, <2>4, <2>5 DEF EveryDateInOneTerm, SoundPlan
<1>8. Planned'
  BY <1>3, <1>7 DEF IInv, Planned
<1>9. ASSUME NEW b \in Others(a)
      PROVE  /\ SetAgainstOthers(b) =>
                  \A y \in Years \ {request[b].on} : years'[y] # None => ~Overlap(years'[y], request[b].to)
             /\ request[b].kind = "create" => years'[request[b].on] = None
             /\ HoldsYear(b) => years'[request[b].on] = years[request[b].on]
             /\ b \notin SchoolLockers
  <2>1. /\ Apart(a, b) /\ Apart(b, a)
        /\ HoldsYear(b) => request[b].on \in Years /\ years[request[b].on] # None
        /\ request[b].kind = "create" => request[b].on \in Years /\ years[request[b].on] = None
        /\ SetAgainstOthers(b) =>
             \A y \in Years \ {request[b].on} : years[y] # None => ~Overlap(years[y], request[b].to)
        /\ SetAgainstOthers(b) => ~Overlap(to, request[b].to)
    BY <1>5, Bystanders DEF to
  <2>2. request[b].kind = "create" => request[b].on # x
    BY <1>1, <2>1 DEF Apart, x
  <2> QED
    BY <1>2, <1>4, <1>5, <2>1, <2>2 DEF Apart
<1>10. /\ \A b \in Others(a) : TermsOf(request[b].on)' = TermsOf(request[b].on)
                               /\ ExceptionsOf(request[b].on)' = ExceptionsOf(request[b].on)
       /\ \A b \in Others(a) : Is(b, "offer", {"locked", "held"}) => request[b].on \in courses'
       /\ \A b \in Others(a) : Is(b, "offer", {"held"}) => terms'[request[b].to] # None
  <2>1. \A b \in Others(a) : ReadStands(b) /\ request'[b] = request[b]
    BY <1>3 DEF IInv, TypeOK, Ends, Others
  <2> QED
    BY <1>3, <2>1 DEF ReadStands, TermsOf, ExceptionsOf
<1>11. /\ school' \in [timezone : Timezones, fixed : BOOLEAN] /\ years' \in [Years -> Bounds \cup {None}]
       /\ terms' = terms /\ made' = made /\ exceptions' = exceptions /\ courses' = courses /\ offerings' = offerings
  BY <1>2, <1>3 DEF TypeOK
<1> QED
  BY <1>2, <1>3, <1>8, <1>9, <1>10, <1>11, CommittedKeeps DEF TypeOK

(* A year deleted has neither Terms nor exceptions.                        *)
LEMMA CommitDeletionKeeps ==
  ASSUME IInv, NEW a \in Administrators, CommitDeletion(a)
  PROVE  IInv'
<1> DEFINE x == request[a].on
<1>1. request[a].kind = "delete" /\ request[a].step = "checked" /\ HoldsYear(a)
  BY DEF CommitDeletion, Ready, HoldsYear, YearKinds
<1>2. x \in Years /\ TypeOK /\ TermsOf(x) = {} /\ ExceptionsOf(x) = {}
  BY <1>1 DEF IInv, TypeOK, RequestTyped, Stands, ReadStands
<1>3. /\ years' = [years EXCEPT ![x] = None] /\ Ends(a, FALSE)
      /\ UNCHANGED <<school, terms, made, exceptions, courses, offerings>>
  BY DEF CommitDeletion
<1>4. years'[x] = None /\ \A y \in Years \ {x} : years'[y] = years[y]
  BY <1>2, <1>3 DEF TypeOK
<1> HIDE DEF x
<1>5. Planned'
  <2>1. SoundPlan(years, terms, exceptions) /\ UNCHANGED <<terms, made, exceptions>>
    BY <1>3 DEF IInv, Planned, EveryDateInOneTerm
  <2>2. SoundPlan(years', terms, exceptions)
    BY <1>2, <1>4, <2>1 DEF SoundPlan, TermsOf, ExceptionsOf
  <2> QED
    BY <2>1, <2>2 DEF IInv, Planned, EveryDateInOneTerm
<1>6. ASSUME NEW b \in Others(a)
      PROVE  /\ SetAgainstOthers(b) =>
                  \A y \in Years \ {request[b].on} : years'[y] # None => ~Overlap(years'[y], request[b].to)
             /\ request[b].kind = "create" => years'[request[b].on] = None
             /\ HoldsYear(b) => years'[request[b].on] = years[request[b].on]
             /\ Is(b, "offer", {"locked", "held"}) => request[b].on \in courses
             /\ Is(b, "offer", {"held"}) => terms[request[b].to] # None
  BY <1>1, <1>4, Bystanders DEF Apart, ReadStands, x
<1>7. \A b \in Others(a) : TermsOf(request[b].on)' = TermsOf(request[b].on)
                           /\ ExceptionsOf(request[b].on)' = ExceptionsOf(request[b].on)
  <2>1. \A b \in Others(a) : request'[b] = request[b]
    BY <1>3 DEF IInv, TypeOK, Ends, Others
  <2> QED
    BY <1>3, <2>1 DEF TermsOf, ExceptionsOf
<1>8. years' \in [Years -> Bounds \cup {None}]
  BY <1>2, <1>3 DEF TypeOK
<1> QED
  BY <1>2, <1>3, <1>5, <1>6, <1>7, <1>8, CommittedKeeps DEF TypeOK

(* A date put in falls in its year, and no other's dates are touched.      *)
LEMMA CommitExceptionKeeps ==
  ASSUME IInv, NEW a \in Administrators, CommitException(a)
  PROVE  IInv'
<1> DEFINE x == request[a].on
           e == [year |-> x, date |-> request[a].to]
<1>1. request[a].kind \in {"except", "restore"} /\ request[a].step = "checked" /\ HoldsYear(a)
  BY DEF CommitException, Ready, HoldsYear, YearKinds
<1>2. /\ x \in Years /\ request[a].to \in Dates /\ TypeOK /\ years[x] # None
      /\ request[a].kind = "except" => Within(years[x], request[a].to)
  BY <1>1 DEF IInv, TypeOK, RequestTyped, Stands, ReadStands
<1>3. /\ Ends(a, FALSE) /\ UNCHANGED <<school, years, terms, made, courses, offerings>>
      /\ \/ request[a].kind = "except" /\ exceptions' = exceptions \cup {e}
         \/ exceptions' = exceptions \ {e}
  BY DEF CommitException, Ready
<1>4. e.year = x /\ e.date = request[a].to /\ e \in [year : Years, date : Dates]
  BY <1>2
<1> HIDE DEF x, e
<1>5. \A y \in Years \ {x} : DatesIn(exceptions', y) = DatesIn(exceptions, y)
  BY <1>3, <1>4 DEF DatesIn
<1>6. \A d \in DatesIn(exceptions', x) : Within(years[x], d.date)
  <2>1. \A d \in DatesIn(exceptions, x) : Within(years[x], d.date)
    BY <1>2 DEF IInv, Planned, EveryDateInOneTerm, SoundPlan
  <2> QED
    BY <1>2, <1>3, <1>4, <2>1 DEF DatesIn
<1>7. Planned'
  <2>1. SoundPlan(years, terms, exceptions) /\ UNCHANGED <<years, terms, made>>
    BY <1>3 DEF IInv, Planned, EveryDateInOneTerm
  <2>2. SoundPlan(years, terms, exceptions')
    BY <1>2, <1>5, <1>6, <2>1 DEF SoundPlan
  <2> QED
    BY <2>1, <2>2 DEF IInv, Planned, EveryDateInOneTerm
<1>8. ASSUME NEW b \in Others(a)
      PROVE  /\ SetAgainstOthers(b) =>
                  \A y \in Years \ {request[b].on} : years'[y] # None => ~Overlap(years'[y], request[b].to)
             /\ request[b].kind = "create" => years'[request[b].on] = None
             /\ HoldsYear(b) => request[b].on \in Years \ {x}
             /\ Is(b, "offer", {"locked", "held"}) => request[b].on \in courses
             /\ Is(b, "offer", {"held"}) => terms[request[b].to] # None
  BY <1>1, <1>3, Bystanders DEF Apart, ReadStands, x
<1>9. \A b \in Others(a) : /\ TermsOf(request[b].on)' = TermsOf(request[b].on)
                           /\ HoldsYear(b) => ExceptionsOf(request[b].on)' = ExceptionsOf(request[b].on)
  <2>1. \A b \in Others(a) : request'[b] = request[b]
    BY <1>3 DEF IInv, TypeOK, Ends, Others
  <2> QED
    BY <1>3, <1>5, <1>8, <2>1 DEF TermsOf, ExceptionsOf
<1>10. exceptions' \subseteq [year : Years, date : Dates]
  BY <1>2, <1>3, <1>4 DEF TypeOK
<1> QED
  BY <1>2, <1>3, <1>7, <1>8, <1>9, <1>10, CommittedKeeps DEF TypeOK

(* What leaves the years and their Terms alone: a School's timezone, its   *)
(* Courses, its offerings, where no other request holds what is changed.   *)
LEMMA AsideKeeps ==
  ASSUME IInv, NEW a \in Administrators, Ends(a, FALSE), UNCHANGED <<years, terms, made, exceptions>>,
         school' \in [timezone : Timezones, fixed : BOOLEAN],
         courses' \subseteq Courses, offerings' \subseteq [course : Courses, term : TermIds],
         \A b \in Others(a) :
           /\ b \in SchoolLockers => school' = school
           /\ Is(b, "offer", {"locked", "held"}) => request[b].on \in courses'
  PROVE  IInv'
<1>1. Planned'
  BY DEF IInv, Planned, EveryDateInOneTerm
<1>2. TypeOK
  BY DEF IInv
<1>3. \A b \in Others(a) : TermsOf(request[b].on)' = TermsOf(request[b].on)
                           /\ ExceptionsOf(request[b].on)' = ExceptionsOf(request[b].on)
  <2>1. \A b \in Others(a) : request'[b] = request[b]
    BY <1>2 DEF TypeOK, Ends, Others
  <2> QED
    BY <2>1 DEF TermsOf, ExceptionsOf
<1>4. ASSUME NEW b \in Others(a)
      PROVE  /\ SetAgainstOthers(b) =>
                  \A y \in Years \ {request[b].on} : years'[y] # None => ~Overlap(years'[y], request[b].to)
             /\ request[b].kind = "create" => years'[request[b].on] = None
             /\ Is(b, "offer", {"held"}) => terms'[request[b].to] # None
  BY Bystanders DEF ReadStands
<1> QED
  BY <1>1, <1>2, <1>3, <1>4, CommittedKeeps DEF TypeOK

(* Nobody who holds a Course or the School stands beside its change.       *)
LEMMA CommitAsideKeeps ==
  ASSUME IInv, NEW a \in Administrators,
         CommitTimezone(a) \/ CommitCourse(a) \/ CommitOffering(a) \/ CommitUncourse(a) \/ CommitUnoffer(a)
  PROVE  IInv'
<1>1. /\ TypeOK /\ RequestTyped(request[a])
      /\ \A b \in Others(a) : Apart(a, b) /\ (Is(b, "offer", {"locked", "held"}) => request[b].on \in courses)
  BY Bystanders DEF IInv, TypeOK, ReadStands
<1>2. CASE CommitTimezone(a)
  <2>1. /\ request[a].kind = "timezone" /\ a \in SchoolLockers /\ Ends(a, FALSE)
        /\ school' = [school EXCEPT !.timezone = request[a].to]
        /\ UNCHANGED <<years, terms, made, exceptions, courses, offerings>>
    BY <1>2 DEF CommitTimezone, Ready, SchoolLockers, Is
  <2>2. request[a].to \in Timezones
    BY <1>1, <2>1 DEF RequestTyped, Stands
  <2>3. school' \in [timezone : Timezones, fixed : BOOLEAN]
    BY <1>1, <2>1, <2>2 DEF TypeOK
  <2> QED
    BY <1>1, <2>1, <2>3, AsideKeeps DEF TypeOK, Apart
<1>3. CASE CommitCourse(a)
  <2>1. /\ request[a].on \in Courses /\ courses' = courses \cup {request[a].on} /\ Ends(a, FALSE)
        /\ UNCHANGED <<school, years, terms, made, exceptions, offerings>>
    BY <1>1, <1>3 DEF CommitCourse, Ready, RequestTyped, Stands
  <2> QED
    BY <1>1, <2>1, AsideKeeps DEF TypeOK
<1>4. CASE CommitOffering(a)
  <2>1. /\ request[a].on \in Courses /\ request[a].to \in TermIds /\ Ends(a, FALSE)
        /\ offerings' = offerings \cup {[course |-> request[a].on, term |-> request[a].to]}
        /\ UNCHANGED <<school, years, terms, made, exceptions, courses>>
    BY <1>1, <1>4 DEF CommitOffering, Ready, RequestTyped, Stands
  <2>2. offerings' \subseteq [course : Courses, term : TermIds]
    BY <1>1, <2>1 DEF TypeOK
  <2> QED
    BY <1>1, <2>1, <2>2, AsideKeeps DEF TypeOK
<1>5. CASE CommitUncourse(a)
  <2>1. CASE Refused(a, FALSE)
    BY <2>1, RefusedKeeps
  <2>2. CASE /\ courses' = courses \ {request[a].on} /\ Ends(a, FALSE)
             /\ UNCHANGED <<school, years, terms, made, exceptions, offerings>>
    <3>1. HoldsCourse(a)
      BY <1>5 DEF CommitUncourse, Ready, HoldsCourse, Is
    <3>2. \A b \in Others(a) : Is(b, "offer", {"locked", "held"}) => request[b].on \in courses'
      BY <1>1, <2>2, <3>1 DEF Apart, HoldsCourse
    <3> QED
      BY <1>1, <2>2, <3>2, AsideKeeps DEF TypeOK
  <2> QED
    BY <1>5, <2>1, <2>2 DEF CommitUncourse
<1>6. CASE CommitUnoffer(a)
  <2>1. CASE Refused(a, FALSE)
    BY <2>1, RefusedKeeps
  <2>2. CASE /\ offerings' = offerings \ {request[a].on} /\ Ends(a, FALSE)
             /\ UNCHANGED <<school, years, terms, made, exceptions, courses>>
    BY <1>1, <2>2, AsideKeeps DEF TypeOK
  <2> QED
    BY <1>6, <2>1, <2>2 DEF CommitUnoffer
<1> QED
  BY <1>2, <1>3, <1>4, <1>5, <1>6

-----------------------------------------------------------------------------
(* Terms that cover a year still do under other names.                     *)
LEMMA CoversRenamed ==
  ASSUME NEW bounds, NEW d, NEW e, NEW f,
         \A n \in DOMAIN d : f[n] \in DOMAIN e /\ e[f[n]].first = d[n].first /\ e[f[n]].last = d[n].last,
         \A i \in DOMAIN e : \E n \in DOMAIN d : f[n] = i,
         Covers(bounds, d)
  PROVE  Covers(bounds, e)
<1>1. ASSUME DOMAIN e # {}
      PROVE  /\ \A i \in DOMAIN e : bounds.first <= e[i].first /\ e[i].last <= bounds.last
             /\ \A i, j \in DOMAIN e : i # j => ~Overlap(e[i], e[j])
             /\ \E i \in DOMAIN e : e[i].first = bounds.first
             /\ \A i \in DOMAIN e : e[i].last = bounds.last \/ \E j \in DOMAIN e : e[j].first = e[i].last + 1
  <2>1. /\ \A n \in DOMAIN d : bounds.first <= d[n].first /\ d[n].last <= bounds.last
        /\ \A m, n \in DOMAIN d : m # n => ~Overlap(d[m], d[n])
        /\ \E n \in DOMAIN d : d[n].first = bounds.first
        /\ \A m \in DOMAIN d : d[m].last = bounds.last \/ \E n \in DOMAIN d : d[n].first = d[m].last + 1
    BY <1>1 DEF Covers
  <2>2. \A i \in DOMAIN e : \E n \in DOMAIN d : f[n] = i /\ e[i].first = d[n].first /\ e[i].last = d[n].last
    OBVIOUS
  <2>3. \A i \in DOMAIN e : bounds.first <= e[i].first /\ e[i].last <= bounds.last
    BY <2>1, <2>2
  <2>4. ASSUME NEW i \in DOMAIN e, NEW j \in DOMAIN e, i # j
        PROVE  ~Overlap(e[i], e[j])
    <3>1. PICK m \in DOMAIN d : f[m] = i /\ e[i].first = d[m].first /\ e[i].last = d[m].last
      BY <2>2
    <3>2. PICK n \in DOMAIN d : f[n] = j /\ e[j].first = d[n].first /\ e[j].last = d[n].last
      BY <2>2
    <3>3. ~Overlap(d[m], d[n])
      BY <2>1, <2>4, <3>1, <3>2
    <3> QED
      BY <3>1, <3>2, <3>3 DEF Overlap
  <2>5. \E i \in DOMAIN e : e[i].first = bounds.first
    BY <2>1
  <2>6. ASSUME NEW i \in DOMAIN e, e[i].last # bounds.last
        PROVE  \E j \in DOMAIN e : e[j].first = e[i].last + 1
    <3>1. PICK m \in DOMAIN d : e[i].last = d[m].last
      BY <2>2
    <3>2. PICK n \in DOMAIN d : d[n].first = d[m].last + 1
      BY <2>1, <2>6, <3>1
    <3>3. f[n] \in DOMAIN e /\ e[f[n]].first = e[i].last + 1
      BY <3>1, <3>2
    <3> QED
      BY <3>3
  <2> QED
    BY <2>3, <2>4, <2>5, <2>6
<1> QED
  BY <1>1 DEF Covers

(* What a change of a year still to be committed is known to be of.        *)
LEMMA ChangeFacts ==
  ASSUME IInv, NEW a \in Administrators, Is(a, "change", {"checked"})
  PROVE  /\ request[a].on \in Years /\ request[a].to \in Bounds /\ years[request[a].on] \in Bounds
         /\ years[request[a].on] # None /\ HoldsYear(a) /\ SetAgainstOthers(a)
         /\ Drafts(a) \in Seq(Draft) /\ DOMAIN Drafts(a) = 1 .. Len(Drafts(a)) /\ Len(Drafts(a)) \in Nat
         /\ DraftsSound(Drafts(a)) /\ \A n \in DOMAIN Drafts(a) : Drafts(a)[n] \in Draft
         /\ \A n \in DOMAIN Drafts(a) : Drafts(a)[n].id # None => Drafts(a)[n].id \in TermsOf(request[a].on)
         /\ LeftOut(a) \subseteq TermsOf(request[a].on)
         /\ IF request[a].drafts = None THEN Drafts(a) = <<>> /\ LeftOut(a) = {}
            ELSE \A i \in TermsOf(request[a].on) : i \in LeftOut(a) \/ \E n \in DOMAIN Drafts(a) : Drafts(a)[n].id = i
         /\ Covers(request[a].to, IF request[a].drafts = None THEN Division(request[a].on) ELSE Drafts(a))
         /\ \A e \in ExceptionsOf(request[a].on) : Within(request[a].to, e.date)
         /\ TermsOf(request[a].on) \subseteq TermIds /\ None \notin TermIds
<1> DEFINE y == request[a].on
           drafts == request[a].drafts
           named == {drafts[n].id : n \in DOMAIN drafts}
<1>1. /\ request[a].kind = "change" /\ HoldsYear(a) /\ SetAgainstOthers(a) /\ TypeOK /\ ReadStands(a)
  BY DEF IInv, Is, HoldsYear, SetAgainstOthers, YearKinds
<1>2. /\ y \in Years /\ request[a].to \in Bounds /\ years[y] # None /\ years[y] \in Bounds
      /\ drafts # None => drafts \in Seq(Draft) /\ DraftsSound(drafts)
      /\ ChangeSound(request[a])
  BY <1>1 DEF TypeOK, RequestTyped, Stands, ReadStands
<1>3. TermsOf(y) \subseteq TermIds /\ None \notin TermIds
  BY StructureAssumption DEF TermsOf, TermsIn, TermIds
<1>4. /\ Covers(request[a].to, IF drafts = None THEN Division(y) ELSE drafts)
      /\ \A e \in ExceptionsOf(y) : Within(request[a].to, e.date)
      /\ drafts # None => named \subseteq TermsOf(y) \cup {None}
  BY <1>2 DEF ChangeSound
<1>5. {s.id : s \in request[a].seen} = TermsOf(y)
  <2>1. request[a].seen = {Shown(i) : i \in TermsOf(y)} /\ \A i : Shown(i).id = i
    BY <1>2 DEF ChangeSound, Shown
  <2> HIDE DEF y
  <2> QED
    BY <2>1
<1>6. CASE drafts = None
  <2>1. Drafts(a) = <<>> /\ LeftOut(a) = {} /\ DOMAIN Drafts(a) = {} /\ Len(Drafts(a)) = 0
    BY <1>6 DEF Drafts, LeftOut
  <2>2. DraftsSound(Drafts(a)) /\ Drafts(a) \in Seq(Draft) /\ DOMAIN Drafts(a) = 1 .. Len(Drafts(a))
    BY <2>1 DEF DraftsSound, NamedOnce
  <2> QED
    BY <1>1, <1>2, <1>3, <1>4, <1>6, <2>1, <2>2
<1>7. CASE drafts # None
  <2>1. Drafts(a) = drafts /\ LeftOut(a) = TermsOf(y) \ named
    BY <1>5, <1>7 DEF Drafts, LeftOut
  <2>2. DOMAIN drafts = 1 .. Len(drafts) /\ Len(drafts) \in Nat /\ \A n \in DOMAIN drafts : drafts[n] \in Draft
    BY <1>2, <1>7, LenProperties, ElementOfSeq
  <2> QED
    BY <1>1, <1>2, <1>3, <1>4, <1>7, <2>1, <2>2
<1> QED
  BY <1>6, <1>7

(* Each draft is written as a Term of its own: the one it names, or a new  *)
(* one, numbered after all that were ever made.                            *)
LEMMA WrittenAsOne ==
  ASSUME IInv, NEW a \in Administrators, Is(a, "change", {"checked"})
  PROVE  /\ IsFiniteSet(Fresh(a)) /\ Cardinality(Fresh(a)) \in Nat /\ made \in Nat
         /\ \A n \in DOMAIN Drafts(a) :
              IF n \in Fresh(a) THEN WrittenAs(a, n) \in made + 1 .. made + Cardinality(Fresh(a))
              ELSE /\ WrittenAs(a, n) = Drafts(a)[n].id
                   /\ WrittenAs(a, n) \in TermsOf(request[a].on) /\ WrittenAs(a, n) \in 1 .. made
         /\ \A m, n \in DOMAIN Drafts(a) : m # n => WrittenAs(a, m) # WrittenAs(a, n)
<1> DEFINE F == Fresh(a)
           N == Len(Drafts(a))
           f == [n \in F |-> n]
<1>1. /\ DOMAIN Drafts(a) = 1 .. N /\ N \in Nat /\ NamedOnce(Drafts(a))
      /\ \A n \in DOMAIN Drafts(a) : Drafts(a)[n].id # None => Drafts(a)[n].id \in TermsOf(request[a].on)
  BY ChangeFacts DEF DraftsSound
<1>2. F \subseteq 1 .. N /\ \A n \in DOMAIN Drafts(a) : n \notin F => Drafts(a)[n].id # None
  BY <1>1 DEF Fresh
<1>3. IsFiniteSet(F) /\ Cardinality(F) \in Nat
  <2>1. IsFiniteSet(1 .. N)
    BY <1>1, FS_Interval
  <2> HIDE DEF F, N
  <2> QED
    BY <1>2, <2>1, FS_Subset, FS_CardinalityType
<1>4. made \in Nat /\ \A i \in TermsOf(request[a].on) : i \in 1 .. made
  <2>1. made \in Nat /\ \A i \in TermIds : terms[i] # None => i <= made
    BY DEF IInv, TypeOK, Planned
  <2> QED
    BY <2>1, StructureAssumption DEF TermsOf, TermsIn, TermIds
<1>5. /\ \A n \in F : f[n] = n /\ f[n] \in Int
      /\ \A n \in F : {m \in F : f[m] <= f[n]} = {m \in F : m <= n}
  BY <1>1, <1>2
<1> HIDE DEF F, N, f
<1>6. \A n \in F : Cardinality({m \in F : m <= n}) \in 1 .. Cardinality(F)
  <2>1. \A n \in F : Cardinality({m \in F : f[m] <= f[n]}) \in 1 .. Cardinality(F)
    BY <1>3, <1>5, RankBounds
  <2> QED
    BY <1>5, <2>1
<1>7. \A m, n \in F : m < n => Cardinality({k \in F : k <= m}) < Cardinality({k \in F : k <= n})
  <2>1. \A m, n \in F : f[m] < f[n] => Cardinality({k \in F : f[k] <= f[m]}) < Cardinality({k \in F : f[k] <= f[n]})
    BY <1>3, <1>5, RankGrows
  <2> QED
    BY <1>5, <2>1
<1>8. \A n \in DOMAIN Drafts(a) :
        WrittenAs(a, n) = IF n \in F THEN made + Cardinality({m \in F : m <= n}) ELSE Drafts(a)[n].id
  BY DEF WrittenAs, F
<1>9. \A n \in DOMAIN Drafts(a) : n \in F => WrittenAs(a, n) \in made + 1 .. made + Cardinality(F)
  <2>1. \A k, c \in Nat : k \in 1 .. c => made + k \in made + 1 .. made + c
    BY <1>4
  <2>2. \A n \in F : Cardinality({m \in F : m <= n}) \in Nat
    BY <1>3, <1>6
  <2> QED
    BY <1>3, <1>6, <1>8, <2>1, <2>2
<1>10. \A n \in DOMAIN Drafts(a) : n \notin F =>
         /\ WrittenAs(a, n) = Drafts(a)[n].id
         /\ WrittenAs(a, n) \in TermsOf(request[a].on) /\ WrittenAs(a, n) \in 1 .. made
  BY <1>1, <1>2, <1>4, <1>8
<1>11. ASSUME NEW m \in DOMAIN Drafts(a), NEW n \in DOMAIN Drafts(a), m # n
       PROVE  WrittenAs(a, m) # WrittenAs(a, n)
  <2>1. CASE m \in F /\ n \in F
    <3>1. m < n \/ n < m
      BY <1>1, <1>11
    <3>2. /\ Cardinality({k \in F : k <= m}) \in Nat /\ Cardinality({k \in F : k <= n}) \in Nat
      BY <1>3, <1>6, <2>1
    <3>3. Cardinality({k \in F : k <= m}) # Cardinality({k \in F : k <= n})
      BY <1>7, <2>1, <3>1, <3>2
    <3> QED
      BY <1>4, <1>8, <2>1, <3>2, <3>3
  <2>2. CASE m \in F /\ n \notin F
    BY <1>3, <1>4, <1>9, <1>10, <2>2
  <2>3. CASE m \notin F /\ n \in F
    BY <1>3, <1>4, <1>9, <1>10, <2>3
  <2>4. CASE m \notin F /\ n \notin F
    BY <1>1, <1>2, <1>10, <1>11, <2>4 DEF NamedOnce
  <2> QED
    BY <2>1, <2>2, <2>3, <2>4
<1> QED
  BY <1>3, <1>4, <1>9, <1>10, <1>11 DEF F

(* What the Terms are once the change is written: those drafted, as they   *)
(* are drafted; no other of its year; and every Term of another year as is. *)
LEMMA WrittenFacts ==
  ASSUME IInv, NEW a \in Administrators, Is(a, "change", {"checked"})
  PROVE  /\ \A n \in DOMAIN Drafts(a) :
              /\ [year |-> request[a].on, first |-> Drafts(a)[n].first, last |-> Drafts(a)[n].last] \in Term
              /\ WrittenAs(a, n) \in TermIds =>
                   Written(a)[WrittenAs(a, n)]
                     = [year |-> request[a].on, first |-> Drafts(a)[n].first, last |-> Drafts(a)[n].last]
         /\ \A i \in TermIds : (\A n \in DOMAIN Drafts(a) : WrittenAs(a, n) # i) =>
              /\ Written(a)[i] = IF i \in LeftOut(a) THEN None ELSE terms[i]
              /\ request[a].drafts # None /\ Written(a)[i] # None => terms[i].year # request[a].on
         /\ \A i \in TermIds : terms[i] # None /\ terms[i].year # request[a].on => Written(a)[i] = terms[i]
         /\ Written(a) \in [TermIds -> Term \cup {None}]
<1> DEFINE D == Drafts(a)
           W(n) == WrittenAs(a, n)
           y == request[a].on
           t(n) == [year |-> y, first |-> D[n].first, last |-> D[n].last]
           of(i) == {n \in DOMAIN D : W(n) = i}
<1>1. /\ y \in Years /\ DraftsSound(D) /\ LeftOut(a) \subseteq TermsOf(y) /\ TermsOf(y) \subseteq TermIds
      /\ IF request[a].drafts = None THEN D = <<>> /\ LeftOut(a) = {}
         ELSE \A i \in TermsOf(y) : i \in LeftOut(a) \/ \E n \in DOMAIN D : D[n].id = i
      /\ \A n \in DOMAIN D : D[n].id # None => D[n].id \in TermsOf(y)
  BY ChangeFacts
<1>2. /\ \A m, n \in DOMAIN D : m # n => W(m) # W(n)
      /\ \A n \in DOMAIN D : IF n \in Fresh(a) THEN W(n) \in made + 1 .. made + Cardinality(Fresh(a))
                             ELSE W(n) = D[n].id /\ W(n) \in TermsOf(y)
      /\ made \in Nat /\ Cardinality(Fresh(a)) \in Nat
  BY WrittenAsOne
<1>3. /\ terms \in [TermIds -> Term \cup {None}] /\ \A i \in TermIds : terms[i] # None => i <= made
      /\ None \notin Term
  BY StructureAssumption DEF IInv, TypeOK, Planned
<1>4. Written(a) = [i \in TermIds |-> IF of(i) # {} THEN t(CHOOSE n \in of(i) : TRUE)
                                      ELSE IF i \in LeftOut(a) THEN None ELSE terms[i]]
  BY DEF Written
<1>5. \A n \in DOMAIN D : t(n) \in Term
  <2>1. \A n \in DOMAIN D : D[n].first \in Dates /\ D[n].last \in D[n].first .. LastDate
    BY <1>1 DEF DraftsSound
  <2>2. \A p \in Dates : \A q \in p .. LastDate : q \in Dates /\ p <= q
    BY StructureAssumption DEF Dates
  <2> HIDE DEF D, y
  <2>3. \A n \in DOMAIN D : D[n].last \in Dates /\ D[n].first <= D[n].last
    BY <2>1, <2>2
  <2> QED
    BY <1>1, <2>1, <2>3 DEF Term
<1> HIDE DEF D, W, y, t
<1>6. ASSUME NEW n \in DOMAIN D, W(n) \in TermIds
      PROVE  Written(a)[W(n)] = t(n)
  <2>1. of(W(n)) = {n}
    BY <1>2
  <2> QED
    BY <1>4, <1>6, <2>1
<1>7. ASSUME NEW i \in TermIds, \A n \in DOMAIN D : W(n) # i
      PROVE  Written(a)[i] = IF i \in LeftOut(a) THEN None ELSE terms[i]
  <2>1. of(i) = {}
    BY <1>7
  <2> QED
    BY <1>4, <2>1
<1>8. ASSUME NEW i \in TermIds, \A n \in DOMAIN D : W(n) # i, request[a].drafts # None, Written(a)[i] # None,
             terms[i].year = y
      PROVE  FALSE
  <2>1. i \notin LeftOut(a) /\ terms[i] # None
    BY <1>7, <1>8
  <2>2. i \in TermsOf(y)
    BY <1>8, <2>1 DEF TermsOf, TermsIn
  <2>3. PICK n \in DOMAIN D : D[n].id = i
    BY <1>1, <1>8, <2>1, <2>2
  <2>4. n \notin Fresh(a)
    <3>1. i # None
      BY <2>2, ChangeFacts
    <3> QED
      BY <2>3, <3>1 DEF Fresh, D
  <2> QED
    BY <1>2, <1>8, <2>3, <2>4
<1>9. ASSUME NEW i \in TermIds, terms[i] # None, terms[i].year # y
      PROVE  Written(a)[i] = terms[i]
  <2>1. i \notin TermsOf(y) /\ i <= made
    BY <1>3, <1>9 DEF TermsOf, TermsIn
  <2>2. ASSUME NEW n \in DOMAIN D
        PROVE  W(n) # i
    <3>1. i \in Nat
      BY StructureAssumption DEF TermIds
    <3>2. n \in Fresh(a) => W(n) > made
      BY <1>2
    <3>3. n \notin Fresh(a) => W(n) \in TermsOf(y)
      BY <1>2
    <3> QED
      BY <1>2, <2>1, <3>1, <3>2, <3>3
  <2> QED
    BY <1>1, <1>7, <2>1, <2>2
<1>10. Written(a) \in [TermIds -> Term \cup {None}]
  <2>1. ASSUME NEW i \in TermIds
        PROVE  Written(a)[i] \in Term \cup {None}
    BY <1>3, <1>5, <1>6, <1>7
  <2> QED
    BY <1>4, <2>1
<1> QED
  BY <1>5, <1>6, <1>7, <1>8, <1>9, <1>10 DEF D, W, y, t

(* No two Terms of one year share a date once the change is written.       *)
LEMMA WrittenApart ==
  ASSUME IInv, NEW a \in Administrators, Is(a, "change", {"checked"}),
         NEW i \in TermIds, NEW j \in TermIds, i # j,
         Written(a)[i] # None, Written(a)[j] # None, Written(a)[i].year = Written(a)[j].year
  PROVE  ~Overlap(Written(a)[i], Written(a)[j])
<1> DEFINE y == request[a].on
           D == Drafts(a)
           Drafted(k) == \E n \in DOMAIN D : WrittenAs(a, n) = k
<1>1. /\ y \in Years /\ years[y] # None
      /\ Covers(request[a].to, IF request[a].drafts = None THEN Division(y) ELSE D)
      /\ request[a].drafts = None => D = <<>>
      /\ SoundPlan(years, terms, exceptions) /\ terms \in [TermIds -> Term \cup {None}]
  BY ChangeFacts DEF IInv, Planned, EveryDateInOneTerm, TypeOK
<1>2. \A z \in Years : \A k, l \in TermsIn(terms, z) : k # l => ~Overlap(terms[k], terms[l])
  <2>1. ASSUME NEW z \in Years, NEW k \in TermsIn(terms, z), NEW l \in TermsIn(terms, z), k # l
        PROVE  ~Overlap(terms[k], terms[l])
    <3> DEFINE d == [m \in TermsIn(terms, z) |-> terms[m]]
    <3>1. Covers(years[z], d) /\ DOMAIN d = TermsIn(terms, z) /\ d[k] = terms[k] /\ d[l] = terms[l]
      BY <1>1, <2>1 DEF SoundPlan
    <3> HIDE DEF d
    <3> QED
      BY <2>1, <3>1 DEF Covers
  <2> QED
    BY <2>1
<1>3. ASSUME NEW k \in TermIds, Written(a)[k] # None, ~Drafted(k)
      PROVE  Written(a)[k] = terms[k] /\ terms[k] \in Term /\ k \in TermsIn(terms, terms[k].year)
             /\ (request[a].drafts # None => terms[k].year # y)
  <2>1. Written(a)[k] = terms[k] /\ (request[a].drafts # None => terms[k].year # y)
    BY <1>3, WrittenFacts
  <2> QED
    BY <1>1, <1>3, <2>1 DEF TermsIn
<1>4. ASSUME NEW k \in TermIds, Drafted(k)
      PROVE  request[a].drafts # None /\ Written(a)[k].year = y /\
             \E n \in DOMAIN D :
               WrittenAs(a, n) = k /\ Written(a)[k].first = D[n].first /\ Written(a)[k].last = D[n].last
  <2>1. PICK n \in DOMAIN D : WrittenAs(a, n) = k
    BY <1>4
  <2>2. Written(a)[k] = [year |-> y, first |-> D[n].first, last |-> D[n].last]
    BY <2>1, WrittenFacts
  <2>3. request[a].drafts # None
    BY <1>1, <2>1
  <2> HIDE DEF D
  <2> QED
    BY <2>1, <2>2, <2>3
<1>5. CASE ~Drafted(i) /\ ~Drafted(j)
  <2>1. terms[i].year = terms[j].year /\ terms[i].year \in Years
    BY <1>3, <1>5 DEF Term
  <2> QED
    BY <1>2, <1>3, <1>5, <2>1
<1>6. CASE Drafted(i) /\ ~Drafted(j)
  BY <1>3, <1>4, <1>6
<1>7. CASE ~Drafted(i) /\ Drafted(j)
  BY <1>3, <1>4, <1>7
<1>8. CASE Drafted(i) /\ Drafted(j)
  <2>1. PICK m \in DOMAIN D : WrittenAs(a, m) = i /\ Written(a)[i].first = D[m].first /\ Written(a)[i].last = D[m].last
    BY <1>4, <1>8
  <2>2. PICK n \in DOMAIN D : WrittenAs(a, n) = j /\ Written(a)[j].first = D[n].first /\ Written(a)[j].last = D[n].last
    BY <1>4, <1>8
  <2>3. m # n /\ request[a].drafts # None
    BY <1>4, <1>8, <2>1, <2>2
  <2>4. ~Overlap(D[m], D[n])
    BY <1>1, <2>3 DEF Covers
  <2> QED
    BY <2>1, <2>2, <2>4 DEF Overlap
<1> QED
  BY <1>5, <1>6, <1>7, <1>8

(* The Terms of the changed year cover the bounds it is given.             *)
LEMMA WrittenCovers ==
  ASSUME IInv, NEW a \in Administrators, Is(a, "change", {"checked"}),
         made + Cardinality(Fresh(a)) <= MaxTerms
  PROVE  /\ Covers(request[a].to, [i \in TermsIn(Written(a), request[a].on) |-> Written(a)[i]])
         /\ \A i \in TermIds : Written(a)[i] # None => i <= made + Cardinality(Fresh(a))
<1> DEFINE y == request[a].on
           D == Drafts(a)
           w == Written(a)
           e == [i \in TermsIn(w, y) |-> w[i]]
           f == [n \in DOMAIN D |-> WrittenAs(a, n)]
<1>1. /\ y \in Years /\ LeftOut(a) \subseteq TermsOf(y) /\ TermsOf(y) \subseteq TermIds
      /\ Covers(request[a].to, IF request[a].drafts = None THEN Division(y) ELSE D)
      /\ request[a].drafts = None => D = <<>> /\ LeftOut(a) = {}
  BY ChangeFacts
<1>2. /\ terms \in [TermIds -> Term \cup {None}] /\ w \in [TermIds -> Term \cup {None}]
      /\ made \in Nat /\ Cardinality(Fresh(a)) \in Nat /\ MaxTerms \in Nat
      /\ \A i \in TermIds : terms[i] # None => i <= made
  BY WrittenFacts, WrittenAsOne, StructureAssumption DEF IInv, TypeOK, Planned
<1>3. \A n \in DOMAIN D : f[n] \in TermIds /\ f[n] <= made + Cardinality(Fresh(a))
  <2>1. ASSUME NEW n \in DOMAIN D
        PROVE  WrittenAs(a, n) \in TermIds /\ WrittenAs(a, n) <= made + Cardinality(Fresh(a))
    <3>1. CASE n \in Fresh(a)
      <4>1. WrittenAs(a, n) \in made + 1 .. made + Cardinality(Fresh(a))
        BY <3>1, WrittenAsOne
      <4> QED
        BY <1>2, <4>1 DEF TermIds
    <3>2. CASE n \notin Fresh(a)
      <4>1. WrittenAs(a, n) \in TermsOf(y) /\ WrittenAs(a, n) \in 1 .. made
        BY <3>2, WrittenAsOne
      <4> QED
        BY <1>1, <1>2, <4>1
    <3> QED
      BY <3>1, <3>2
  <2> QED
    BY <2>1
<1>4. \A n \in DOMAIN D : /\ w[f[n]].year = y /\ w[f[n]].first = D[n].first /\ w[f[n]].last = D[n].last
                            /\ w[f[n]] # None
  <2>1. \A n \in DOMAIN D :
          /\ [year |-> y, first |-> D[n].first, last |-> D[n].last] \in Term
          /\ WrittenAs(a, n) \in TermIds =>
               w[WrittenAs(a, n)] = [year |-> y, first |-> D[n].first, last |-> D[n].last]
    BY WrittenFacts
  <2>2. None \notin Term
    BY StructureAssumption
  <2>3. \A n \in DOMAIN D : w[f[n]] = [year |-> y, first |-> D[n].first, last |-> D[n].last] /\ w[f[n]] # None
    BY <1>3, <2>1, <2>2
  <2>4. ASSUME NEW n \in DOMAIN D
        PROVE  /\ w[f[n]].year = y /\ w[f[n]].first = D[n].first /\ w[f[n]].last = D[n].last
               /\ w[f[n]] # None
    <3> DEFINE v == w[f[n]]
    <3>1. v = [year |-> y, first |-> D[n].first, last |-> D[n].last] /\ v # None
      BY <2>3
    <3> HIDE DEF v
    <3> QED
      BY <3>1 DEF v
  <2> HIDE DEF w, f, D
  <2> QED
    BY <2>4
<1>5. \A i \in TermIds : w[i] # None /\ (\A n \in DOMAIN D : f[n] # i) =>
        w[i] = terms[i] /\ (request[a].drafts # None => w[i].year # y)
  <2>1. \A i \in TermIds : (\A n \in DOMAIN D : WrittenAs(a, n) # i) =>
          /\ w[i] = IF i \in LeftOut(a) THEN None ELSE terms[i]
          /\ request[a].drafts # None /\ w[i] # None => terms[i].year # y
    BY WrittenFacts
  <2>2. \A n \in DOMAIN D : f[n] = WrittenAs(a, n)
    OBVIOUS
  <2> HIDE DEF f, D
  <2> QED
    BY <2>1, <2>2
<1>6. request[a].drafts = None => w = terms
  <2>1. ASSUME request[a].drafts = None, NEW i \in TermIds
        PROVE  w[i] = terms[i]
    <3>1. D = <<>> /\ i \notin LeftOut(a)
      BY <1>1, <2>1
    <3>2. \A n \in DOMAIN D : WrittenAs(a, n) # i
      BY <3>1
    <3> QED
      BY <3>1, <3>2, WrittenFacts
  <2> HIDE DEF w
  <2> QED
    BY <1>2, <2>1
<1> HIDE DEF w, D, f
<1>7. ASSUME request[a].drafts = None
      PROVE  Covers(request[a].to, e)
  BY <1>1, <1>6, <1>7 DEF Division, TermsOf
<1>8. ASSUME request[a].drafts # None
      PROVE  Covers(request[a].to, e)
  <2>1. DOMAIN e = TermsIn(w, y) /\ \A i \in TermsIn(w, y) : e[i] = w[i]
    OBVIOUS
  <2>2. \A n \in DOMAIN D : f[n] \in TermsIn(w, y)
    BY <1>3, <1>4 DEF TermsIn
  <2>3. \A n \in DOMAIN D : f[n] \in DOMAIN e /\ e[f[n]].first = D[n].first /\ e[f[n]].last = D[n].last
    BY <1>4, <2>1, <2>2
  <2>4. \A i \in DOMAIN e : \E n \in DOMAIN D : f[n] = i
    BY <1>5, <1>8, <2>1 DEF TermsIn
  <2>5. Covers(request[a].to, D)
    BY <1>1, <1>8
  <2> HIDE DEF e
  <2> QED
    BY <2>3, <2>4, <2>5, CoversRenamed
<1>9. Covers(request[a].to, e)
  BY <1>7, <1>8
<1>10. ASSUME NEW i \in TermIds, w[i] # None
       PROVE  i <= made + Cardinality(Fresh(a))
  <2>1. CASE \E n \in DOMAIN D : f[n] = i
    BY <1>3, <2>1
  <2>2. CASE \A n \in DOMAIN D : f[n] # i
    <3>1. i <= made /\ i \in Nat
      BY <1>2, <1>5, <1>10, <2>2 DEF TermIds
    <3> QED
      BY <1>2, <3>1
  <2> QED
    BY <2>1, <2>2
<1> QED
  BY <1>9, <1>10 DEF w

(* A year's change, committed, leaves every date where it should be.       *)
LEMMA CommitChangeKeeps ==
  ASSUME IInv, NEW a \in Administrators, CommitChange(a)
  PROVE  IInv'
<1> DEFINE y == request[a].on
           to == request[a].to
           w == Written(a)
<1>1. /\ Is(a, "change", {"checked"}) /\ request[a].doomed = {} /\ made + Cardinality(Fresh(a)) <= MaxTerms
      /\ years' = [years EXCEPT ![y] = to] /\ terms' = w /\ made' = made + Cardinality(Fresh(a)) /\ Ends(a, FALSE)
      /\ UNCHANGED <<school, exceptions, courses, offerings>>
  BY DEF CommitChange, Ready, Is
<1>2. /\ y \in Years /\ to \in Bounds /\ years[y] # None /\ HoldsYear(a) /\ SetAgainstOthers(a)
      /\ None \notin Bounds
  BY <1>1, ChangeFacts, StructureAssumption
<1>3. TypeOK /\ MeetsNone(a) /\ \A e \in ExceptionsOf(y) : Within(to, e.date)
  BY <1>1, ChangeFacts DEF IInv
<1>4. /\ Covers(to, [i \in TermsIn(w, y) |-> w[i]]) /\ w \in [TermIds -> Term \cup {None}]
      /\ \A i \in TermIds : w[i] # None => i <= made + Cardinality(Fresh(a))
      /\ \A i \in TermIds : terms[i] # None /\ terms[i].year # y => w[i] = terms[i]
      /\ made \in Nat /\ Cardinality(Fresh(a)) \in Nat
  BY <1>1, WrittenCovers, WrittenFacts, WrittenAsOne
<1>5. \A i \in TermIds : w[i] # None => w[i].year = y \/ w[i] = terms[i]
  <2>1. ASSUME NEW i \in TermIds, w[i] # None
        PROVE  w[i].year = y \/ w[i] = terms[i]
    <3>1. CASE \E n \in DOMAIN Drafts(a) : WrittenAs(a, n) = i
      <4>1. PICK n \in DOMAIN Drafts(a) : WrittenAs(a, n) = i
        BY <3>1
      <4>2. w[i] = [year |-> y, first |-> Drafts(a)[n].first, last |-> Drafts(a)[n].last]
        BY <1>1, <4>1, WrittenFacts
      <4> HIDE DEF w
      <4> QED
        BY <4>2
    <3>2. CASE \A n \in DOMAIN Drafts(a) : WrittenAs(a, n) # i
      <4>1. w[i] = IF i \in LeftOut(a) THEN None ELSE terms[i]
        BY <1>1, <3>2, WrittenFacts
      <4> HIDE DEF w
      <4> QED
        BY <2>1, <4>1
    <3> QED
      BY <3>1, <3>2
  <2> QED
    BY <2>1
<1> HIDE DEF w, y, to
<1>6. years'[y] = to /\ \A z \in Years \ {y} : years'[z] = years[z]
  BY <1>1, <1>2, <1>3 DEF TypeOK
<1>7. \A z \in Years \ {y} : TermsIn(w, z) = TermsIn(terms, z) /\ \A i \in TermsIn(terms, z) : w[i] = terms[i]
  BY <1>4, <1>5 DEF TermsIn
<1>8. \A z \in Years \ {y} : [i \in TermsIn(w, z) |-> w[i]] = [i \in TermsIn(terms, z) |-> terms[i]]
  BY <1>7
<1>9. SoundPlan(years', w, exceptions)
  <2>1. SoundPlan(years, terms, exceptions)
    BY DEF IInv, Planned, EveryDateInOneTerm
  <2>2. \A z \in Years \ {y} : years[z] # None => ~Overlap(years[z], to) /\ ~Overlap(to, years[z])
    BY <1>2, <1>3 DEF MeetsNone, Overlap, y, to
  <2>3. \A z, u \in Years : z # u /\ years'[z] # None /\ years'[u] # None => ~Overlap(years'[z], years'[u])
    <3>1. \A z, u \in Years \ {y} : z # u /\ years'[z] # None /\ years'[u] # None => ~Overlap(years'[z], years'[u])
      BY <1>6, <2>1 DEF SoundPlan
    <3> QED
      BY <1>6, <2>2, <3>1
  <2>4. \A z \in Years \ {y} :
          IF years'[z] = None THEN TermsIn(w, z) = {} /\ DatesIn(exceptions, z) = {}
          ELSE /\ Covers(years'[z], [i \in TermsIn(w, z) |-> w[i]])
               /\ \A e \in DatesIn(exceptions, z) : Within(years'[z], e.date)
    <3>1. ASSUME NEW z \in Years \ {y}
          PROVE  IF years'[z] = None THEN TermsIn(w, z) = {} /\ DatesIn(exceptions, z) = {}
                 ELSE /\ Covers(years'[z], [i \in TermsIn(w, z) |-> w[i]])
                      /\ \A e \in DatesIn(exceptions, z) : Within(years'[z], e.date)
      <4>1. IF years[z] = None THEN TermsIn(terms, z) = {} /\ DatesIn(exceptions, z) = {}
            ELSE /\ Covers(years[z], [i \in TermsIn(terms, z) |-> terms[i]])
                 /\ \A e \in DatesIn(exceptions, z) : Within(years[z], e.date)
        BY <2>1 DEF SoundPlan
      <4>2. /\ years'[z] = years[z] /\ TermsIn(w, z) = TermsIn(terms, z)
            /\ [i \in TermsIn(w, z) |-> w[i]] = [i \in TermsIn(terms, z) |-> terms[i]]
        BY <1>6, <1>7, <1>8
      <4> QED
        BY <4>1, <4>2
    <3> QED
      BY <3>1
  <2>5. years'[y] # None /\ \A e \in DatesIn(exceptions, y) : Within(years'[y], e.date)
    BY <1>2, <1>6, <1>3 DEF ExceptionsOf
  <2>6. Covers(years'[y], [i \in TermsIn(w, y) |-> w[i]])
    BY <1>4, <1>6
  <2> QED
    BY <1>2, <2>3, <2>4, <2>5, <2>6 DEF SoundPlan
<1>10. Planned'
  BY <1>1, <1>4, <1>9 DEF Planned, EveryDateInOneTerm
<1>11. ASSUME NEW b \in Others(a)
       PROVE  /\ SetAgainstOthers(b) =>
                   \A z \in Years \ {request[b].on} : years'[z] # None => ~Overlap(years'[z], request[b].to)
              /\ request[b].kind = "create" => years'[request[b].on] = None
              /\ HoldsYear(b) =>
                   /\ years'[request[b].on] = years[request[b].on]
                   /\ TermsOf(request[b].on)' = TermsOf(request[b].on)
                   /\ \A i \in TermsOf(request[b].on) : terms'[i] = terms[i]
                   /\ ExceptionsOf(request[b].on)' = ExceptionsOf(request[b].on)
              /\ Is(b, "offer", {"locked", "held"}) => request[b].on \in courses'
              /\ Is(b, "offer", {"held"}) => terms'[request[b].to] # None
  <2>1. /\ b \in Administrators /\ b # a /\ Apart(a, b) /\ ReadStands(b) /\ RequestTyped(request[b])
        /\ HoldsYear(b) => request[b].on \in Years /\ years[request[b].on] # None
        /\ request[b].kind = "create" => request[b].on \in Years /\ years[request[b].on] = None
        /\ SetAgainstOthers(b) =>
             \A z \in Years \ {request[b].on} : years[z] # None => ~Overlap(years[z], request[b].to)
        /\ SetAgainstOthers(b) => ~Overlap(to, request[b].to)
    BY <1>2, Bystanders DEF to
  <2>2. request'[b] = request[b]
    BY <1>1, <1>3, <2>1 DEF Ends, TypeOK
  <2>3. HoldsYear(b) => request[b].on \in Years \ {y}
    BY <1>2, <2>1 DEF Apart, y
  <2>4. request[b].kind = "create" => request[b].on # y
    BY <1>2, <2>1
  <2>5. SetAgainstOthers(b) =>
          \A z \in Years \ {request[b].on} : years'[z] # None => ~Overlap(years'[z], request[b].to)
    BY <1>6, <2>1
  <2>6. HoldsYear(b) =>
          /\ TermsOf(request[b].on)' = TermsOf(request[b].on)
          /\ \A i \in TermsOf(request[b].on) : terms'[i] = terms[i]
          /\ ExceptionsOf(request[b].on)' = ExceptionsOf(request[b].on)
    BY <1>1, <1>7, <2>2, <2>3 DEF TermsOf, ExceptionsOf
  <2>7. ASSUME Is(b, "offer", {"held"})
        PROVE  terms'[request[b].to] # None
    <3>1. request[b].to \in TermIds /\ terms[request[b].to] # None /\ request[b].to \notin LeftOut(a)
      BY <1>1, <2>1, <2>7 DEF ReadStands, RequestTyped, Stands, Is
    <3> DEFINE i == request[b].to
    <3>2. CASE \E n \in DOMAIN Drafts(a) : WrittenAs(a, n) = i
      <4>1. PICK n \in DOMAIN Drafts(a) : WrittenAs(a, n) = i
        BY <3>2
      <4>2. w[i] \in Term
        <5>1. /\ [year |-> y, first |-> Drafts(a)[n].first, last |-> Drafts(a)[n].last] \in Term
              /\ WrittenAs(a, n) \in TermIds =>
                   Written(a)[WrittenAs(a, n)] = [year |-> y, first |-> Drafts(a)[n].first, last |-> Drafts(a)[n].last]
          BY <1>1, WrittenFacts DEF y
        <5> QED
          BY <3>1, <4>1, <5>1 DEF w
      <4> QED
        BY <1>1, <4>2, StructureAssumption
    <3>3. CASE \A n \in DOMAIN Drafts(a) : WrittenAs(a, n) # i
      <4>1. w[i] = terms[i]
        BY <1>1, <3>1, <3>3, WrittenFacts DEF w
      <4> QED
        BY <1>1, <3>1, <4>1
    <3> QED
      BY <3>2, <3>3
  <2> QED
    BY <1>1, <1>6, <2>1, <2>3, <2>4, <2>5, <2>6, <2>7 DEF ReadStands
<1>12. /\ years' \in [Years -> Bounds \cup {None}] /\ made' \in 0 .. MaxTerms
       /\ terms' \in [TermIds -> Term \cup {None}]
  BY <1>1, <1>2, <1>4, <1>3, StructureAssumption DEF TypeOK
<1> QED
  BY <1>1, <1>10, <1>11, <1>12, <1>3, CommittedKeeps DEF TypeOK

-----------------------------------------------------------------------------
(* A School starts soundly planned, with nothing asked and no editor open. *)
LEMMA InitSound == Init => IInv
<1> SUFFICES ASSUME Init PROVE IInv
  OBVIOUS
<1>1. PICK s \in Situations :
        /\ years = s.years /\ terms = s.terms /\ made = s.made
        /\ exceptions = s.exceptions /\ courses = s.courses /\ offerings = s.offerings
        /\ \E z \in Timezones : school = [timezone |-> z, fixed |-> \E y \in Years : s.years[y] # None]
  BY DEF Init
<1>2. /\ request = [a \in Administrators |-> Idle] /\ sent = 0
      /\ editor = [a \in Administrators |-> None]
  BY DEF Init
<1>3. /\ years \in [Years -> Bounds \cup {None}] /\ terms \in [TermIds -> Term \cup {None}]
      /\ made \in 0 .. MaxTerms /\ \A i \in TermIds : terms[i] # None => i <= made
      /\ exceptions \subseteq [year : Years, date : Dates]
      /\ courses \subseteq Courses /\ offerings \subseteq [course : Courses, term : TermIds]
      /\ SoundPlan(years, terms, exceptions)
  BY <1>1, SituationsAssumption
<1>4. school \in [timezone : Timezones, fixed : BOOLEAN]
  <2>1. (\E y \in Years : years[y] # None) \in BOOLEAN
    OBVIOUS
  <2>2. PICK z \in Timezones : school = [timezone |-> z, fixed |-> \E y \in Years : years[y] # None]
    BY <1>1
  <2> QED
    BY <2>1, <2>2
<1>5. sent \in 0 .. MaxRequests
  BY <1>2, StructureAssumption
<1>6. \A a \in Administrators : request[a] = Idle /\ RequestTyped(request[a])
  BY <1>2, IdleTyped
<1>7. TypeOK /\ Planned
  BY <1>2, <1>3, <1>4, <1>5, <1>6 DEF TypeOK, Planned, EveryDateInOneTerm
<1>8. \A a \in Administrators : request[a].kind = None /\ request[a].drafts = None
  BY <1>6 DEF Idle
<1>9. None \notin Kinds
  BY StructureAssumption
<1>10. \A a, b \in Administrators : a # b => Apart(a, b)
  BY <1>8, <1>9 DEF Apart, HoldsYear, HoldsCourse, SchoolLockers, SchoolSharers, Is, YearKinds, Kinds
<1>11. \A a \in Administrators : MeetsNone(a) /\ ReadStands(a)
  BY <1>8, <1>9 DEF MeetsNone, SetAgainstOthers, ReadStands, HoldsYear, SchoolLockers, Is, YearKinds, Kinds
<1>12. \A a \in Administrators : editor[a] = None
  BY <1>2
<1> QED
  BY <1>7, <1>10, <1>11, <1>12 DEF IInv

(* Every step keeps it.                                                    *)
LEMMA NextSound == IInv /\ [Next]_vars => IInv'
<1> SUFFICES ASSUME IInv, [Next]_vars PROVE IInv'
  OBVIOUS
<1>1. CASE UNCHANGED vars
  <2>1. UNCHANGED <<rows, request, sent>> /\ editor' = editor
    BY <1>1 DEF vars
  <2>2. editor' \in [Administrators -> Editor \cup {None}]
        /\ \A b \in Administrators : editor'[b] # None => EditorSound(editor'[b])
    BY <2>1 DEF IInv, TypeOK
  <2> QED
    BY <2>1, <2>2, EditorMoved
<1>2. ASSUME NEW a \in Administrators,
             \/ Ask(a)
             \/ InsertYear(a) \/ CheckYear(a) \/ FixTimezone(a) \/ CommitCreation(a)
             \/ LockYear(a) \/ DeleteTerm(a) \/ Stranded(a) \/ CommitChange(a)
             \/ LockToDelete(a) \/ CommitDeletion(a) \/ LockToExcept(a) \/ CommitException(a)
             \/ LockSchool(a) \/ CommitTimezone(a)
             \/ CommitCourse(a) \/ LockRecord(a) \/ HoldTerm(a) \/ CommitOffering(a)
             \/ CommitUncourse(a) \/ CommitUnoffer(a)
             \/ EndDeadlock(a)
             \/ Edit(a) \/ Save(a) \/ Cancel(a) \/ \E y \in Years : OpenEditor(a, y)
      PROVE  IInv'
  <2>1. CASE Ask(a)
    BY <2>1, AskKeeps
  <2>2. CASE InsertYear(a) \/ CheckYear(a) \/ FixTimezone(a) \/ CommitCreation(a)
    BY <2>2, InsertYearKeeps, CheckYearKeeps, FixTimezoneKeeps, CommitCreationKeeps
  <2>3. CASE LockYear(a) \/ DeleteTerm(a) \/ CommitChange(a)
    BY <2>3, LockYearKeeps, DeleteTermKeeps, CommitChangeKeeps
  <2>4. CASE Stranded(a) \/ EndDeadlock(a)
    <3>1. Refused(a, TRUE) \/ Refused(a, FALSE)
      BY <2>4 DEF Stranded, EndDeadlock
    <3> QED
      BY <3>1, RefusedKeeps
  <2>5. CASE LockToDelete(a) \/ CommitDeletion(a) \/ LockToExcept(a) \/ CommitException(a)
    BY <2>5, LockToDeleteKeeps, CommitDeletionKeeps, LockToExceptKeeps, CommitExceptionKeeps
  <2>6. CASE LockSchool(a) \/ LockRecord(a) \/ HoldTerm(a)
    BY <2>6, LockSchoolKeeps, LockRecordKeeps, HoldTermKeeps
  <2>7. CASE CommitTimezone(a) \/ CommitCourse(a) \/ CommitOffering(a) \/ CommitUncourse(a) \/ CommitUnoffer(a)
    BY <2>7, CommitAsideKeeps
  <2>8. CASE Edit(a) \/ Cancel(a) \/ \E y \in Years : OpenEditor(a, y)
    BY <2>8, EditingKeeps
  <2>9. CASE Save(a)
    BY <2>9, SaveKeeps
  <2> QED
    BY <1>2, <2>1, <2>2, <2>3, <2>4, <2>5, <2>6, <2>7, <2>8, <2>9
<1> QED
  BY <1>1, <1>2 DEF Next

(* The inductive invariant: what each request under way read still stands, *)
(* by the rows it holds, and what each writes meets no other's.            *)
THEOREM StructureInvariance == Spec => []IInv
BY InitSound, NextSound, PTL DEF Spec

(* Years, Terms, requests and editors stay what they are declared to be.   *)
THEOREM StructureTypes == Spec => []TypeOK
<1>1. IInv => TypeOK
  BY DEF IInv
<1> QED
  BY <1>1, StructureInvariance, PTL

(* Whoever else moves a year's bounds, its Terms or an exception, every    *)
(* School date of a divided year falls in exactly one Term, every exception *)
(* in its year, and no two years share a date: academic-years.ts.          *)
THEOREM DatesInOneTerm == Spec => []EveryDateInOneTerm
<1>1. IInv => EveryDateInOneTerm
  BY DEF IInv, Planned
<1> QED
  BY <1>1, StructureInvariance, PTL

(* A change about to be committed meets no constraint on what it writes.   *)
LEMMA ConstraintsKept ==
  ASSUME IInv, NEW a \in Administrators, Is(a, "change", {"checked"})
  PROVE  KeepsConstraints(a)
<1>1. /\ years[request[a].on] # None
      /\ \A n \in DOMAIN Drafts(a) : Drafts(a)[n].id # None => Drafts(a)[n].id \in TermsOf(request[a].on)
  BY ChangeFacts
<1>2. \A n \in DOMAIN Drafts(a) : Drafts(a)[n].id # None => terms[Drafts(a)[n].id] # None
  BY <1>1 DEF TermsOf, TermsIn
<1>3. \A i, j \in TermIds :
        (i # j /\ Written(a)[i] # None /\ Written(a)[j] # None /\ Written(a)[i].year = Written(a)[j].year)
          => ~Overlap(Written(a)[i], Written(a)[j])
  BY WrittenApart
<1> QED
  BY <1>1, <1>2, <1>3 DEF KeepsConstraints

(* Two years' dates are apart, so that an exception of another year is not *)
(* on the date one is put on.                                              *)
LEMMA NoExceptionTwice ==
  ASSUME IInv, NEW a \in Administrators, Is(a, "except", {"checked"})
  PROVE  years[request[a].on] # None /\ \A e \in exceptions : e.date # request[a].to
<1> DEFINE x == request[a].on
<1>1. /\ HoldsYear(a) /\ x \in Years /\ request[a].to \in Dates /\ years[x] # None /\ Within(years[x], request[a].to)
      /\ \A e \in ExceptionsOf(x) : e.date # request[a].to
  BY DEF IInv, ReadStands, TypeOK, RequestTyped, Stands, HoldsYear, Is, YearKinds
<1>2. ASSUME NEW e \in exceptions, e.date = request[a].to
      PROVE  FALSE
  <2>1. e.year \in Years /\ e \in DatesIn(exceptions, e.year)
    BY DEF IInv, TypeOK, DatesIn
  <2>2. e.year # x
    BY <1>1, <1>2, <2>1 DEF ExceptionsOf
  <2>3. years[e.year] # None /\ Within(years[e.year], e.date) /\ ~Overlap(years[e.year], years[x])
    BY <1>1, <2>1, <2>2 DEF IInv, Planned, EveryDateInOneTerm, SoundPlan
  <2>4. years[e.year] \in Bounds /\ years[x] \in Bounds
    BY <1>1, <2>1, <2>3 DEF IInv, TypeOK
  <2> QED
    BY <1>1, <1>2, <2>3, <2>4, StructureAssumption DEF Within, Overlap, Bounds, Dates
<1> QED
  BY <1>1, <1>2

(* Nothing a request runs into is left to the database alone: what each    *)
(* statement could violate is kept by a lock taken, or a row held, before. *)
THEOREM ConflictsNamed == Spec => []OnlyNamedConflicts
<1>1. IInv => OnlyNamedConflicts
  <2> SUFFICES ASSUME IInv, NEW a \in Administrators
               PROVE  /\ Is(a, "change", {"checked"}) => KeepsConstraints(a)
                      /\ Is(a, "delete", {"checked"}) => TermsOf(request[a].on) = {} /\ ExceptionsOf(request[a].on) = {}
                      /\ Is(a, "except", {"checked"}) =>
                           years[request[a].on] # None /\ \A e \in exceptions : e.date # request[a].to
                      /\ Is(a, "timezone", {"locked"}) => ~school.fixed \/ school.timezone = request[a].to
                      /\ Is(a, "offer", {"held"}) => request[a].on \in courses /\ terms[request[a].to] # None
    BY DEF OnlyNamedConflicts
  <2>1. ReadStands(a)
    BY DEF IInv
  <2>2. Is(a, "delete", {"checked"}) => TermsOf(request[a].on) = {} /\ ExceptionsOf(request[a].on) = {}
    BY <2>1 DEF ReadStands, HoldsYear, Is, YearKinds
  <2>3. Is(a, "timezone", {"locked"}) => ~school.fixed \/ school.timezone = request[a].to
    BY <2>1 DEF ReadStands, SchoolLockers
  <2>4. Is(a, "offer", {"held"}) => request[a].on \in courses /\ terms[request[a].to] # None
    BY <2>1 DEF ReadStands, Is
  <2> QED
    BY <2>2, <2>3, <2>4, ConstraintsKept, NoExceptionTwice
<1> QED
  BY <1>1, StructureInvariance, PTL

(* Transactions wait for each other only where both are writing years      *)
(* whose dates meet: everything else is locked in an order.                *)
THEOREM OverlapsAloneDeadlock == Spec => []OnlyOverlapsDeadlock
<1>1. IInv => OnlyOverlapsDeadlock
  <2> SUFFICES ASSUME IInv, NEW a \in Administrators, NEW b \in Administrators, a # b,
                      b \in WaitsFor(a), a \in WaitsFor(b)
               PROVE  request[a].step = "written" /\ request[b].step = "written"
    BY DEF OnlyOverlapsDeadlock
  <2>1. ASSUME NEW c \in Administrators, NEW d \in Administrators, d \in WaitsFor(c)
        PROVE  /\ request[d].step # "asked"
               /\ \/ request[c].step = "asked"
                  \/ request[c].step = "written" /\ request[d].kind \in {"create", "change", "delete"}
                  \/ Is(c, "create", {"checked"}) /\ Is(d, "create", {"fixed"})
                  \/ Is(c, "change", {"checked"}) /\ (Is(d, "offer", {"held"}) \/ Is(d, "unoffer", {"locked"}))
                  \/ Is(c, "offer", {"locked"}) /\ Is(d, "change", {"checked"})
                  \/ Is(c, "uncourse", {"locked"}) /\ Is(d, "unoffer", {"locked"})
                  \/ Is(d, "timezone", {"locked"})
    <3>1. \/ \E kind \in YearKinds : Is(c, kind, {"asked"}) /\ d \in YearHolders(request[c].on)
          \/ request[c].step = "written" /\ Writing(d)
          \/ Is(c, "create", {"checked"}) /\ d \in SchoolFixers
          \/ Is(c, "change", {"checked"}) /\ d \in TermHolders(NextDoomed(c))
          \/ Is(c, "change", {"checked"}) /\ \E o \in offerings : d \in OfferingHolders(o)
          \/ Is(c, "timezone", {"asked"}) /\ d \in SchoolSharers
          \/ \E kind \in {"offer", "uncourse"} : Is(c, kind, {"asked"}) /\ d \in CourseHolders(request[c].on)
          \/ Is(c, "unoffer", {"asked"}) /\ d \in OfferingHolders(request[c].on)
          \/ Is(c, "offer", {"locked"}) /\ d \in TermDeleters(request[c].to)
          \/ Is(c, "uncourse", {"locked"}) /\ \E o \in offerings : d \in OfferingHolders(o)
          \/ d \in SchoolLockers
      BY <2>1 DEF WaitsFor, WaitsForCourse
    <3>2. /\ \A y : d \in YearHolders(y) => request[d].step # "asked"
          /\ Writing(d) => request[d].step # "asked" /\ request[d].kind \in {"create", "change", "delete"}
          /\ d \in SchoolFixers => Is(d, "create", {"fixed"})
          /\ \A i : d \in TermHolders(i) => Is(d, "offer", {"held"})
          /\ \A o : d \in OfferingHolders(o) => Is(d, "unoffer", {"locked"})
          /\ d \in SchoolSharers => request[d].step # "asked"
          /\ \A i : d \in CourseHolders(i) => request[d].step # "asked"
          /\ \A i : d \in TermDeleters(i) => Is(d, "change", {"checked"})
          /\ d \in SchoolLockers => Is(d, "timezone", {"locked"})
      BY DEF YearHolders, Writing, SchoolFixers, TermHolders, OfferingHolders, SchoolSharers, CourseHolders,
             TermDeleters, SchoolLockers, Is
    <3> QED
      BY <3>1, <3>2 DEF Is
  <2>2. ~(Is(a, "timezone", {"locked"}) /\ Is(b, "timezone", {"locked"}))
    BY DEF IInv, Apart, SchoolLockers
  <2> QED
    BY <2>1, <2>2 DEF Is
<1> QED
  BY <1>1, StructureInvariance, PTL

(* Terms no edit has loosened are never refused for a gap, an overlap or a *)
(* Term outside the year: AcademicYears.tsx keeps them joined as they are  *)
(* added, removed and moved.                                               *)
THEOREM JoinedCover == Spec => []JoinedTermsCover
<1>1. IInv => JoinedTermsCover
  <2> SUFFICES ASSUME IInv, NEW a \in Administrators, editor[a] # None,
                      ~editor[a].loose, Submittable(editor[a])
               PROVE  Covers([first |-> editor[a].first, last |-> editor[a].last], editor[a].drafts)
    BY DEF JoinedTermsCover
  <2>1. editor[a] \in Editor /\ Joined(editor[a])
    BY DEF IInv, TypeOK, EditorSound
  <2> QED
    BY <2>1, JoinedCovers
<1> QED
  BY <1>1, StructureInvariance, PTL
=============================================================================
