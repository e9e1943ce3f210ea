-------------------------- MODULE ArrayJobsProofs --------------------------
(***************************************************************************)
(* Proofs about ArrayJobs, for arrays of any size, any end words and both   *)
(* kinds of sacct.                                                          *)
(***************************************************************************)
EXTENDS ArrayJobs, WellFoundedInduction, TLAPS

(* What is parsed from the flags, for any number of them.  Induction is by  *)
(* the first, or the last, place that would be an exception.                *)

\* A set of naturals has a least element.
LEMMA LeastNatural ==
    ASSUME NEW S \in SUBSET Nat, S # {}
    PROVE  \E n \in S : \A m \in S : n <= m
<1> DEFINE R == OpToRel(<, Nat)
<1>1. IsWellFoundedOn(R, Nat)
  BY NatLessThanWellFounded, Zenon
<1>2. \A m, n \in Nat : m < n => <<m, n>> \in R
  BY DEF OpToRel
<1> HIDE DEF R
<1>3. PICK n \in S : \A m \in S : ~(<<m, n>> \in R)
  BY <1>1, WFMin
<1>4. \A m \in S : ~(m < n)
  BY <1>2, <1>3
<1>5. \A m \in S : m \in Nat
  OBVIOUS
<1> HIDE <1>2, <1>3
<1> QED  BY <1>4, <1>5

\* A bounded set of naturals has a greatest element.
LEMMA GreatestNatural ==
    ASSUME NEW S \in SUBSET Nat, S # {}, NEW b \in Nat, \A m \in S : m <= b
    PROVE  \E n \in S : \A m \in S : n >= m
<1> DEFINE B == {c \in Nat : \A m \in S : m <= c}
<1>1. PICK c \in B : \A d \in B : c <= d
  BY LeastNatural
<1>2. CASE c \in S
  BY <1>1, <1>2
<1>3. CASE c \notin S
  <2>1. c # 0
    <3>1. PICK m \in S : TRUE
      OBVIOUS
    <3> QED  BY <1>3, <3>1
  <2>2. c - 1 \in B
    BY <1>3, <2>1
  <2> QED  BY <1>1, <2>1, <2>2
<1> QED  BY <1>2, <1>3

\* The right-hand side of the recursion of ParsedFrom.
ValueAt(flags, params, i) ==
    IF i > Len(flags) THEN <<>>
    ELSE IF flags[i].dashes /\ i + 1 <= Len(flags)
           THEN WithEarlier(params[i + 2], flags[i].name, flags[i + 1].values)
           ELSE params[i + 1]

\* The parsed parameters satisfy the equation that defines them.
LEMMA ParsingEquation ==
    ASSUME NEW S, NEW flags \in Seq(S)
    PROVE  ParsedFrom(flags) = [i \in 1 .. Len(flags) + 2 |-> ValueAt(flags, ParsedFrom(flags), i)]
<1> DEFINE n == Len(flags)
           Parsed(f, m) == f = [i \in n + 1 - m .. n + 2 |-> ValueAt(flags, f, i)]
           Unparsed == {m \in 0 .. n : \A f : ~Parsed(f, m)}
<1>1. n \in Nat
  OBVIOUS
<1>2. ParsedFrom(flags) = CHOOSE f : f = [i \in 1 .. Len(flags) + 2 |-> ValueAt(flags, f, i)]
  BY DEF ParsedFrom, ValueAt
<1>3. Parsed([i \in n + 1 .. n + 2 |-> <<>>], 0)
  BY <1>1 DEF ValueAt
<1>4. ASSUME NEW m \in 1 .. n, NEW g, Parsed(g, m - 1)
      PROVE  \E f : Parsed(f, m)
  <2> DEFINE f == [i \in n + 1 - m .. n + 2 |-> IF i = n + 1 - m THEN ValueAt(flags, g, i) ELSE g[i]]
  <2> HIDE DEF n
  <2>1. \A i \in n + 2 - m .. n + 2 : f[i] = g[i]
    BY <1>1
  <2>2. \A i \in n + 2 - m .. n + 2 : g[i] = ValueAt(flags, g, i)
    <3>1. n + 1 - (m - 1) = n + 2 - m
      BY <1>1
    <3>2. g = [i \in n + 2 - m .. n + 2 |-> ValueAt(flags, g, i)]
      BY <1>4, <3>1
    <3> QED  BY <3>2
  <2>3. f[n + 1 - m] = ValueAt(flags, g, n + 1 - m)
    BY <1>1
  <2>4. ASSUME NEW i \in n + 1 - m .. n + 2
        PROVE  ValueAt(flags, g, i) = ValueAt(flags, f, i)
    <3>1. CASE i > n
      BY <3>1 DEF ValueAt, n
    <3>2. CASE i <= n
      <4>1. i + 1 \in n + 2 - m .. n + 2 /\ i + 2 \in n + 2 - m .. n + 2
        BY <1>1, <3>2
      <4> HIDE DEF f
      <4> QED  BY <2>1, <4>1 DEF ValueAt
    <3> QED  BY <1>1, <3>1, <3>2
  <2>5. f = [i \in n + 1 - m .. n + 2 |-> f[i]]
    OBVIOUS
  <2> HIDE DEF f
  <2>6. \A i \in n + 1 - m .. n + 2 : i = n + 1 - m \/ i \in n + 2 - m .. n + 2
    BY <1>1
  <2>7. \A i \in n + 1 - m .. n + 2 : f[i] = ValueAt(flags, f, i)
    BY <2>1, <2>2, <2>3, <2>4, <2>6
  <2> QED  BY <2>5, <2>7
<1>5. Unparsed = {}
  <2> HIDE DEF Parsed
  <2> SUFFICES ASSUME Unparsed # {} PROVE FALSE
    OBVIOUS
  <2>1. Unparsed \in SUBSET Nat
    BY <1>1
  <2>2. \A m : m \in Unparsed <=> m \in 0 .. n /\ \A f : ~Parsed(f, m)
    OBVIOUS
  <2> HIDE DEF Unparsed, n
  <2>3. PICK m \in Unparsed : \A l \in Unparsed : m <= l
    BY <2>1, LeastNatural
  <2>4. m # 0
    BY <1>3, <2>2
  <2>5. m \in 1 .. n /\ m - 1 \in 0 .. n /\ m - 1 \notin Unparsed
    BY <1>1, <2>2, <2>3, <2>4
  <2>6. PICK g : Parsed(g, m - 1)
    BY <2>2, <2>5
  <2> QED  BY <1>4, <2>2, <2>5, <2>6
<1>6. \E f : f = [i \in 1 .. Len(flags) + 2 |-> ValueAt(flags, f, i)]
  <2>1. n \in 0 .. n /\ n + 1 - n = 1
    BY <1>1
  <2>2. \E f : Parsed(f, n)
    BY <1>5, <2>1
  <2> QED  BY <2>1, <2>2
<1> QED  BY <1>2, <1>6

\* What each place of the recursion gives, as equations.
LEMMA ParsingSteps ==
    ASSUME NEW S, NEW flags \in Seq(S), NEW i \in 1 .. Len(flags) + 2
    PROVE  LET params == ParsedFrom(flags)
           IN  /\ i > Len(flags) => params[i] = <<>>
               /\ i <= Len(flags) /\ ~(flags[i].dashes /\ i + 1 <= Len(flags))
                      => params[i] = params[i + 1]
               /\ i + 1 <= Len(flags) /\ flags[i].dashes
                      => params[i] = WithEarlier(params[i + 2], flags[i].name, flags[i + 1].values)
<1>1. ParsedFrom(flags)[i] = ValueAt(flags, ParsedFrom(flags), i)
  BY ParsingEquation
<1> QED  BY <1>1 DEF ValueAt

\* A dictionary of lists of the arguments.
IsParsed(flags, params) ==
    /\ params = [k \in DOMAIN params |-> params[k]]
    /\ \A k \in DOMAIN params : \E n \in DOMAIN flags : params[k] = flags[n].values

\* From every place on, nothing is parsed but the lists of arguments.
LEMMA ParsedLists ==
    ASSUME NEW flags \in Seq(Argument), NEW i \in 1 .. Len(flags) + 2
    PROVE  IsParsed(flags, ParsedFrom(flags)[i])
<1> DEFINE n == Len(flags)
           P == ParsedFrom(flags)
           Bad == {j \in 1 .. n + 2 : ~IsParsed(flags, P[j])}
<1>1. n \in Nat /\ DOMAIN flags = 1 .. n
  OBVIOUS
<1>2. IsParsed(flags, <<>>)
  BY DEF IsParsed
<1>3. ASSUME NEW params, IsParsed(flags, params), NEW k, NEW m \in DOMAIN flags
      PROVE  IsParsed(flags, WithEarlier(params, k, flags[m].values))
  BY <1>3 DEF IsParsed, WithEarlier
<1>4. ASSUME NEW j \in 1 .. n + 2, \A l \in j + 1 .. n + 2 : IsParsed(flags, P[l])
      PROVE  IsParsed(flags, P[j])
  <2>1. CASE j > n
    BY <1>1, <1>2, <2>1, ParsingSteps
  <2>2. CASE j <= n /\ ~(flags[j].dashes /\ j + 1 <= n)
    <3>1. P[j] = P[j + 1] /\ j + 1 \in j + 1 .. n + 2
      BY <1>1, <2>2, ParsingSteps
    <3> QED  BY <1>4, <3>1
  <2>3. CASE j + 1 <= n /\ flags[j].dashes
    <3>1. P[j] = WithEarlier(P[j + 2], flags[j].name, flags[j + 1].values)
      BY <1>1, <2>3, ParsingSteps
    <3>2. j + 2 \in j + 1 .. n + 2 /\ j + 1 \in DOMAIN flags
      BY <1>1, <2>3
    <3> QED  BY <1>3, <1>4, <3>1, <3>2
  <2> QED  BY <1>1, <2>1, <2>2, <2>3
<1>5. Bad = {}
  <2> SUFFICES ASSUME Bad # {} PROVE FALSE
    OBVIOUS
  <2>1. Bad \in SUBSET Nat /\ n + 2 \in Nat /\ \A j \in Bad : j <= n + 2
    BY <1>1
  <2>2. PICK j \in Bad : \A l \in Bad : j >= l
    BY <2>1, GreatestNatural
  <2>3. \A l \in j + 1 .. n + 2 : l \notin Bad
    BY <1>1, <2>1, <2>2
  <2> QED  BY <1>1, <1>4, <2>1, <2>3
<1> QED  BY <1>5

\* The name of pair p.
NameOf(flags, p) == flags[2 * p - 1].name

\* The arguments from a pair on give a list to each of their names, and to the
\* last flag of a name its own.
PairsParsed(flags, p, params) ==
    /\ DOMAIN params = {NameOf(flags, q) : q \in p .. Pairs(flags)}
    /\ \A q \in p .. Pairs(flags) :
          q \in LastPairs(flags) => params[NameOf(flags, q)] = flags[2 * q].values

\* So it is from every pair on, if flags and lists come in turn.
LEMMA ParsedPairs ==
    ASSUME NEW flags \in Seq(Argument), WellFormed(flags), NEW p \in 1 .. Pairs(flags) + 1
    PROVE  PairsParsed(flags, p, ParsedFrom(flags)[2 * p - 1])
<1> DEFINE n == Len(flags)
           P == ParsedFrom(flags)
           N == Pairs(flags)
           Bad == {q \in 1 .. N + 1 : ~PairsParsed(flags, q, P[2 * q - 1])}
<1>1. n \in Nat /\ N \in Nat /\ (n = 2 * N \/ n = 2 * N + 1)
      /\ (n = 2 * N + 1 => n % 2 = 1)
  BY DEF Pairs
<1>2. PairsParsed(flags, N + 1, P[2 * (N + 1) - 1])
  <2> HIDE DEF N
  <2>1. P[2 * (N + 1) - 1] = <<>>
    <3>1. CASE n = 2 * N
      BY <1>1, <3>1, ParsingSteps
    <3>2. CASE n = 2 * N + 1
      <4>1. n \in 1 .. n + 2 /\ n + 1 \in 1 .. n + 2 /\ ~(n + 1 <= n) /\ n + 1 > n
        BY <1>1, <3>2
      <4>2. P[n + 1] = <<>>
        BY <4>1, ParsingSteps
      <4>3. P[n] = P[n + 1]
        BY <1>1, <4>1, ParsingSteps
      <4> QED  BY <1>1, <3>2, <4>2, <4>3
    <3> QED  BY <1>1, <3>1, <3>2
  <2>2. N + 1 .. N = {}
    BY <1>1
  <2> QED  BY <2>1, <2>2 DEF PairsParsed, N
<1>3. ASSUME NEW q \in 1 .. N, PairsParsed(flags, q + 1, P[2 * (q + 1) - 1])
      PROVE  PairsParsed(flags, q, P[2 * q - 1])
  <2>1. flags[2 * q - 1].dashes
    BY <1>3 DEF WellFormed
  <2> HIDE DEF N
  <2>2. 2 * q - 1 \in 1 .. n + 2 /\ 2 * q - 1 + 1 = 2 * q /\ 2 * q <= n
        /\ 2 * q - 1 + 2 = 2 * (q + 1) - 1
    BY <1>1, <1>3
  <2> DEFINE later == P[2 * (q + 1) - 1]
  <2>3. P[2 * q - 1] = WithEarlier(later, NameOf(flags, q), flags[2 * q].values)
    BY <2>1, <2>2, ParsingSteps DEF NameOf
  <2> HIDE DEF P, later, n
  <2>4. \A r : r \in q .. N <=> r = q \/ r \in q + 1 .. N
    BY <1>1, <1>3
  <2>5. DOMAIN P[2 * q - 1] = {NameOf(flags, r) : r \in q .. N}
    BY <1>3, <2>3, <2>4 DEF PairsParsed, WithEarlier, N, later
  <2>6. ASSUME NEW r \in q .. N, r \in LastPairs(flags)
        PROVE  P[2 * q - 1][NameOf(flags, r)] = flags[2 * r].values
    <3>1. CASE r \in q + 1 .. N
      BY <1>3, <2>3, <2>6, <3>1 DEF PairsParsed, WithEarlier, N, later
    <3>2. CASE r = q
      <4>1. NameOf(flags, q) \notin DOMAIN later
        BY <1>3, <2>6, <3>2 DEF PairsParsed, LastPairs, NameOf, N, later
      <4> QED  BY <2>3, <3>2, <4>1 DEF WithEarlier
    <3> QED  BY <2>4, <3>1, <3>2
  <2> QED  BY <2>5, <2>6 DEF PairsParsed, N
<1>4. Bad = {}
  <2> SUFFICES ASSUME Bad # {} PROVE FALSE
    OBVIOUS
  <2>1. Bad \in SUBSET Nat /\ N + 1 \in Nat /\ \A q \in Bad : q <= N + 1
    BY <1>1
  <2>2. PICK q \in Bad : \A r \in Bad : q >= r
    BY <2>1, GreatestNatural
  <2>3. q # N + 1
    BY <1>2
  <2>4. q \in 1 .. N /\ q + 1 \in 1 .. N + 1 /\ q + 1 \notin Bad
    BY <1>1, <2>2, <2>3
  <2> QED  BY <1>3, <2>4
<1> QED  BY <1>4

\* Each flag name has a last flag.
LEMMA LastPairExists ==
    ASSUME NEW flags \in Seq(Argument), NEW q \in 1 .. Pairs(flags)
    PROVE  \E l \in LastPairs(flags) : NameOf(flags, l) = NameOf(flags, q)
<1> DEFINE N == Pairs(flags)
           Same == {r \in 1 .. N : NameOf(flags, r) = NameOf(flags, q)}
<1>1. N \in Nat
  BY DEF Pairs
<1>2. Same \in SUBSET Nat /\ q \in Same /\ \A r \in Same : r <= N
  BY <1>1
<1>3. PICK l \in Same : \A r \in Same : l >= r
  BY <1>1, <1>2, GreatestNatural
<1>4. \A r \in l + 1 .. N : NameOf(flags, r) # NameOf(flags, l)
  BY <1>1, <1>3
<1> QED  BY <1>3, <1>4 DEF LastPairs, NameOf

\* Of well-formed flags the keys are the names and the lists those of the last
\* flag of each name.
LEMMA ParsedParams ==
    ASSUME NEW flags \in Seq(Argument), WellFormed(flags)
    PROVE  /\ DOMAIN ParseSweepParams(flags) = SweepKeys(flags)
           /\ \A p \in LastPairs(flags) :
                 ParseSweepParams(flags)[NameOf(flags, p)] = flags[2 * p].values
<1>1. Pairs(flags) \in Nat
  BY DEF Pairs
<1>2. PairsParsed(flags, 1, ParseSweepParams(flags))
  <2>1. 1 \in 1 .. Pairs(flags) + 1 /\ 2 * 1 - 1 = 1
    BY <1>1
  <2> QED  BY <2>1, ParsedPairs DEF ParseSweepParams
<1>3. LastPairs(flags) \subseteq 1 .. Pairs(flags)
  BY DEF LastPairs
<1>4. {NameOf(flags, q) : q \in 1 .. Pairs(flags)} = {NameOf(flags, l) : l \in LastPairs(flags)}
  BY <1>3, LastPairExists
<1> QED  BY <1>2, <1>3, <1>4 DEF PairsParsed, SweepKeys, NameOf

\* The largest element is what Max finds.
LEMMA MaxIs ==
    ASSUME NEW S \in SUBSET Nat, NEW n \in S, \A m \in S : n >= m
    PROVE  Max(S) = n
<1>1. \A x \in S : (\A m \in S : x >= m) => x = n
  BY DEF Max
<1>2. Max(S) \in S /\ \A m \in S : Max(S) >= m
  BY DEF Max
<1> QED  BY <1>1, <1>2

\* The least of two numbers is what Min finds.
LEMMA MinIs ==
    ASSUME NEW m \in Nat, NEW n \in Nat
    PROVE  Min({m, n}) = IF m <= n THEN m ELSE n
<1>1. \E x \in {m, n} : \A y \in {m, n} : x <= y
  OBVIOUS
<1>2. Min({m, n}) \in {m, n} /\ \A y \in {m, n} : Min({m, n}) <= y
  BY <1>1 DEF Min
<1> QED  BY <1>2

\* The lists of the arguments have a longest one.
LEMMA ListsBounded ==
    ASSUME NEW flags \in Seq(Argument)
    PROVE  \E b \in Nat : \A n \in DOMAIN flags : Len(flags[n].values) <= b
<1> DEFINE Bounded(m) == \E b \in Nat : \A n \in 1 .. m : Len(flags[n].values) <= b
           Bad == {m \in 0 .. Len(flags) : ~Bounded(m)}
<1>1. Len(flags) \in Nat /\ DOMAIN flags = 1 .. Len(flags)
  OBVIOUS
<1>2. Bounded(0)
  OBVIOUS
<1>3. ASSUME NEW m \in 1 .. Len(flags), Bounded(m - 1)
      PROVE  Bounded(m)
  <2>1. PICK b \in Nat : \A n \in 1 .. m - 1 : Len(flags[n].values) <= b
    BY <1>3
  <2>2. Len(flags[m].values) \in Nat
    BY <1>1 DEF Argument
  <2>3. PICK c \in Nat : b <= c /\ Len(flags[m].values) <= c
    BY <2>2
  <2>4. \A n \in 1 .. m - 1 : Len(flags[n].values) \in Nat
    BY <1>1 DEF Argument
  <2>5. \A n \in 1 .. m : Len(flags[n].values) <= c
    BY <2>1, <2>3, <2>4
  <2> QED  BY <2>5
<1>4. Bad = {}
  <2> HIDE DEF Bounded
  <2> SUFFICES ASSUME Bad # {} PROVE FALSE
    OBVIOUS
  <2>1. Bad \in SUBSET Nat
    BY <1>1
  <2>2. PICK m \in Bad : \A l \in Bad : m <= l
    BY <2>1, LeastNatural
  <2>3. m # 0
    BY <1>2
  <2>4. m \in 1 .. Len(flags) /\ m - 1 \in 0 .. Len(flags) /\ m - 1 \notin Bad
    BY <1>1, <2>2, <2>3
  <2> QED  BY <1>3, <2>4
<1>5. Bounded(Len(flags))
  <2> HIDE DEF Bounded
  <2> QED  BY <1>1, <1>4
<1> QED  BY <1>1, <1>5

\* Of any flags that give a parameter: as many configurations as the longest
\* list has values.
LEMMA ConfigsOfLists ==
    ASSUME NEW flags \in Seq(Argument), ParseSweepParams(flags) # <<>>
    PROVE  LET params == ParseSweepParams(flags)
               configs == BuildConfigs(params)
           IN  /\ DOMAIN params # {}
               /\ \A k \in DOMAIN params : params[k] \in Seq(STRING) \ {<<>>}
               /\ Len(configs) \in Nat \ {0} /\ DOMAIN configs = 1 .. Len(configs)
               /\ Len(configs) \in {Len(params[k]) : k \in DOMAIN params}
               /\ \A k \in DOMAIN params : Len(configs) >= Len(params[k])
               /\ \E n \in DOMAIN flags : Len(configs) = Len(flags[n].values)
<1> DEFINE params == ParseSweepParams(flags)
           lengths == {Len(params[k]) : k \in DOMAIN params}
<1>1. IsParsed(flags, params)
  <2>1. 1 \in 1 .. Len(flags) + 2
    OBVIOUS
  <2> QED  BY <2>1, ParsedLists DEF ParseSweepParams
<1>2. \A k \in DOMAIN params : params[k] \in Seq(STRING) \ {<<>>}
  <2>1. \A n \in DOMAIN flags : flags[n].values \in Seq(STRING) \ {<<>>}
    <3>1. ASSUME NEW a \in Argument PROVE a.values \in Seq(STRING) \ {<<>>}
      BY DEF Argument
    <3> QED  BY <3>1
  <2> QED  BY <1>1, <2>1 DEF IsParsed
<1>3. PICK b \in Nat : \A k \in DOMAIN params : Len(params[k]) <= b
  BY <1>1, ListsBounded DEF IsParsed
<1>4. DOMAIN params # {}
  <2> SUFFICES ASSUME DOMAIN params = {} PROVE params = <<>>
    OBVIOUS
  <2>1. params = [k \in {} |-> params[k]]
    BY <1>1 DEF IsParsed
  <2>2. <<>> = [k \in {} |-> params[k]]
    OBVIOUS
  <2> QED  BY <2>1, <2>2
<1> HIDE DEF params
<1>5. \A k \in DOMAIN params : Len(params[k]) \in Nat \ {0}
  BY <1>2
<1>6. lengths \in SUBSET Nat /\ lengths # {} /\ \A m \in lengths : m <= b
  BY <1>3, <1>4, <1>5
<1>7. PICK n \in lengths : \A m \in lengths : n >= m
  BY <1>6, GreatestNatural
<1>8. Max(lengths) = n
  BY <1>6, <1>7, MaxIs
<1>9. n \in Nat \ {0}
  BY <1>5, <1>7
<1>10. BuildConfigs(params) =
           [i \in 1 .. n |-> [k \in DOMAIN params |-> params[k][Min({i, Len(params[k])})]]]
  BY <1>4, <1>8 DEF BuildConfigs
<1>11. Len(BuildConfigs(params)) = n /\ DOMAIN BuildConfigs(params) = 1 .. n
  BY <1>9, <1>10
<1>12. \E m \in DOMAIN flags : n = Len(flags[m].values)
  BY <1>1, <1>7 DEF IsParsed, params
<1> QED  BY <1>2, <1>4, <1>7, <1>9, <1>11, <1>12 DEF params

\* The reference counts as many tasks as there are configurations ...
LEMMA CountOfTasks ==
    ASSUME NEW flags \in Seq(Argument), WellFormed(flags), ParseSweepParams(flags) # <<>>
    PROVE  Len(BuildConfigs(ParseSweepParams(flags))) = TaskCount(flags)
<1> DEFINE params == ParseSweepParams(flags)
           n == Len(BuildConfigs(params))
           lengths == {Len(flags[2 * p].values) : p \in LastPairs(flags)}
<1>1. /\ \A k \in DOMAIN params : params[k] \in Seq(STRING)
      /\ n \in Nat /\ n \in {Len(params[k]) : k \in DOMAIN params}
      /\ \A k \in DOMAIN params : n >= Len(params[k])
  BY ConfigsOfLists
<1>2. /\ DOMAIN params = {NameOf(flags, p) : p \in LastPairs(flags)}
      /\ \A p \in LastPairs(flags) : params[NameOf(flags, p)] = flags[2 * p].values
  BY ParsedParams DEF SweepKeys, NameOf
<1> HIDE DEF params, n
<1>3. n \in lengths /\ \A m \in lengths : m \in Nat /\ n >= m
  BY <1>1, <1>2
<1>4. Max({0} \cup lengths) = n
  <2> HIDE DEF lengths
  <2> DEFINE S == {0} \cup lengths
  <2>1. S \in SUBSET Nat /\ n \in S /\ \A m \in S : n >= m
    BY <1>1, <1>3
  <2> HIDE DEF S
  <2>2. Max(S) = n
    BY <2>1, MaxIs
  <2> QED  BY <2>2 DEF S
<1> QED  BY <1>4 DEF TaskCount, n, params

\* ... and means them to have the values they are given.
LEMMA MeantValue ==
    ASSUME NEW flags \in Seq(Argument), WellFormed(flags), ParseSweepParams(flags) # <<>>,
           NEW k \in SweepKeys(flags), NEW task \in Nat
    PROVE  LET list == ParseSweepParams(flags)[k]
           IN MeantFor(flags, task, k) = list[Min({task + 1, Len(list)})]
<1> DEFINE params == ParseSweepParams(flags)
           p == CHOOSE q \in LastPairs(flags) : flags[2 * q - 1].name = k
<1>1. p \in LastPairs(flags) /\ NameOf(flags, p) = k
  BY DEF SweepKeys, NameOf
<1>2. flags[2 * p].values = params[k]
  BY <1>1, ParsedParams
<1>3. params[k] \in Seq(STRING)
  BY ParsedParams, ConfigsOfLists
<1> HIDE DEF params
<1>4. Len(params[k]) \in Nat
  BY <1>3
<1>5. Min({task + 1, Len(params[k])}) = IF task + 1 <= Len(params[k]) THEN task + 1 ELSE Len(params[k])
  BY <1>4, MinIs
<1>6. MeantFor(flags, task, k) = IF task < Len(params[k]) THEN params[k][task + 1] ELSE params[k][Len(params[k])]
  BY <1>2 DEF MeantFor
<1>7. task < Len(params[k]) <=> task + 1 <= Len(params[k])
  BY <1>4
<1> QED  BY <1>5, <1>6, <1>7 DEF params

\* The script of flags that give a parameter has a task or more, and SLURM ids
\* for them.
LEMMA ScriptOfFlags ==
    ASSUME NEW a \in Sweeps, ParseSweepParams(a) # <<>>
    PROVE  LET configs == BuildConfigs(ParseSweepParams(a))
           IN  /\ Len(configs) \in Nat \ {0} /\ DOMAIN configs = 1 .. Len(configs)
               /\ 0 .. Len(configs) - 1 \subseteq Jobs
<1>1. a \in Seq(Argument)
  BY SweepsAssumption
<1>2. PICK n \in DOMAIN a : Len(BuildConfigs(ParseSweepParams(a))) = Len(a[n].values)
  BY <1>1, ConfigsOfLists
<1>3. 0 .. Len(a[n].values) - 1 \subseteq Jobs
  BY SweepsAssumption
<1> QED  BY <1>1, <1>2, <1>3, ConfigsOfLists

----------------------------------------------------------------------------
(* Whose end a status is *)

\* Whatever is printed is read as a status, and only no word as None.
LEMMA StatusType ==
    ASSUME NEW w, w # None
    PROVE  SacctStatus(w) \in JobStatus /\ SqueueStatus(w) \in JobStatus
  BY DEF SacctStatus, SqueueStatus, PlainWords, JobStatus

\* squeue reports no end.
LEMMA SqueueReportsNoEnd ==
    ASSUME NEW w \in LiveWords \cup {"COMPLETING"}
    PROVE  SqueueStatus(w) \notin Terminal
  BY DEF LiveWords, SqueueStatus, PlainWords, Terminal

\* A row of sacct that is read as an end is one.
LEMMA TerminalRowHasEnded ==
    ASSUME NEW w \in LiveWords \cup EndWords \cup {None}, SacctStatus(w) \in Terminal
    PROVE  w \in EndWords
  BY NamesAssumption DEF LiveWords, SacctStatus, PlainWords, Terminal, JobStatus

\* The end of the one it is about: of the task, or of all tasks.
EndOf(x, status) == \A i \in Tasks : x \in {i, Parent} => EndedAs(i, status)

\* What sacct shows as an end is the task's.
AcctIsReal == \A i \in Jobs : acct[i] \in EndWords => real[i] = acct[i]

\* Where the operation is and whom it is about; array_results has asked for
\* the tasks before this one.
Placed ==
    /\ script.size \in Nat \ {0}
    /\ id \in Tasks \cup {Parent}
    /\ pc \in {"parent", "finalParent"} => id # Parent
    /\ pc = "apply" => reply # None
    /\ op = "results" => id # Parent /\ Len(results) = id

ArrayInv ==
    /\ TypeOK /\ Placed /\ AcctIsReal
    /\ \A s \in {handle, reply} \cap Terminal : EndOf(id, s)
    /\ \A n \in DOMAIN results : results[n] \in Terminal => EndedAs(n - 1, results[n])
    /\ record \in Terminal => EndOf(Parent, record)

\* A row is read as a status, and if that is an end, then of all for whom the
\* row may answer.
LEMMA RowsAreReal ==
    ASSUME ArrayInv, NEW x \in AcctIds
    PROVE  /\ SacctStatus(AcctWord(x)) \in JobStatus
           /\ SacctStatus(AcctWord(x)) \in Terminal => EndOf(x, SacctStatus(AcctWord(x)))
<1>1. 0 \in Tasks /\ Tasks \subseteq Jobs /\ Parent \notin Tasks
  BY NamesAssumption DEF ArrayInv, TypeOK, Placed, Tasks
<1>2. CASE Collapsed
  <2>1. x = Parent /\ AcctWord(x) = acct[0]
    BY <1>2 DEF AcctIds, AcctWord
  <2>2. acct[0] # None /\ \A i \in Tasks : acct[i] = acct[0]
    BY <1>2 DEF Collapsed
  <2>3. SacctStatus(acct[0]) \in Terminal => acct[0] \in EndWords
    BY <1>1, TerminalRowHasEnded DEF ArrayInv, TypeOK, ClusterTypeOK
  <2>4. ASSUME acct[0] \in EndWords, NEW i \in Tasks
        PROVE  EndedAs(i, SacctStatus(acct[0]))
    BY <1>1, <2>2, <2>4 DEF ArrayInv, AcctIsReal, EndedAs, Ended
  <2> QED  BY <2>1, <2>2, <2>3, <2>4, StatusType DEF EndOf
<1>3. CASE ~Collapsed
  <2>1. x \in Tasks /\ acct[x] # None /\ AcctWord(x) = acct[x]
    BY <1>1, <1>3 DEF AcctIds, AcctWord
  <2>2. SacctStatus(acct[x]) \in Terminal => acct[x] \in EndWords
    BY <1>1, <2>1, TerminalRowHasEnded DEF ArrayInv, TypeOK, ClusterTypeOK
  <2>3. acct[x] \in EndWords => EndedAs(x, SacctStatus(acct[x]))
    BY <1>1, <2>1 DEF ArrayInv, AcctIsReal, EndedAs, Ended
  <2> QED  BY <1>1, <2>1, <2>2, <2>3, StatusType DEF EndOf
<1> QED  BY <1>2, <1>3

\* An end that holds of the array holds of each of its tasks.
LEMMA EndOfTask ==
    ASSUME NEW x \in Tasks \cup {Parent}, NEW s, EndOf(Parent, s)
    PROVE  EndOf(x, s)
  BY DEF EndOf

\* The step of a task: an end is final and stays known.
LEMMA ClusterKeeps ==
    ASSUME ArrayInv, ClusterStep
    PROVE  ArrayInv'
<1>1. /\ UNCHANGED <<submission, collapses, clientVars, purged, scancelled>>
      /\ \E i \in Tasks : TaskBegins(i) \/ TaskGoesOn(i)
  BY DEF ClusterStep, TaskBegins, TaskGoesOn, TaskEnds, Begin, End, QueueReports, AcctReports
<1>2. PICK i \in Jobs : Begin(i) \/ End(i) \/ QueueReports(i) \/ AcctReports(i)
  BY <1>1 DEF TaskBegins, TaskGoesOn, TaskEnds, ArrayInv, TypeOK
<1>3. /\ ClusterTypeOK' /\ AcctIsReal'
      /\ \A j \in Jobs : Ended(j) => real'[j] = real[j]
  <2> USE EndWordsAssumption DEF ArrayInv, TypeOK, ClusterTypeOK, AcctIsReal, Ended, LiveWords, Live
  <2>1. CASE Begin(i)  BY <2>1 DEF Begin
  <2>2. CASE End(i)  BY <2>2 DEF End
  <2>3. CASE QueueReports(i)  BY <2>3 DEF QueueReports
  <2>4. CASE AcctReports(i)  BY <2>4 DEF AcctReports
  <2> QED  BY <1>2, <2>1, <2>2, <2>3, <2>4
<1>4. Tasks' = Tasks /\ Tasks \subseteq Jobs
  BY <1>1 DEF Tasks, submission, ArrayInv, TypeOK
<1>5. \A j \in Tasks : \A s : EndedAs(j, s) => EndedAs(j, s)'
  BY <1>3, <1>4 DEF EndedAs, Ended
<1>6. \A x, s : EndOf(x, s) => EndOf(x, s)'
  BY <1>4, <1>5 DEF EndOf
<1>7. \A n \in DOMAIN results : n - 1 \in Tasks
  BY DEF ArrayInv, TypeOK, Placed, Tasks
<1> QED  BY <1>1, <1>3, <1>4, <1>5, <1>6, <1>7
         DEF ArrayInv, TypeOK, Placed, clientVars, submission

\* An operation begins, with the status of a record or with none.
LEMMA BeginKeeps ==
    ASSUME ArrayInv, NEW x \in Tasks \cup {Parent},
           NEW o \in {"none", "results", "wait", "refresh", "status", "reconcile"},
           NEW s \in JobStatus, s \in Terminal => EndOf(x, s),
           o = "results" => x = 0,
           Begins(o, x, s)
    PROVE  ArrayInv'
<1> USE DEF Begins, Enter, ArrayInv, clusterVars, submission
<1>1. TypeOK'
  BY NamesAssumption DEF TypeOK, ClusterTypeOK, Tasks, Placed
<1>2. Placed'
  BY NamesAssumption DEF TypeOK, Placed, Tasks
<1>3. AcctIsReal' /\ Tasks' = Tasks /\ \A y, t : EndOf(y, t)' <=> EndOf(y, t)
  BY DEF AcctIsReal, EndOf, EndedAs, Ended, Tasks
<1>4. None \notin Terminal
  BY NamesAssumption DEF JobStatus, Terminal
<1> QED  BY <1>1, <1>2, <1>3, <1>4

\* The operation goes on about the same task or ends, and hears at most an end
\* of those it asked for.
LEMMA GoesOnKeeps ==
    ASSUME ArrayInv, Unmoved,
           pc' \in {"idle", "sacct", "parent", "squeue", "apply", "check", "final", "finalParent"},
           \/ UNCHANGED <<op, id, handle>> /\ reply' \in JobStatus \cup {None}
           \/ op' = "none" /\ id' = Parent /\ handle' = "PENDING" /\ reply' = None,
           reply' \in Terminal => EndOf(id', reply'),
           pc' \in {"parent", "finalParent"} => id' # Parent,
           pc' = "apply" => reply' # None
    PROVE  ArrayInv'
<1> USE DEF Unmoved, ArrayInv, clusterVars, submission
<1>1. TypeOK'
  BY DEF TypeOK, ClusterTypeOK, Tasks, JobStatus
<1>2. Placed'
  BY DEF Placed, Tasks
<1>3. AcctIsReal' /\ Tasks' = Tasks /\ \A y, t : EndOf(y, t)' <=> EndOf(y, t)
  BY DEF AcctIsReal, EndOf, EndedAs, Ended, Tasks
<1>4. \A n, t : EndedAs(n, t)' <=> EndedAs(n, t)
  BY DEF EndedAs, Ended
<1>5. "PENDING" \notin Terminal
  BY DEF Terminal
<1> QED  BY <1>1, <1>2, <1>3, <1>4, <1>5

\* wait_job is over, with an end of those it was about if with any.
LEMMA ConcludeKeeps ==
    ASSUME ArrayInv, pc \in {"final", "finalParent"}, NEW s \in JobStatus, NEW zero,
           s \in Terminal => EndOf(id, s), Conclude(s, zero)
    PROVE  ArrayInv'
<1> USE DEF Conclude, ArrayInv, clusterVars, submission, Tasks
<1>1. \A n, t : EndedAs(n, t)' <=> EndedAs(n, t)
  BY DEF EndedAs, Ended
<1>2. AcctIsReal' /\ Tasks' = Tasks /\ \A y, t : EndOf(y, t)' <=> EndOf(y, t)
  BY <1>1 DEF AcctIsReal, EndOf
<1>3. None \notin Terminal /\ "PENDING" \notin Terminal
  BY NamesAssumption DEF JobStatus, Terminal
<1>4. CASE op = "results"
  <2>1. id \in Tasks /\ Len(results) = id /\ results \in Seq(JobStatus)
    BY <1>4 DEF Placed, TypeOK
  <2>2. results' = Append(results, s)
    BY <1>4
  <2>3. /\ results' \in Seq(JobStatus) /\ Len(results') = id + 1
        /\ DOMAIN results' = 1 .. id + 1
        /\ \A n \in 1 .. id : results'[n] = results[n]
        /\ results'[id + 1] = s
    BY <2>1, <2>2 DEF Placed
  <2>4. s \in Terminal => EndedAs(id, s)
    BY <2>1 DEF EndOf
  <2>5. \A n \in DOMAIN results' : results'[n] \in Terminal => EndedAs(n - 1, results'[n])
    BY <2>1, <2>3, <2>4 DEF Placed
  <2>6. TypeOK'
    BY <1>4, <2>1, <2>3 DEF TypeOK, ClusterTypeOK, Enter, Leave, JobStatus, Placed
  <2>7. Placed'
    BY <1>4, <2>1, <2>3, NamesAssumption DEF Placed, Enter, Leave, TypeOK
  <2> QED  BY <1>1, <1>2, <1>3, <2>5, <2>6, <2>7 DEF Enter, Leave
<1>5. CASE op # "results"
  <2>1. Leave /\ results' = results
    BY <1>5
  <2>2. TypeOK'
    BY <2>1 DEF TypeOK, ClusterTypeOK, Leave, JobStatus
  <2>3. Placed'
    BY <2>1 DEF Placed, Leave
  <2> QED  BY <1>1, <1>2, <1>3, <2>1, <2>2, <2>3 DEF Leave
<1> QED  BY <1>4, <1>5

\* What was heard becomes the handle's status, and of the array's own Job the
\* record's.
LEMMA ApplyKeeps ==
    ASSUME ArrayInv, Apply
    PROVE  ArrayInv'
<1> USE DEF Apply, ArrayInv, clusterVars, submission
<1>1. AcctIsReal' /\ Tasks' = Tasks /\ \A y, t : EndOf(y, t)' <=> EndOf(y, t)
  BY DEF AcctIsReal, EndOf, EndedAs, Ended, Tasks
<1>2. \A n, t : EndedAs(n, t)' <=> EndedAs(n, t)
  BY DEF EndedAs, Ended
<1>3. None \notin Terminal /\ "PENDING" \notin Terminal
  BY NamesAssumption DEF JobStatus, Terminal
<1>4. reply \in JobStatus
  BY DEF TypeOK, Placed
<1>5. TypeOK'
  BY <1>4 DEF TypeOK, ClusterTypeOK, Tasks, Leave, JobStatus
<1>6. Placed'
  BY DEF Placed, Tasks, Leave
<1>7. record' \in Terminal => EndOf(Parent, record')
  OBVIOUS
<1>8. \A s \in {handle', reply'} \cap Terminal : EndOf(id', s)
  BY <1>3 DEF Leave
<1> QED  BY <1>1, <1>2, <1>5, <1>6, <1>7, <1>8

\* The invariant is inductive: a task may be answered for by its own row, by
\* the row of the array or, in squeue, by that of a sibling (_sacct_lookup,
\* _status_from_squeue).
THEOREM ArrayInvariant == Spec => []ArrayInv
<1>1. Init => ArrayInv
  <2> SUFFICES ASSUME Init PROVE ArrayInv
    OBVIOUS
  <2>1. script.size \in Nat \ {0} /\ Tasks \subseteq Jobs
    BY ScriptOfFlags DEF Init, Script, Tasks
  <2>2. None \notin Terminal /\ "PENDING" \notin Terminal
    BY NamesAssumption DEF JobStatus, Terminal
  <2>3. ClusterTypeOK /\ AcctIsReal
    BY EndWordsAssumption DEF Init, ClusterInit, ClusterTypeOK, AcctIsReal, LiveWords
  <2>4. TypeOK
    BY <2>1, <2>3 DEF Init, TypeOK, JobStatus
  <2>5. Placed
    BY <2>1 DEF Init, Placed
  <2> QED  BY <2>2, <2>3, <2>4, <2>5 DEF Init, ArrayInv
<1>2. ArrayInv /\ [Next]_vars => ArrayInv'
  <2> SUFFICES ASSUME ArrayInv, [Next]_vars PROVE ArrayInv'
    OBVIOUS
  <2>1. /\ 0 \in Tasks /\ id \in Tasks \cup {Parent}
        /\ "PENDING" \in JobStatus \ Terminal /\ None \notin Terminal
        /\ reply \in JobStatus \cup {None} /\ handle \in JobStatus /\ record \in JobStatus
    BY NamesAssumption DEF ArrayInv, TypeOK, Placed, Tasks, JobStatus, Terminal
  <2>2. CASE ClusterStep
    BY <2>2, ClusterKeeps
  <2>3. CASE ArrayResults
    BY <2>1, <2>3, BeginKeeps DEF ArrayResults
  <2>4. CASE WaitArray \/ RefreshArray \/ Reconcile
    BY <2>1, <2>4, BeginKeeps DEF WaitArray, RefreshArray, Reconcile, ArrayInv
  <2>5. CASE RefreshTask \/ StatusTask
    BY <2>1, <2>5, BeginKeeps DEF RefreshTask, StatusTask
  <2>6. ASSUME Leave, Unmoved PROVE ArrayInv'
    BY <2>1, <2>6, GoesOnKeeps DEF Leave
  <2>7. ASSUME NEW place \in {"parent", "squeue", "sacct", "check", "final", "finalParent"},
               Goto(place), place \in {"parent", "finalParent"} => id # Parent
        PROVE  ArrayInv'
    BY <2>1, <2>7, GoesOnKeeps DEF Goto, ArrayInv
  <2>8. ASSUME NEW s \in JobStatus, Heard(s), s \in Terminal => EndOf(id, s)
        PROVE  ArrayInv'
    BY <2>1, <2>8, NamesAssumption, GoesOnKeeps DEF Heard
  <2>9. CASE SacctAnswers
    <3>1. id \in AcctIds
      BY <2>9 DEF SacctAnswers, SacctRows
    <3> QED  BY <2>8, <2>9, <3>1, RowsAreReal DEF SacctAnswers
  <2>10. CASE SacctMisses
    BY <2>6, <2>7, <2>10 DEF SacctMisses, GiveUp
  <2>11. ParentRow \in SacctRows(Parent) =>
            /\ SacctStatus(AcctWord(ParentRow)) \in JobStatus
            /\ SacctStatus(AcctWord(ParentRow)) \in Terminal =>
                  EndOf(id, SacctStatus(AcctWord(ParentRow)))
    BY <2>1, RowsAreReal, EndOfTask DEF ParentRow, SacctRows
  <2>12. CASE ParentAnswers
    BY <2>8, <2>11, <2>12 DEF ParentAnswers
  <2>13. CASE ParentMisses
    BY <2>7, <2>13 DEF ParentMisses
  <2>14. CASE SqueueAnswers
    <3>1. PICK s \in SqueueStatuses(id) : Heard(s)
      BY <2>14 DEF SqueueAnswers
    <3>2. PICK i \in Tasks : queue[i] # None /\ s = SqueueStatus(queue[i])
      BY <3>1 DEF SqueueStatuses
    <3>3. s \in JobStatus /\ s \notin Terminal
      BY <3>2, StatusType, SqueueReportsNoEnd DEF ArrayInv, TypeOK, ClusterTypeOK
    <3> QED  BY <2>8, <3>1, <3>3
  <2>15. CASE SqueueMisses
    BY <2>6, <2>7, <2>15 DEF SqueueMisses, GiveUp
  <2>16. CASE Apply
    BY <2>16, ApplyKeeps
  <2>17. CASE WaitOn \/ WaitOver
    BY <2>7, <2>17 DEF WaitOn, WaitOver
  <2>18. CASE FinalAnswers
    <3>1. id \in AcctIds
      BY <2>18 DEF FinalAnswers, SacctRows
    <3> QED  BY <2>18, <3>1, RowsAreReal, ConcludeKeeps DEF FinalAnswers
  <2>19. CASE FinalMisses
    BY <2>7, <2>19 DEF FinalMisses
  <2>20. CASE FinalParentAnswers
    BY <2>11, <2>20, ConcludeKeeps DEF FinalParentAnswers
  <2>21. CASE NoFinal
    BY <2>1, <2>21, ConcludeKeeps DEF NoFinal, ArrayInv
  <2>22. CASE Abort
    BY <2>6, <2>22 DEF Abort, GiveUp
  <2>23. CASE UNCHANGED vars
    BY <2>1, <2>23, GoesOnKeeps DEF vars, clientVars, Unmoved, ArrayInv, Placed, TypeOK
  <2> QED
    BY <2>2, <2>3, <2>4, <2>5, <2>9, <2>10, <2>12, <2>13, <2>14, <2>15, <2>16, <2>17,
       <2>18, <2>19, <2>20, <2>21, <2>22, <2>23 DEF Next, Proceeds
<1> QED  BY <1>1, <1>2, PTL DEF Spec

\* Every variable keeps its type; no list of results is longer than the array.
THEOREM ArrayTypes == Spec => []TypeOK
<1>1. ArrayInv => TypeOK  BY DEF ArrayInv
<1> QED  BY <1>1, ArrayInvariant, PTL

\* No task is given the end of another one (array_results, refresh_job, status).
THEOREM TaskEndsAreReal == Spec => []TaskEndIsReal
<1>1. ArrayInv => TaskEndIsReal
  BY DEF ArrayInv, TaskEndIsReal, Placed, EndOf
<1> QED  BY <1>1, ArrayInvariant, PTL

\* The store's record of an array ends with all of its tasks (update_job_status).
THEOREM ArrayEndsAreReal == Spec => []ArrayEndIsReal
<1>1. ArrayInv => ArrayEndIsReal
  BY DEF ArrayInv, ArrayEndIsReal, EndOf
<1> QED  BY <1>1, ArrayInvariant, PTL

----------------------------------------------------------------------------
(* What a task runs with *)

\* The placeholder {k} of a task's command is given the task's value of k, from
\* the configurations through the shell arrays, unless another key is written
\* like k in capitals (_build_configs, generate_array_wrapper).
LEMMA CommandHasValue ==
    ASSUME NEW params, NEW k \in DOMAIN params, NEW task \in Nat,
           DOMAIN BuildConfigs(params) = 1 .. Len(BuildConfigs(params)),
           Len(BuildConfigs(params)) \in Nat,
           task \in 0 .. Len(BuildConfigs(params)) - 1,
           \A l \in DOMAIN params \ {k} : Upper[l] # Upper[k]
    PROVE  Command(ArrayWrapper(BuildConfigs(params)), task, DOMAIN params)[k]
               = params[k][Min({task + 1, Len(params[k])})]
<1> DEFINE configs == BuildConfigs(params)
           keys == UNION {DOMAIN configs[i] : i \in DOMAIN configs}
           Declared(variable) ==
               CHOOSE l \in keys :
                   /\ Upper[l] = variable
                   /\ \A i, j \in DOMAIN SortedKeys :
                         SortedKeys[j] = l /\ SortedKeys[i] \in keys
                         /\ Upper[SortedKeys[i]] = variable => i <= j
<1>1. \A i \in DOMAIN configs :
          configs[i] = [l \in DOMAIN params |-> params[l][Min({i, Len(params[l])})]]
  BY DEF BuildConfigs
<1>2. task + 1 \in DOMAIN configs
  OBVIOUS
<1>3. keys = DOMAIN params
  <2>1. \A i \in DOMAIN configs : DOMAIN configs[i] = DOMAIN params
    BY <1>1
  <2> HIDE DEF configs
  <2> QED  BY <1>2, <2>1
<1> HIDE DEF configs
<1>4. ASSUME NEW i \in DOMAIN SortedKeys, NEW j \in DOMAIN SortedKeys,
             SortedKeys[j] = k, SortedKeys[i] \in keys, Upper[SortedKeys[i]] = Upper[k]
      PROVE  i = j
  BY <1>3, <1>4, SortedKeysAssumption
<1>5. Declared(Upper[k]) = k
  BY <1>3, <1>4
<1>6. ArrayWrapper(configs)[Upper[k]]
          = [n \in 0 .. Len(configs) - 1 |->
                IF Declared(Upper[k]) \in DOMAIN configs[n + 1]
                  THEN configs[n + 1][Declared(Upper[k])] ELSE ""]
  BY <1>3 DEF ArrayWrapper
<1>7. ArrayWrapper(configs)[Upper[k]][task] = configs[task + 1][k]
  <2>1. task \in 0 .. Len(configs) - 1
    BY DEF configs
  <2>2. k \in DOMAIN configs[task + 1]
    BY <1>1, <1>2
  <2> HIDE DEF Declared
  <2> QED  BY <1>5, <1>6, <2>1, <2>2
<1> QED  BY <1>1, <1>2, <1>7 DEF Command, configs

\* A task that runs does so with what the script says for its number.
Scripted ==
    /\ args \in Sweeps /\ ParseSweepParams(args) # <<>>
    /\ script = Script(BuildConfigs(ParseSweepParams(args)))
    /\ \A i \in Jobs :
          seen[i] \in {None, Command(script.arrays, i, DOMAIN ParseSweepParams(args))}
    /\ DOMAIN seen = Jobs

RunsAsConfigured ==
    LET params == ParseSweepParams(args)
    IN \A i \in Tasks, k \in DOMAIN params :
          seen[i] # None /\ (\A l \in DOMAIN params \ {k} : Upper[l] # Upper[k])
              => seen[i][k] = params[k][Min({i + 1, Len(params[k])})]

\* The script and the parameters of the tasks are those of the flags.
LEMMA ScriptIsKept == Spec => []Scripted
<1>1. Init => Scripted
  BY DEF Init, Scripted
<1>2. Scripted /\ [Next]_vars => Scripted'
  <2> SUFFICES ASSUME Scripted, [Next]_vars PROVE Scripted'
    OBVIOUS
  <2>1. CASE ClusterStep
    <3>1. UNCHANGED submission
      BY <2>1 DEF ClusterStep
    <3>2. CASE UNCHANGED seen
      BY <3>1, <3>2 DEF Scripted, submission
    <3>3. CASE \E i \in Tasks : TaskBegins(i)
      BY <3>1, <3>3 DEF TaskBegins, Scripted, submission
    <3> QED  BY <2>1, <3>2, <3>3 DEF ClusterStep, TaskGoesOn
  <2>2. CASE ~ClusterStep
    <3>1. UNCHANGED <<submission, seen>>
      BY <2>2 DEF Next, vars, ArrayResults, WaitArray, RefreshArray, RefreshTask, StatusTask,
                  Reconcile, Begins, Proceeds, SacctAnswers, SacctMisses, ParentAnswers,
                  ParentMisses, SqueueAnswers, SqueueMisses, Apply, WaitOn, WaitOver,
                  FinalAnswers, FinalMisses, FinalParentAnswers, NoFinal, Abort,
                  Goto, Heard, GiveUp, Conclude, Unmoved
    <3> QED  BY <3>1 DEF Scripted, submission
  <2> QED  BY <2>1, <2>2
<1> QED  BY <1>1, <1>2, PTL DEF Spec

\* Of arrays of any size and any flags, task i runs with the i-th value of each
\* list that was parsed, or with the last one of a shorter list (submit_array).
THEOREM TasksRunAsConfigured == Spec => []RunsAsConfigured
<1>1. Scripted => RunsAsConfigured
  <2> SUFFICES ASSUME Scripted, NEW i \in Tasks, NEW k \in DOMAIN ParseSweepParams(args),
                      seen[i] # None,
                      \A l \in DOMAIN ParseSweepParams(args) \ {k} : Upper[l] # Upper[k]
               PROVE  LET params == ParseSweepParams(args)
                      IN seen[i][k] = params[k][Min({i + 1, Len(params[k])})]
    BY DEF RunsAsConfigured
  <2> DEFINE params == ParseSweepParams(args)
             configs == BuildConfigs(params)
  <2>1. /\ Len(configs) \in Nat /\ DOMAIN configs = 1 .. Len(configs)
        /\ i \in 0 .. Len(configs) - 1 /\ i \in Jobs
    BY ScriptOfFlags DEF Scripted, Script, Tasks
  <2>2. seen[i] = Command(ArrayWrapper(configs), i, DOMAIN params)
    BY <2>1 DEF Scripted, Script
  <2> QED  BY <2>1, <2>2, CommandHasValue
<1> QED  BY <1>1, ScriptIsKept, PTL

\* The whole way: of flags and lists in turn, task i of the array runs with the
\* i-th value of the last list of each flag, or with the last one of a shorter
\* list, and there are as many tasks as the longest of these lists has values
\* (_parse_sweep_params, _build_configs, generate_array_wrapper, submit_array).
THEOREM TasksRunTheirConfigs == Spec => []TaskRunsItsConfig
<1>1. Scripted /\ RunsAsConfigured => TaskRunsItsConfig
  <2> SUFFICES ASSUME Scripted, RunsAsConfigured, WellFormed(args)
               PROVE  /\ script.size = TaskCount(args)
                      /\ \A i \in Tasks, k \in SweepKeys(args) :
                            seen[i] # None /\ Alone(args, k) => seen[i][k] = MeantFor(args, i, k)
    BY DEF TaskRunsItsConfig
  <2>1. args \in Seq(Argument) /\ ParseSweepParams(args) # <<>>
    BY SweepsAssumption DEF Scripted
  <2>2. script.size = TaskCount(args)
    BY <2>1, CountOfTasks DEF Scripted, Script
  <2>3. ASSUME NEW i \in Tasks, NEW k \in SweepKeys(args), seen[i] # None, Alone(args, k)
        PROVE  seen[i][k] = MeantFor(args, i, k)
    <3>1. DOMAIN ParseSweepParams(args) = SweepKeys(args)
      BY <2>1, ParsedParams
    <3>2. seen[i][k] = ParseSweepParams(args)[k][Min({i + 1, Len(ParseSweepParams(args)[k])})]
      BY <2>3, <3>1 DEF RunsAsConfigured, Alone
    <3>3. i \in Nat
      BY ScriptOfFlags DEF Tasks, Scripted, Script
    <3> QED  BY <2>1, <3>2, <3>3, MeantValue
  <2> QED  BY <2>2, <2>3
<1> QED  BY <1>1, ScriptIsKept, TasksRunAsConfigured, PTL

----------------------------------------------------------------------------
(* What liveness rests on, and where it has nothing to rest on *)

\* Once sacct knows all ends, whichever way it lists them, a lookup of a task
\* finds its own row or may take that of the array, and reads an end there.
TaskHasAnswer ==
    AllKnown /\ id # Parent =>
        /\ id \in SacctRows(id) \/ ParentRow \in SacctRows(Parent)
        /\ \A x \in SacctRows(id) \cup ({ParentRow} \cap SacctRows(Parent)) :
               SacctStatus(AcctWord(x)) \in Terminal

\* A wait for the array's own id, when sacct has a row for every task and none
\* for the array, and squeue has dropped them all.
Lost ==
    /\ op = "wait" /\ id = Parent /\ pc \in {"sacct", "squeue", "apply", "check"}
    /\ AllKnown /\ ~Collapsed
    /\ \A i \in Tasks : queue[i] = None
    /\ handle \notin Terminal /\ reply \notin Terminal

\* The cluster has nothing more to say of tasks whose ends are known: at most
\* squeue drops them.
LEMMA KnownStays ==
    ASSUME ArrayInv, AllKnown, [Next]_vars
    PROVE  /\ AllKnown' /\ UNCHANGED <<acct, collapses, script>>
           /\ (\A i \in Tasks : queue[i] = None) => UNCHANGED queue
<1>1. UNCHANGED script
  BY DEF Next, ClusterStep, ArrayResults, WaitArray, RefreshArray, RefreshTask, StatusTask,
         Reconcile, Begins, Proceeds, Abort, SacctAnswers, SacctMisses, ParentAnswers,
         ParentMisses, SqueueAnswers, SqueueMisses, Apply, WaitOn, WaitOver, FinalAnswers,
         FinalMisses, FinalParentAnswers, NoFinal, Goto, Heard, GiveUp, Unmoved, Conclude,
         submission, vars
<1>2. CASE ClusterStep
  <2>1. PICK i \in Tasks : Begin(i) \/ End(i) \/ QueueReports(i) \/ AcctReports(i)
    BY <1>2 DEF ClusterStep, TaskBegins, TaskGoesOn, TaskEnds
  <2>2. i \in Jobs /\ real[i] = acct[i] /\ acct[i] \in EndWords
    BY <2>1 DEF ArrayInv, TypeOK, AcctIsReal, AllKnown, KnownEnd
  <2>3. QueueReports(i)
    BY <2>1, <2>2, EndWordsAssumption DEF Begin, End, AcctReports
  <2>4. queue[i] = None => UNCHANGED queue
    <3>1. None \notin LiveWords /\ ~Live(i)
      BY <2>2, EndWordsAssumption, NamesAssumption DEF LiveWords, Live, JobStatus
    <3> QED  BY <2>3, <3>1 DEF QueueReports
  <2> QED  BY <1>1, <1>2, <2>3, <2>4 DEF QueueReports, AllKnown, KnownEnd, Tasks, ClusterStep
<1>3. CASE ~ClusterStep
  <2>1. UNCHANGED <<clusterVars, collapses>>
    BY <1>3 DEF Next, ArrayResults, WaitArray, RefreshArray, RefreshTask, StatusTask,
         Reconcile, Begins, Proceeds, Abort, SacctAnswers, SacctMisses, ParentAnswers,
         ParentMisses, SqueueAnswers, SqueueMisses, Apply, WaitOn, WaitOver, FinalAnswers,
         FinalMisses, FinalParentAnswers, NoFinal, Goto, Heard, GiveUp, Unmoved, Conclude, vars
  <2> QED  BY <1>1, <2>1 DEF clusterVars, AllKnown, KnownEnd, Tasks
<1> QED  BY <1>2, <1>3

\* Why array_results ends on either kind of cluster: from the moment sacct knows
\* all ends, which it goes on doing, each of its lookups that gets an answer has
\* a row to read an end from (_sacct_lookup, refresh_job).
THEOREM TasksAreAnswered == Spec => [](TaskHasAnswer) /\ [][AllKnown => AllKnown']_vars
<1>1. ArrayInv => TaskHasAnswer
  <2> SUFFICES ASSUME ArrayInv, AllKnown, id # Parent
               PROVE  /\ id \in SacctRows(id) \/ ParentRow \in SacctRows(Parent)
                      /\ \A x \in SacctRows(id) \cup ({ParentRow} \cap SacctRows(Parent)) :
                             SacctStatus(AcctWord(x)) \in Terminal
    BY DEF TaskHasAnswer
  <2>1. id \in Tasks /\ 0 \in Tasks /\ Parent \notin Tasks
    BY NamesAssumption DEF ArrayInv, Placed, TypeOK, Tasks
  <2>2. \A i \in Tasks : acct[i] \notin {None, "PENDING"} /\ SacctStatus(acct[i]) \in Terminal
    BY EndWordsAssumption DEF AllKnown, KnownEnd
  <2>3. AcctIds \in {{Parent}, Tasks}
    BY <2>2 DEF AcctIds
  <2>4. \A x \in AcctIds : SacctStatus(AcctWord(x)) \in Terminal
    BY <2>1, <2>2, <2>3 DEF AcctWord
  <2>5. ParentRow \in AcctIds
    BY <2>1, <2>3 DEF ParentRow, SacctRows
  <2> QED  BY <2>4, <2>5 DEF SacctRows
<1>2. ArrayInv /\ [Next]_vars => [AllKnown => AllKnown']_vars
  BY KnownStays
<1> QED  BY <1>1, <1>2, ArrayInvariant, PTL DEF Spec

\* Why the wait of a JobBundling's join does not end where sacct lists the tasks
\* one by one, for arrays of any size: nothing but an exception, a timeout or
\* Ctrl+C ever leads out of Lost (dispatcher.py:549-553, client.py:539-540).
THEOREM LostWaitsStayLost == Spec => [][Lost => Lost' \/ Abort]_vars
<1>1. ArrayInv /\ [Next]_vars => [Lost => Lost' \/ Abort]_vars
  <2> SUFFICES ASSUME ArrayInv, [Next]_vars, Lost, ~Abort PROVE Lost'
    OBVIOUS
  <2>1. AllKnown' /\ UNCHANGED <<acct, collapses, script, queue>>
    BY KnownStays DEF Lost
  <2>2. ~Collapsed' /\ \A i \in Tasks' : queue'[i] = None
    BY <2>1 DEF Lost, Collapsed, Tasks
  <2>3. Parent \notin SacctRows(Parent)
    BY NamesAssumption DEF Lost, SacctRows, AcctIds, ArrayInv, TypeOK
  <2>4. SqueueStatuses(Parent) = {}
    BY DEF Lost, SqueueStatuses
  <2>5. /\ op' = "wait" /\ id' = Parent /\ pc' \in {"sacct", "squeue", "apply", "check"}
        /\ handle' \notin Terminal /\ reply' \notin Terminal
    <3> USE DEF Lost
    <3>1. None \notin Terminal
      BY NamesAssumption DEF JobStatus, Terminal
    <3>2. CASE SacctMisses
      BY <3>2 DEF SacctMisses, Goto
    <3>3. CASE SqueueMisses
      BY <3>3 DEF SqueueMisses, Waits, Goto
    <3>4. CASE Apply
      BY <3>1, <3>4 DEF Apply, Waits
    <3>5. CASE WaitOn
      BY <3>5 DEF WaitOn, Goto
    <3>6. CASE ClusterStep \/ UNCHANGED vars
      BY <3>6 DEF ClusterStep, vars, clientVars
    <3>7. ~(SacctAnswers \/ SqueueAnswers)
      BY <2>3, <2>4 DEF SacctAnswers, SqueueAnswers
    <3>8. ~(ParentAnswers \/ ParentMisses \/ WaitOver \/ FinalAnswers \/ FinalMisses
            \/ FinalParentAnswers \/ NoFinal)
      BY DEF ParentAnswers, ParentMisses, WaitOver, FinalAnswers, FinalMisses,
             FinalParentAnswers, NoFinal
    <3>9. ~(ArrayResults \/ WaitArray \/ RefreshArray \/ RefreshTask \/ StatusTask \/ Reconcile)
      BY DEF ArrayResults, WaitArray, RefreshArray, RefreshTask, StatusTask, Reconcile, Begins
    <3> QED  BY <3>2, <3>3, <3>4, <3>5, <3>6, <3>7, <3>8, <3>9 DEF Next, Proceeds
  <2> QED  BY <2>1, <2>2, <2>5 DEF Lost
<1> QED  BY <1>1, ArrayInvariant, PTL DEF Spec
============================================================================
