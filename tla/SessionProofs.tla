----------------------------- MODULE SessionProofs -----------------------------
(* What the resident session holds, for any tokens, page, spans and marks:    *)
(* a turn is computed from its own tokens (OwnState), the runner stands where *)
(* the tape ends between turns (RestsOnTape) and the draft follows it         *)
(* (DraftInStep), as long as no mark misled it that a cancelled turn left     *)
(* beyond its commit.                                                         *)
EXTENDS ResidentSession, OrderLemmas, FiniteSetTheorems

-----------------------------------------------------------------------------
(* Prefixes.                                                                  *)

LEMMA PrefixFacts ==
    ASSUME NEW T, NEW s \in Seq(T), NEW n \in 0..Len(s)
    PROVE  /\ Prefix(s, n) \in Seq(T)
           /\ Len(Prefix(s, n)) = n
           /\ \A i \in 1..n : Prefix(s, n)[i] = s[i]
  BY DEF Prefix

LEMMA PrefixWhole ==
    ASSUME NEW T, NEW s \in Seq(T)
    PROVE  Prefix(s, Len(s)) = s
  BY DEF Prefix

LEMMA PrefixOfPrefix ==
    ASSUME NEW T, NEW s \in Seq(T), NEW n \in 0..Len(s), NEW m \in 0..n
    PROVE  Prefix(Prefix(s, n), m) = Prefix(s, m)
  BY DEF Prefix

LEMMA JoinFacts ==
    ASSUME NEW T, NEW s \in Seq(T), NEW t \in Seq(T)
    PROVE  s \o t \in Seq(T) /\ Len(s \o t) = Len(s) + Len(t)
  OBVIOUS

(* A prefix of the first of two joined sequences, and one that goes beyond.   *)
LEMMA PrefixOfFirst ==
    ASSUME NEW T, NEW s \in Seq(T), NEW t \in Seq(T), NEW n \in 0..Len(s)
    PROVE  Prefix(s \o t, n) = Prefix(s, n)
  BY DEF Prefix

LEMMA PrefixBeyond ==
    ASSUME NEW s \in Seq(Tokens), NEW t \in Seq(Tokens)
    PROVE  \A n \in 0..Len(t) : Prefix(s \o t, Len(s) + n) = s \o Prefix(t, n)
  BY DEF Prefix

LEMMA PrefixExtends ==
    ASSUME NEW T, NEW s \in Seq(T), NEW n \in 0..Len(s), NEW m \in n..Len(s)
    PROVE  /\ SubSeq(s, n + 1, m) \in Seq(T)
           /\ Len(SubSeq(s, n + 1, m)) = m - n
           /\ Prefix(s, n) \o SubSeq(s, n + 1, m) = Prefix(s, m)
  BY DEF Prefix

LEMMA PrefixAll ==
    ASSUME NEW T, NEW s \in Seq(T), NEW n \in 1..Len(s)
    PROVE  Prefix(s, n) = Prefix(s, n - 1) \o <<s[n]>>
  BY DEF Prefix

-----------------------------------------------------------------------------
(* The ends of the prefill's spans.                                           *)

(* A span that starts before the last token ends behind its start, and not    *)
(* behind the last token (suffix_bounds, engine/forward/cycle.py).            *)
LEMMA SpanEndAhead ==
    ASSUME SessionAssumption, NEW pos \in Nat, NEW last \in Nat, pos < last
    PROVE  SpanEnd(pos, last) \in pos + 1 .. last
  <1>1. PICK p \in Nat \ {0} : p = Page
    BY DEF SessionAssumption
  <1>2. PICK c \in Nat : c = Chunk /\ c >= p
    BY <1>1 DEF SessionAssumption
  <1>3. ((pos + c) \div p) \in Nat /\ ((pos + c) \div p) * p > pos + c - p
    OBVIOUS
  <1>4. ((pos + c) \div p) * p \in Nat
    BY <1>3
  <1>5. PICK f \in Nat : f = PageFloor(pos + Chunk) /\ f > pos
    BY <1>1, <1>2, <1>3, <1>4 DEF PageFloor
  <1>6. (last \div p) \in Nat /\ (last \div p) * p <= last
    OBVIOUS
  <1>7. PICK g \in Nat : g = PageFloor(last) /\ g <= last
    <2>1. (last \div p) * p \in Nat
      BY <1>6
    <2> QED
      BY <2>1, <1>1, <1>6 DEF PageFloor
  <1>8. Min({f, last}) = IF f <= last THEN f ELSE last
    BY MinOfTwo
  <1>9. SpanEnd(pos, last) = IF pos < g /\ g <= Min({f, last}) THEN g ELSE Min({f, last})
    BY <1>5, <1>7 DEF SpanEnd
  <1> QED
    BY <1>8, <1>9, <1>5, <1>7

(* The loop of suffix_bounds, from pos on.                                    *)
Bounds(length, f, pos) ==
    IF pos >= length - 1 \/ SpanEnd(pos, length - 1) <= pos THEN {}
    ELSE {SpanEnd(pos, length - 1)} \cup f[SpanEnd(pos, length - 1)]

(* It is defined at every start: each span begins where the last one ended,   *)
(* and the ends have a bound.                                                 *)
LEMMA BoundsDefined ==
    ASSUME SessionAssumption, NEW length \in Nat
    PROVE  \E f : f = [pos \in 0..length |-> Bounds(length, f, pos)]
  <1> DEFINE Defined(k) == \E f : /\ f = [pos \in k..length |-> f[pos]]
                                  /\ \A pos \in k..length : f[pos] = Bounds(length, f, pos)
             Bad == {m \in 0..length : ~ Defined(length - m)}
  <1>1. ASSUME Bad # {} PROVE FALSE
    <2>1. PICK m \in Bad : \A n \in Bad : m <= n
      <3>1. Bad \subseteq Nat
        OBVIOUS
      <3> HIDE DEF Bad
      <3> QED
        BY <1>1, <3>1, LeastExists
    <2>2. m \in 0..length /\ ~ Defined(length - m)
      OBVIOUS
    <2>3. PICK k \in 0..length : k = length - m
      BY <2>2
    <2>4. CASE m = 0
      <3>1. PICK f : f = [pos \in length..length |-> {}]
        OBVIOUS
      <3>2. \A pos \in length..length : f[pos] = Bounds(length, f, pos)
        BY <3>1 DEF Bounds
      <3>3. f = [pos \in length..length |-> f[pos]]
        BY <3>1
      <3>4. Defined(length)
        BY <3>2, <3>3
      <3> QED
        BY <2>2, <2>4, <3>4, length - m = length
    <2>5. CASE m # 0
      <3>1. k < length /\ k + 1 \in 0..length /\ m - 1 \in 0..length /\ length - (m - 1) = k + 1 /\ ~ (m <= m - 1)
        <4>1. PICK i \in Nat : i = m /\ i <= length /\ i # 0
          BY <2>2, <2>5
        <4> HIDE DEF Bad, Defined
        <4> QED
          BY <4>1, <2>3
      <3>2. m - 1 \notin Bad
        BY <2>1, <3>1
      <3>3. Defined(k + 1)
        BY <3>1, <3>2
      <3>4. PICK g : /\ g = [pos \in k + 1..length |-> g[pos]]
                     /\ \A pos \in k + 1..length : g[pos] = Bounds(length, g, pos)
        BY <3>3
      <3>5. PICK f : f = [pos \in k..length |-> IF pos = k THEN Bounds(length, g, k) ELSE g[pos]]
        OBVIOUS
      <3>6. ASSUME NEW pos \in k..length PROVE f[pos] = Bounds(length, f, pos)
        <4>1. Bounds(length, f, pos) = Bounds(length, g, pos)
          <5>1. CASE pos >= length - 1
            BY <5>1 DEF Bounds
          <5>2. CASE pos < length - 1
            <6>1. SpanEnd(pos, length - 1) \in pos + 1 .. length - 1
              <7>1. pos \in Nat /\ length - 1 \in Nat /\ pos < length - 1
                BY <5>2
              <7> QED
                BY <7>1, SpanEndAhead
            <6>2. PICK e \in pos + 1 .. length - 1 : e = SpanEnd(pos, length - 1)
              BY <6>1
            <6>3. f[e] = g[e]
              BY <3>5, <6>2
            <6> QED
              BY <6>2, <6>3 DEF Bounds
          <5> QED
            BY <5>1, <5>2
        <4>2. CASE pos = k
          BY <3>5, <4>1, <4>2
        <4>3. CASE pos # k
          <5>1. pos \in k + 1..length
            BY <4>3
          <5> QED
            BY <3>4, <3>5, <4>1, <4>3, <5>1
        <4> QED
          BY <4>2, <4>3
      <3>7. f = [pos \in k..length |-> f[pos]]
        BY <3>5
      <3>8. Defined(k)
        BY <3>6, <3>7
      <3> QED
        BY <2>2, <2>3, <3>8
    <2> QED
      BY <2>4, <2>5
  <1>2. Defined(0)
    <2>1. length \notin Bad
      BY <1>1
    <2> QED
      BY SMTT(30), <2>1
  <1>3. PICK f : /\ f = [pos \in 0..length |-> f[pos]]
                 /\ \A pos \in 0..length : f[pos] = Bounds(length, f, pos)
    BY <1>2
  <1>4. f = [pos \in 0..length |-> Bounds(length, f, pos)]
    BY <1>3
  <1> QED
    BY <1>4

(* A suffix that has more than the held token is cut up to its last token.    *)
LEMMA SpanEndsReach ==
    ASSUME SessionAssumption, NEW length \in Nat, NEW start \in 0..length
    PROVE  /\ SpanEnds(start, length) \subseteq start + 1 .. length - 1
           /\ start < length - 1 => length - 1 \in SpanEnds(start, length)
  <1>1. PICK f : /\ SpanEnds(start, length) = f[start]
                 /\ f = [pos \in 0..length |-> Bounds(length, f, pos)]
    <2> DEFINE Rec(f) == [pos \in 0..length |->
                            IF pos >= length - 1 \/ SpanEnd(pos, length - 1) <= pos THEN {}
                            ELSE {SpanEnd(pos, length - 1)} \cup f[SpanEnd(pos, length - 1)]]
    <2>1. \E f : f = Rec(f)
      <3>1. PICK f : f = [pos \in 0..length |-> Bounds(length, f, pos)]
        BY BoundsDefined
      <3>2. f = Rec(f)
        BY <3>1 DEF Bounds
      <3> QED
        BY <3>2
    <2>2. SpanEnds(start, length) = (CHOOSE f : f = Rec(f))[start]
      BY DEF SpanEnds
    <2>3. PICK f : f = Rec(f) /\ SpanEnds(start, length) = f[start]
      BY <2>1, <2>2
    <2>4. f = [pos \in 0..length |-> Bounds(length, f, pos)]
      BY <2>3 DEF Bounds
    <2> QED
      BY <2>3, <2>4
  <1> DEFINE Reaches(pos) == /\ f[pos] \subseteq pos + 1 .. length - 1
                             /\ pos < length - 1 => length - 1 \in f[pos]
             Bad == {m \in 0..length : ~ Reaches(length - m)}
  <1>2. ASSUME NEW pos \in 0..length, \A e \in pos + 1 .. length : Reaches(e) PROVE Reaches(pos)
    <2>1. f[pos] = Bounds(length, f, pos)
      BY <1>1
    <2>2. CASE pos >= length - 1
      BY <2>1, <2>2 DEF Bounds
    <2>3. CASE pos < length - 1
      <3>1. PICK e \in pos + 1 .. length - 1 : e = SpanEnd(pos, length - 1)
        <4>1. pos \in Nat /\ length - 1 \in Nat /\ pos < length - 1
          BY <2>3
        <4> QED
          BY <4>1, SpanEndAhead
      <3>2. f[pos] = {e} \cup f[e]
        BY <2>1, <2>3, <3>1 DEF Bounds
      <3>3. Reaches(e)
        BY <1>2, <3>1
      <3>4. f[pos] \subseteq pos + 1 .. length - 1
        BY <3>1, <3>2, <3>3
      <3>5. length - 1 \in f[pos]
        BY <3>1, <3>2, <3>3
      <3> QED
        BY <3>4, <3>5
    <2> QED
      BY <2>2, <2>3
  <1>3. ASSUME Bad # {} PROVE FALSE
    <2>1. PICK m \in Bad : \A n \in Bad : m <= n
      <3>1. Bad \subseteq Nat
        OBVIOUS
      <3> HIDE DEF Bad
      <3> QED
        BY <1>3, <3>1, LeastExists
    <2>2. m \in 0..length /\ ~ Reaches(length - m)
      OBVIOUS
    <2>3. PICK pos \in 0..length : pos = length - m
      BY <2>2
    <2>4. ASSUME NEW e \in pos + 1 .. length PROVE Reaches(e)
      <3>1. length - e \in 0..length /\ length - (length - e) = e /\ ~ (m <= length - e)
        BY <2>2, <2>3
      <3>2. length - e \notin Bad
        BY <2>1, <3>1
      <3> HIDE DEF Reaches
      <3> QED
        BY <3>1, <3>2
    <2> HIDE DEF Reaches
    <2> QED
      BY <1>2, <2>2, <2>3, <2>4
  <1>4. Reaches(start)
    <2>1. length - start \in 0..length /\ length - (length - start) = start
      OBVIOUS
    <2>2. length - start \notin Bad
      BY <1>3
    <2> HIDE DEF Reaches
    <2> QED
      BY <2>1, <2>2
  <1> QED
    BY <1>1, <1>4

(* How many of a set come before i.                                           *)
Rank(S, i) == Cardinality({j \in S : j < i})

(* The n-th element of a bounded set of naturals, counted from zero.          *)
LEMMA NthExists ==
    ASSUME NEW b \in Nat, NEW S, S \subseteq 0..b, NEW n \in Nat, n < Cardinality(S)
    PROVE  \E i \in S : Rank(S, i) = n
  <1> DEFINE Below(i) == {j \in S : j < i}
             Late == {i \in S : Cardinality(Below(i)) >= n}
  <1>0. S \subseteq Nat /\ IsFiniteSet(S) /\ \A j \in S : j \in Nat /\ j <= b
    <2>1. S \in SUBSET Nat /\ \A j \in S : j \in Nat /\ j <= b
      OBVIOUS
    <2> QED
      BY <2>1, FS_BoundedSetOfNaturals
  <1>1. ASSUME NEW i \in S
        PROVE  IsFiniteSet(Below(i)) /\ Cardinality(Below(i)) \in Nat
    <2>1. Below(i) \in SUBSET S
      OBVIOUS
    <2> QED
      BY <1>0, <2>1, FS_Subset, FS_CardinalityType
  <1>2. Cardinality(S) \in Nat
    BY <1>0, FS_CardinalityType
  <1>3. ASSUME NEW i \in S, \A j \in S : j <= i
        PROVE  Cardinality(Below(i)) = Cardinality(S) - 1
    <2>1. \A j \in S : j < i <=> j # i
      BY <1>0, <1>3
    <2>2. Below(i) = S \ {i}
      BY <2>1
    <2> HIDE DEF Below
    <2> QED
      BY <1>0, <2>2, FS_RemoveElement
  <1>4. ASSUME NEW i \in S, NEW p \in S, p < i, \A j \in S : j < i => j <= p
        PROVE  Cardinality(Below(i)) = Cardinality(Below(p)) + 1
    <2>0. \A j \in S : j < i <=> j < p \/ j = p
      BY <1>0, <1>4
    <2>1. Below(i) = Below(p) \cup {p} /\ p \notin Below(p)
      <3>1. \A j : j \in Below(i) <=> j \in Below(p) \cup {p}
        BY <1>4, <2>0
      <3>2. p \in Nat /\ ~ (p < p)
        BY <1>0
      <3>3. p \notin Below(p)
        BY <3>2
      <3>4. Below(i) = Below(p) \cup {p}
        <4> HIDE DEF Below
        <4> QED
          BY <3>1
      <3> QED
        BY <3>3, <3>4
    <2>2. IsFiniteSet(Below(p))
      BY <1>1
    <2> HIDE DEF Below
    <2> QED
      BY <2>1, <2>2, FS_AddElement
  <1>5. Late # {}
    <2>1. S # {}
      BY <1>0, <1>2, FS_EmptySet
    <2>3. PICK i \in S : \A j \in S : j <= i
      BY <1>0, <2>1, MaxIsGreatest
    <2>4. Cardinality(Below(i)) >= n
      <3> HIDE DEF Below
      <3> QED
        BY <1>2, <1>3, <2>3
    <2> QED
      BY <2>4
  <1>6. PICK i \in Late : \A j \in Late : i <= j
    <2>1. Late \subseteq Nat
      BY <1>0
    <2> HIDE DEF Late
    <2> QED
      BY <1>5, <2>1, LeastExists
  <1>7. CASE Below(i) = {}
    <2>1. Cardinality(Below(i)) = 0 /\ Cardinality(Below(i)) >= n
      BY <1>6, <1>7, FS_EmptySet
    <2>2. Rank(S, i) = n
      BY <2>1, <1>6 DEF Rank
    <2> QED
      BY <1>6, <2>2
  <1>8. CASE Below(i) # {}
    <2>1. i \in S /\ Cardinality(Below(i)) >= n
      BY <1>6
    <2>2. Below(i) \subseteq Nat /\ (\A j \in Below(i) : j <= i) /\ i \in Nat
      <3>1. i \in Nat /\ \A j \in Below(i) : j \in Nat /\ j < i
        BY <1>0, <2>1
      <3> HIDE DEF Below
      <3> QED
        BY <3>1
    <2>3. PICK p \in Below(i) : \A j \in Below(i) : j <= p
      <3> HIDE DEF Below
      <3> QED
        BY <1>8, <2>2, MaxIsGreatest
    <2>4. p \in S /\ p < i /\ \A j \in S : j < i => j <= p
      BY <2>3
    <2>5. Cardinality(Below(i)) = Cardinality(Below(p)) + 1
      <3> HIDE DEF Below
      <3> QED
        BY <1>4, <2>1, <2>4
    <2>6. ~ (Cardinality(Below(p)) >= n)
      <3>1. p \in Nat /\ i \in Nat /\ ~ (i <= p)
        BY <1>0, <2>1, <2>4
      <3> QED
        BY <1>6, <2>4, <3>1
    <2>7. Cardinality(Below(p)) \in Nat
      BY <1>1, <2>4
    <2>8. Cardinality(Below(i)) = n
      <3> HIDE DEF Below
      <3> QED
        BY <2>1, <2>5, <2>6, <2>7
    <2>9. Rank(S, i) = n
      BY <2>8 DEF Rank
    <2> QED
      BY <2>1, <2>9
  <1> QED
    BY <1>7, <1>8

(* The places where a prompt is cut are page floors (chat_prefix_cuts).       *)
LEMMA CutsAreNumbers ==
    ASSUME SessionAssumption, NEW ids \in Seq(Tokens)
    PROVE  PrefixCuts(ids) \subseteq Nat
  <1> DEFINE starts == {i \in DOMAIN ids : ids[i] = ImStart}
             nth(n) == CHOOSE i \in starts : Cardinality({j \in starts : j < i}) = n
             count  == Cardinality(starts)
             picked == (IF count >= 2 THEN {1} ELSE {}) \cup (IF count >= 3 THEN {count - 2} ELSE {})
  <1>1. PrefixCuts(ids) = {PageFloor(nth(n) - 1) : n \in picked} \ {0}
    BY DEF PrefixCuts
  <1>2. starts \subseteq 0..Len(ids) /\ Len(ids) \in Nat /\ \A i \in starts : i \in Nat \ {0}
    OBVIOUS
  <1>3. count \in Nat
    <2>1. starts \in SUBSET Nat /\ \A i \in starts : i <= Len(ids)
      BY <1>2
    <2> HIDE DEF starts
    <2> QED
      BY <1>2, <2>1, FS_BoundedSetOfNaturals, FS_CardinalityType
  <1>4. ASSUME NEW n \in picked PROVE PageFloor(nth(n) - 1) \in Nat
    <2>1. n \in Nat /\ n < count
      <3> HIDE DEF count
      <3> QED
        BY <1>3
    <2>2. \E i \in starts : Cardinality({j \in starts : j < i}) = n
      <3>1. PICK b \in Nat : starts \subseteq 0..b
        BY <1>2
      <3>2. n \in Nat /\ n < Cardinality(starts)
        BY <2>1
      <3> HIDE DEF starts, picked
      <3>3. PICK i \in starts : Rank(starts, i) = n
        BY <3>1, <3>2, NthExists
      <3> QED
        BY <3>3 DEF Rank
    <2>3. nth(n) \in starts
      <3> HIDE DEF starts
      <3> QED
        BY <2>2
    <2>4. PICK m \in Nat : m = nth(n) - 1
      <3>1. nth(n) \in Nat \ {0}
        BY <1>2, <2>3
      <3> HIDE DEF nth
      <3> QED
        BY <3>1
    <2>5. PICK p \in Nat \ {0} : p = Page
      BY DEF SessionAssumption
    <2>6. (m \div p) \in Nat
      OBVIOUS
    <2>7. (m \div p) * p \in Nat
      BY <2>6
    <2> HIDE DEF nth
    <2> QED
      BY <2>4, <2>5, <2>7 DEF PageFloor
  <1> HIDE DEF picked, nth
  <1> QED
    BY <1>1, <1>4

(* What is left to prefill lies between the prefix that is held and the held  *)
(* token, and ends before that one.                                           *)
LEMMA EndsReach ==
    ASSUME SessionAssumption, NEW ids \in Seq(Tokens), NEW start \in 0..Len(ids)
    PROVE  /\ Ends(ids, start) \subseteq start + 1 .. Len(ids) - 1
           /\ Ends(ids, start) # {} => Len(ids) - 1 \in Ends(ids, start)
  <1>1. Len(ids) \in Nat /\ start \in 0..Len(ids)
    OBVIOUS
  <1>2. /\ SpanEnds(start, Len(ids)) \subseteq start + 1 .. Len(ids) - 1
        /\ start < Len(ids) - 1 => Len(ids) - 1 \in SpanEnds(start, Len(ids))
    BY <1>1, SpanEndsReach
  <1>3. PrefixCuts(ids) \subseteq Nat
    BY CutsAreNumbers
  <1>4. {c \in PrefixCuts(ids) : start < c /\ c < Len(ids) - 1} \subseteq start + 1 .. Len(ids) - 1
    BY <1>1, <1>3
  <1>5. Ends(ids, start) = SpanEnds(start, Len(ids)) \cup {c \in PrefixCuts(ids) : start < c /\ c < Len(ids) - 1}
    BY DEF Ends
  <1>6. Ends(ids, start) \subseteq start + 1 .. Len(ids) - 1
    BY <1>2, <1>4, <1>5
  <1>7. ASSUME Ends(ids, start) # {} PROVE Len(ids) - 1 \in Ends(ids, start)
    <2>1. PICK e \in start + 1 .. Len(ids) - 1 : TRUE
      BY <1>6, <1>7
    <2>2. start < Len(ids) - 1
      BY <1>1, <2>1
    <2> QED
      BY <1>2, <1>5, <2>2
  <1> QED
    BY <1>6, <1>7

(* How far a prompt agrees with the tape.                                     *)
LEMMA SharedAgrees ==
    ASSUME NEW T, NEW s \in Seq(T), NEW t \in Seq(T)
    PROVE  /\ Shared(s, t) \in 0..Len(s) /\ Shared(s, t) <= Len(t)
           /\ Prefix(s, Shared(s, t)) = Prefix(t, Shared(s, t))
  <1>1. PICK a \in Nat, b \in Nat : a = Len(s) /\ b = Len(t)
    OBVIOUS
  <1>2. Min({a, b}) = IF a <= b THEN a ELSE b
    BY MinOfTwo
  <1>3. PICK m \in Nat : m = Min({a, b}) /\ m <= a /\ m <= b
    BY <1>2
  <1> DEFINE S == {n \in 0..m : Prefix(s, n) = Prefix(t, n)}
  <1>4. S \subseteq Nat /\ \A n \in S : n <= m
    OBVIOUS
  <1>5. 0 \in S
    <2>1. Prefix(s, 0) = Prefix(t, 0)
      BY DEF Prefix
    <2> QED
      BY <2>1
  <1>6. Max(S) \in S
    <2> HIDE DEF S
    <2> QED
      BY <1>4, <1>5, MaxIsGreatest
  <1>7. Shared(s, t) = Max(S)
    BY <1>1, <1>3 DEF Shared
  <1> QED
    BY <1>1, <1>3, <1>6, <1>7

-----------------------------------------------------------------------------
(* The invariant. Present is what the cache holds: the tape between turns, in *)
(* a turn the tokens up to at. Until a mark of other tokens was restored      *)
(* (misled), everything that is kept is of a prefix of it, the marks apart    *)
(* that a cancelled turn left.                                                *)

DraftSet == [position : Nat, carry : Seq(Tokens) \cup {None}]
JobSet == [ids : Seq(Tokens), max : Nat, todo : SUBSET Nat, at : Nat,
           produced : Seq(Tokens), closed : BOOLEAN, then : {"window", "inject", "end"}]

SessionTypes == tape \in Seq(Tokens) /\ job \in JobSet \cup {None} /\ misled \in BOOLEAN

DeviceTypes ==
    /\ state \in Seq(Tokens)
    /\ pages \in Seq(Seq(Tokens) \cup {None})
    /\ cycle \in DraftSet \cup {None}

Present == IF job = None THEN tape ELSE Prefix(Line(job), job.at)

\* The marks never outnumber their buffers.
MarksFit ==
    /\ \E bound \in Nat : DOMAIN marks \subseteq 1..bound
    /\ Cardinality(DOMAIN marks) <= PrefixMarks

\* What is left of the prefill lies before the held token.
InTurn == job # None =>
    /\ Len(job.ids) >= 2 /\ job.at <= Len(Line(job))
    /\ job.todo \subseteq job.at + 1 .. Len(job.ids) - 1
    /\ job.todo # {} => job.produced = <<>> /\ Len(job.ids) - 1 \in job.todo
    /\ job.then # "window" => job.produced # <<>>

\* The runner and the draft stand behind the present, which begins with the tape.
Standing ==
    /\ state = Present
    /\ \A i \in 1..Len(Present) : pages[i] = Prefix(Present, i)
    /\ Len(tape) <= Len(Present) /\ Prefix(Present, Len(tape)) = tape
    /\ Present # <<>> => cycle = Draft(Len(Present), Present)
    /\ job # None => cycle # None /\ cycle.position = job.at

\* A mark's carry is that of its state, and every mark that no cancelled turn
\* left is one of the present, so that a shared prefix may restore it.
MarksPresent ==
    \A n \in DOMAIN marks :
        /\ marks[n].carry = marks[n].state
        /\ n \notin left => n \in 1..Len(Present) /\ marks[n].state = Prefix(Present, n)

\* What a cancelled turn returns to is the tape.
Committed ==
    IF tape = <<>> THEN snapshot = None /\ draftMark = None
    ELSE snapshot = tape /\ draftMark = Draft(Len(tape), tape)

TurnInv == SessionTypes /\ InTurn /\ MarksFit
Clean == DeviceTypes /\ Standing /\ MarksPresent /\ Committed
SessionInv == TurnInv /\ (~misled => Clean)

(* None stands for no draft and no job, and is neither.                       *)
LEMMA NoneIsNone ==
    ASSUME SessionAssumption
    PROVE  /\ None \notin DraftSet /\ None \notin JobSet /\ None \notin Seq(Tokens)
           /\ \A n \in Nat, s \in Seq(Tokens) : /\ Draft(n, s) \in DraftSet
                                                /\ Draft(n, s).position = n /\ Draft(n, s).carry = s
           /\ NewDraft \in DraftSet /\ NewDraft.position = 0
  BY DEF SessionAssumption, DraftSet, JobSet, Draft, NewDraft

(* A turn's tokens are its prompt and what was produced, and the present is   *)
(* what of them is in the cache.                                              *)
LEMMA PresentIs ==
    ASSUME SessionAssumption, SessionTypes, InTurn
    PROVE  /\ Present \in Seq(Tokens)
           /\ job = None => Present = tape
           /\ job # None => /\ job \in JobSet
                            /\ Line(job) \in Seq(Tokens)
                            /\ Len(Line(job)) = Len(job.ids) + Len(job.produced)
                            /\ Present = Prefix(Line(job), job.at)
                            /\ Len(Present) = job.at
  <1>1. CASE job = None
    BY <1>1 DEF Present, SessionTypes
  <1>2. CASE job # None
    <2>1. job \in JobSet /\ job.at <= Len(Line(job))
      BY <1>2 DEF SessionTypes, InTurn
    <2>2. PICK ids \in Seq(Tokens), produced \in Seq(Tokens), at \in Nat :
             ids = job.ids /\ produced = job.produced /\ at = job.at
      BY <2>1 DEF JobSet
    <2>3. PICK line \in Seq(Tokens) : line = Line(job) /\ Len(line) = Len(ids) + Len(produced)
      <3>1. Line(job) = ids \o produced
        BY <2>2 DEF Line
      <3> QED
        BY <3>1, JoinFacts
    <2>4. at \in 0..Len(line)
      <3>1. at <= Len(line)
        BY Zenon, <2>1, <2>2, <2>3
      <3>2. Len(line) \in Nat
        BY <2>3
      <3> QED
        BY <3>1, <3>2
    <2>5. Prefix(line, at) \in Seq(Tokens) /\ Len(Prefix(line, at)) = at
      BY <2>4, PrefixFacts
    <2>6. Present = Prefix(line, at)
      BY <1>2, <2>2, <2>3 DEF Present
    <2> QED
      BY <1>2, <2>1, <2>2, <2>3, <2>5, <2>6
  <1> QED
    BY <1>1, <1>2

(* A forward of the next tokens moves the state, the pages and the draft on   *)
(* together, and leaves the pages before it.                                  *)
LEMMA ForwardMoves ==
    ASSUME SessionAssumption, SessionTypes, DeviceTypes, Standing, InTurn, job # None,
           NEW tokens \in Seq(Tokens), NEW rows \in Nat, rows >= Len(tokens),
           Forward(tokens, rows), Absorb(tokens)
    PROVE  /\ state' = Present \o tokens
           /\ pages' \in Seq(Seq(Tokens) \cup {None})
           /\ \A i \in 1..job.at + Len(tokens) : pages'[i] = Prefix(Present \o tokens, i)
           /\ cycle' = Draft(job.at + Len(tokens), Present \o tokens)
  <1>1. PICK p \in Seq(Tokens), at \in Nat : p = Present /\ at = job.at /\ Len(p) = at
    BY PresentIs DEF JobSet
  <1>2. state = p /\ cycle.position = at
    BY <1>1 DEF Standing
  <1>3. PICK q \in Seq(Tokens) : q = p \o tokens /\ Len(q) = at + Len(tokens)
    BY <1>1, JoinFacts
  <1>4. state' = q
    BY <1>2, <1>3 DEF Forward
  <1>5. cycle' = Draft(at + Len(tokens), q)
    BY <1>2, <1>4 DEF Absorb
  <1>6. PICK k \in Nat : k = Len(tokens) /\ k <= rows
    OBVIOUS
  <1>7. PICK l \in Nat : l = Max({Len(pages), at + rows}) /\ l >= at + rows /\ l >= Len(pages)
    <2>1. PICK c \in Nat, d \in Nat : c = Len(pages) /\ d = at + rows
      BY DEF DeviceTypes
    <2>2. Max({c, d}) = IF c <= d THEN d ELSE c
      BY MaxOfTwo
    <2> QED
      BY <2>1, <2>2
  <1>8. pages' = [i \in 1..Max({Len(pages), job.at + rows}) |->
                   CASE i \in job.at + 1 .. job.at + Len(tokens) -> Prefix(state', Len(state) + i - job.at)
                     [] i \in job.at + Len(tokens) + 1 .. job.at + rows -> None
                     [] OTHER -> pages[i]]
    BY Zenon DEF Forward
  <1>9. ASSUME NEW i \in 1..l
        PROVE  /\ i \in at + 1 .. at + k => pages'[i] = Prefix(q, i)
               /\ i \in at + k + 1 .. at + rows => pages'[i] = None
               /\ i \notin at + 1 .. at + rows => pages'[i] = pages[i]
    <2> DEFINE row == CASE i \in at + 1 .. at + k -> Prefix(q, at + i - at)
                        [] i \in at + k + 1 .. at + rows -> None
                        [] OTHER -> pages[i]
    <2>1. pages'[i] = row
      <3>1. Len(state) = at /\ i \in 1..Max({Len(pages), job.at + rows})
        BY <1>1, <1>2, <1>7
      <3>2. pages'[i] = CASE i \in job.at + 1 .. job.at + Len(tokens) -> Prefix(state', Len(state) + i - job.at)
                          [] i \in job.at + Len(tokens) + 1 .. job.at + rows -> None
                          [] OTHER -> pages[i]
        BY Zenon, <3>1, <1>8
      <3> QED
        BY Zenon, <3>1, <3>2, <1>1, <1>4, <1>6
    <2>2. at + i - at = i
      OBVIOUS
    <2>3. CASE i \in at + 1 .. at + k
      <3>0. i \notin at + k + 1 .. at + rows /\ i \in at + 1 .. at + rows
        BY <2>3, <1>6
      <3>1. row = Prefix(q, at + i - at)
        BY <2>3, <3>0
      <3> HIDE DEF row
      <3> QED
        BY <2>1, <2>2, <2>3, <3>0, <3>1
    <2>4. CASE i \in at + k + 1 .. at + rows
      <3>0. i \notin at + 1 .. at + k /\ i \in at + 1 .. at + rows
        BY <2>4, <1>6
      <3>1. row = None
        BY <2>4, <3>0
      <3> HIDE DEF row
      <3> QED
        BY <2>1, <2>4, <3>0, <3>1
    <2>5. CASE i \notin at + 1 .. at + rows
      <3>0. i \notin at + 1 .. at + k /\ i \notin at + k + 1 .. at + rows
        BY <2>5, <1>6
      <3>1. row = pages[i]
        BY <3>0
      <3> HIDE DEF row
      <3> QED
        BY <2>1, <2>5, <3>0, <3>1
    <2>6. k <= rows
      BY <1>6
    <2> HIDE DEF row
    <2> QED
      BY <2>3, <2>4, <2>5, <2>6
  <1>10. ASSUME NEW i \in 1..l PROVE pages'[i] \in Seq(Tokens) \cup {None}
    <2>1. CASE i \in at + 1 .. at + k
      <3>1. i \in 0..Len(q)
        BY <2>1, <1>3, <1>6
      <3> QED
        BY <2>1, <3>1, <1>9, PrefixFacts
    <2>2. CASE i \in at + k + 1 .. at + rows
      BY <2>2, <1>9
    <2>3. CASE i \notin at + 1 .. at + rows /\ i <= at
      <3>1. pages'[i] = pages[i] /\ pages[i] = Prefix(p, i)
        BY <2>3, <1>1, <1>9 DEF Standing
      <3> QED
        BY <2>3, <3>1, <1>1, PrefixFacts
    <2>4. CASE i \notin at + 1 .. at + rows /\ i > at
      <3>1. pages'[i] = pages[i]
        BY <2>4, <1>9
      <3>2. PICK c \in Nat, d \in Nat : c = Len(pages) /\ d = at + rows
        BY DEF DeviceTypes
      <3>3. l = IF c <= d THEN d ELSE c
        BY <3>2, <1>1, <1>7, MaxOfTwo
      <3>4. i \in 1..c
        BY <2>4, <3>2, <3>3
      <3> QED
        BY <3>1, <3>2, <3>4 DEF DeviceTypes
    <2> QED
      BY <2>1, <2>2, <2>3, <2>4, <1>6
  <1>11. pages' \in Seq(Seq(Tokens) \cup {None})
    <2>1. DOMAIN pages' = 1..l /\ pages' = [i \in DOMAIN pages' |-> pages'[i]]
      <3>1. DOMAIN pages' = 1..Max({Len(pages), job.at + rows})
        BY Zenon, <1>8
      <3>2. pages' = [i \in DOMAIN pages' |-> pages'[i]]
        BY <1>8
      <3> QED
        BY <3>1, <3>2, <1>1, <1>7
    <2> DEFINE S == Seq(Tokens) \cup {None}
    <2>2. pages' \in [1..l -> S]
      <3> HIDE DEF S
      <3> QED
        BY <2>1, <1>10 DEF S
    <2> HIDE DEF S
    <2>3. pages' \in Seq(S)
      BY <2>2, l \in Nat
    <2> QED
      BY <2>3 DEF S
  <1>12. ASSUME NEW i \in 1..at + k PROVE pages'[i] = Prefix(q, i)
    <2>1. i \in 1..l
      BY <1>6, <1>7
    <2>2. CASE i \in at + 1 .. at + k
      BY <2>1, <2>2, <1>9
    <2>3. CASE i \in 1..at
      <3>1. pages'[i] = pages[i]
        BY <2>1, <2>3, <1>9
      <3>2. pages[i] = Prefix(p, i)
        BY <2>3, <1>1 DEF Standing
      <3>3. Prefix(q, i) = Prefix(p, i)
        BY <1>1, <1>3, <2>3, PrefixOfFirst
      <3> QED
        BY <3>1, <3>2, <3>3
    <2> QED
      BY <2>2, <2>3
  <1> QED
    BY <1>1, <1>3, <1>4, <1>5, <1>6, <1>11, <1>12

(* A step of a turn that feeds the next of the turn's tokens.                 *)
LEMMA TurnGrows ==
    ASSUME SessionAssumption, TurnInv, job # None,
           NEW tokens \in Seq(Tokens), job' \in JobSet, job'.at = job.at + Len(tokens),
           Prefix(Line(job)', job'.at) = Present \o tokens,
           UNCHANGED <<tape, misled>>
    PROVE  /\ SessionTypes' /\ job' # None
           /\ Present' = Present \o tokens /\ Present' \in Seq(Tokens)
           /\ Len(Present') = job.at + Len(tokens)
           /\ \A n \in 0..Len(Present) : Prefix(Present', n) = Prefix(Present, n)
  <1>1. PICK p \in Seq(Tokens), at \in Nat : p = Present /\ at = job.at /\ Len(p) = at
    BY PresentIs DEF JobSet, TurnInv
  <1>2. PICK q \in Seq(Tokens) : q = p \o tokens /\ Len(q) = at + Len(tokens)
    BY <1>1, JoinFacts
  <1>3. job' # None /\ Present' = q
    BY <1>1, <1>2, NoneIsNone DEF Present
  <1>4. ASSUME NEW n \in 0..at PROVE Prefix(q, n) = Prefix(p, n)
    BY <1>1, <1>2, PrefixOfFirst
  <1>5. SessionTypes'
    BY DEF TurnInv, SessionTypes
  <1> QED
    BY <1>1, <1>2, <1>3, <1>4, <1>5

LEMMA TurnMoves ==
    ASSUME SessionAssumption, TurnInv, Clean, job # None,
           NEW tokens \in Seq(Tokens), NEW rows \in Nat, rows >= Len(tokens),
           Forward(tokens, rows), Absorb(tokens),
           job' \in JobSet, job'.at = job.at + Len(tokens),
           Prefix(Line(job)', job'.at) = Present \o tokens,
           UNCHANGED <<tape, snapshot, draftMark, misled>>
    PROVE  /\ DeviceTypes' /\ Standing' /\ Committed'
           /\ state' = Present' /\ cycle'.carry = Present'
  <1>1. PICK p \in Seq(Tokens), at \in Nat : p = Present /\ at = job.at /\ Len(p) = at
    BY PresentIs DEF JobSet, TurnInv
  <1>2. PICK q \in Seq(Tokens) : q = p \o tokens /\ Len(q) = at + Len(tokens)
    BY <1>1, JoinFacts
  <1>3. job' # None /\ Present' = q /\ \A n \in 0..at : Prefix(q, n) = Prefix(p, n)
    BY <1>1, <1>2, TurnGrows
  <1>4. /\ state' = q
        /\ pages' \in Seq(Seq(Tokens) \cup {None})
        /\ \A i \in 1..at + Len(tokens) : pages'[i] = Prefix(q, i)
        /\ cycle' = Draft(at + Len(tokens), q)
    BY <1>1, <1>2, ForwardMoves DEF TurnInv, Clean
  <1>5. /\ cycle' \in DraftSet /\ cycle' # None
        /\ cycle'.position = at + Len(tokens) /\ cycle'.carry = q
    <2>1. at + Len(tokens) \in Nat
      BY <1>2
    <2> QED
      BY <2>1, <1>4, NoneIsNone
  <1>6. DeviceTypes'
    BY <1>2, <1>4, <1>5 DEF DeviceTypes
  <1>8. Standing'
    <2>1. PICK c \in Nat : c = Len(tape) /\ c <= at /\ Prefix(p, c) = tape
      BY <1>1 DEF TurnInv, Clean, Standing, SessionTypes
    <2>2. tape' = tape /\ Prefix(q, c) = tape /\ c <= Len(q)
      BY <2>1, <1>2, <1>3
    <2>3. \A i \in 1..Len(q) : pages'[i] = Prefix(q, i)
      BY <1>2, <1>4
    <2>4. cycle' = Draft(Len(q), q) /\ cycle'.position = job'.at
      BY <1>1, <1>2, <1>4, <1>5
    <2>5. Len(tape)' <= Len(Present)' /\ Prefix(Present, Len(tape))' = tape'
      BY Zenon, <2>1, <2>2, <1>3
    <2> QED
      BY <1>3, <1>4, <1>5, <2>3, <2>4, <2>5 DEF Standing
  <1>9. Committed'
    BY DEF Committed, Clean
  <1> QED
    BY <1>3, <1>4, <1>5, <1>6, <1>8, <1>9

(* Three marks have one that is neither of two.                               *)
LEMMA BetweenTwo ==
    ASSUME NEW S, IsFiniteSet(S), Cardinality(S) >= 3, NEW x, NEW y
    PROVE  S \ {x, y} # {}
  <1>1. PICK c \in Nat : c = Cardinality(S) /\ c >= 3
    BY FS_CardinalityType
  <1>2. IsFiniteSet(S \ {x}) /\ Cardinality(S \ {x}) = IF x \in S THEN c - 1 ELSE c
    BY <1>1, FS_RemoveElement
  <1>3. PICK d \in Nat : d = Cardinality(S \ {x}) /\ d >= 2
    BY <1>1, <1>2
  <1> DEFINE R == S \ {x}
  <1>4. Cardinality(R \ {y}) = IF y \in R THEN d - 1 ELSE d
    <2>1. IsFiniteSet(R) /\ d = Cardinality(R)
      BY <1>2, <1>3
    <2> HIDE DEF R
    <2> QED
      BY <2>1, FS_RemoveElement
  <1>5. Cardinality(R \ {y}) # 0
    <2> HIDE DEF R
    <2> QED
      BY <1>3, <1>4
  <1>6. R \ {y} = S \ {x, y}
    OBVIOUS
  <1>7. Cardinality({}) = 0
    BY FS_EmptySet
  <1> HIDE DEF R
  <1> QED
    BY <1>5, <1>6, <1>7

(* The mark that gives way is one of the marks (_on_span, session.py).        *)
LEMMA VictimIsMark ==
    ASSUME SessionAssumption, DOMAIN marks \subseteq Nat \ {0}, IsFiniteSet(DOMAIN marks),
           Cardinality(DOMAIN marks) >= 3, NEW b \in Nat, \A n \in DOMAIN marks : n <= b
    PROVE  Victim \in DOMAIN marks
  <1> DEFINE all == DOMAIN marks
             inner == DOMAIN marks \ {Min(DOMAIN marks), Max(DOMAIN marks)}
             gap(n) == Min({m \in DOMAIN marks : m > n}) - Max({m \in DOMAIN marks : m < n})
             lesser(n, m) == gap(n) < gap(m) \/ (gap(n) = gap(m) /\ n <= m)
  <1>1. Victim = CHOOSE n \in inner : \A m \in inner : lesser(n, m)
    BY DEF Victim
  <1>2. inner # {}
    <2> HIDE DEF inner
    <2> QED
      BY BetweenTwo DEF inner
  <1>3. all \subseteq Nat /\ all # {} /\ inner \subseteq all
    BY <1>2
  <1>4. ASSUME NEW n \in inner PROVE gap(n) \in Nat
    <2>1. Min(all) \in all /\ Max(all) \in all /\ (\A m \in all : Min(all) <= m) /\ \A m \in all : m <= Max(all)
      <3> HIDE DEF all
      <3> QED
        BY <1>3, MinIsLeast, MaxIsGreatest DEF all
    <2>2. n \in Nat /\ Min(all) \in Nat /\ Max(all) \in Nat /\ n # Min(all) /\ n # Max(all) /\ n \in all
      BY <1>3, <2>1
    <2>3. Min(all) < n /\ n < Max(all)
      BY <2>1, <2>2
    <2> DEFINE above == {m \in all : m > n}
               below == {m \in all : m < n}
    <2>4. above \subseteq Nat /\ above # {} /\ \A m \in above : m \in Nat /\ m > n
      BY <1>3, <2>1, <2>2, <2>3
    <2>5. below \subseteq Nat /\ below # {} /\ \A m \in below : m \in Nat /\ m < n /\ m <= b
      BY <1>3, <2>1, <2>2, <2>3
    <2>6. Min(above) \in Nat /\ Min(above) > n
      <3>1. Min(above) \in above
        <4> HIDE DEF above
        <4> QED
          BY <2>4, MinIsLeast
      <3> HIDE DEF above
      <3> QED
        BY <2>4, <3>1
    <2>7. Max(below) \in Nat /\ Max(below) < n
      <3>1. Max(below) \in below
        <4> HIDE DEF below
        <4> QED
          BY <2>5, MaxIsGreatest
      <3> HIDE DEF below
      <3> QED
        BY <2>5, <3>1
    <2>8. gap(n) = Min(above) - Max(below)
      OBVIOUS
    <2> HIDE DEF above, below, gap
    <2> QED
      BY <2>2, <2>6, <2>7, <2>8
  <1>5. \E n \in inner : \A m \in inner : lesser(n, m)
    <2> DEFINE gaps == {gap(n) : n \in inner}
    <2> HIDE DEF gap, inner, all
    <2>1. gaps \subseteq Nat /\ gaps # {}
      BY <1>2, <1>4
    <2>2. PICK g \in gaps : \A h \in gaps : g <= h
      <3> HIDE DEF gaps
      <3> QED
        BY <2>1, LeastExists
    <2> DEFINE least == {n \in inner : gap(n) = g}
    <2>3. least \subseteq Nat /\ least # {}
      BY <1>3, <2>2
    <2>4. PICK n \in least : \A m \in least : n <= m
      <3> HIDE DEF least
      <3> QED
        BY <2>3, LeastExists
    <2>5. ASSUME NEW m \in inner PROVE lesser(n, m)
      <3>1. gap(n) = g /\ g <= gap(m) /\ gap(m) \in Nat /\ g \in Nat
        BY <1>4, <2>1, <2>2, <2>4
      <3>2. CASE gap(m) = g
        BY <2>4, <3>1, <3>2
      <3>3. CASE gap(m) # g
        BY <3>1, <3>3
      <3> QED
        BY <3>2, <3>3
    <2>6. n \in inner
      BY <2>4
    <2> QED
      BY <2>5, <2>6
  <1>6. Victim \in inner
    <2> HIDE DEF inner, lesser
    <2> QED
      BY <1>1, <1>5
  <1> QED
    BY <1>6

(* The marks where nothing marks: they are of the present before the step,    *)
(* and so of the longer one after it.                                         *)
LEMMA MarksStay ==
    ASSUME SessionAssumption, TurnInv, Clean, UNCHANGED <<marks, left>>,
           Len(Present) <= Len(Present'), Len(Present') \in Nat,
           \A n \in 0..Len(Present) : Prefix(Present', n) = Prefix(Present, n)
    PROVE  MarksPresent'
  <1>1. PICK l \in Nat, k \in Nat : l = Len(Present) /\ k = Len(Present') /\ l <= k
    BY PresentIs DEF TurnInv
  <1>2. ASSUME NEW n \in DOMAIN marks
        PROVE  /\ marks[n].carry = marks[n].state
               /\ n \notin left => n \in 1..k /\ marks[n].state = Prefix(Present', n)
    <2>1. /\ marks[n].carry = marks[n].state
          /\ n \notin left => n \in 1..l /\ marks[n].state = Prefix(Present, n)
      BY <1>1 DEF Clean, MarksPresent
    <2> QED
      BY <1>1, <2>1
  <1> QED
    BY <1>1, <1>2 DEF MarksPresent

(* _on_span: there are never more marks than their buffers, and the only new  *)
(* one is that of the cut.                                                    *)
LEMMA MarkTaken ==
    ASSUME SessionAssumption, MarksFit, NEW end \in Nat \ {0}, OnSpan(end)
    PROVE  /\ MarksFit'
           /\ \A n \in DOMAIN marks' :
                 \/ n \in DOMAIN marks /\ marks'[n] = marks[n]
                 \/ n = end /\ n \notin DOMAIN marks /\ marks'[n] = NewMark
  <1> DEFINE dom == DOMAIN marks
             with(keep) == [n \in keep \cup {end} |-> IF n = end THEN NewMark ELSE marks[n]]
             kept == \A n \in DOMAIN marks' :
                        \/ n \in dom /\ marks'[n] = marks[n]
                        \/ n = end /\ n \notin dom /\ marks'[n] = NewMark
  <1>1. PICK bound \in Nat : dom \subseteq 1..bound
    BY DEF MarksFit
  <1>4. dom \subseteq Nat \ {0} /\ \A n \in dom : n \in Nat /\ n <= bound
    <2> HIDE DEF dom
    <2> QED
      BY <1>1
  <1>5. IsFiniteSet(dom)
    <2>1. dom \in SUBSET Nat
      BY <1>4
    <2> HIDE DEF dom
    <2> QED
      BY <1>1, <1>4, <2>1, FS_BoundedSetOfNaturals
  <1>6. PICK c \in Nat, m \in Nat : c = Cardinality(dom) /\ m = PrefixMarks /\ c <= m
    <2>1. Cardinality(dom) \in Nat
      <3> HIDE DEF dom
      <3> QED
        BY <1>5, FS_CardinalityType
    <2> QED
      BY <2>1 DEF SessionAssumption, MarksFit
  <1>7. ASSUME NEW keep \in SUBSET dom, IsFiniteSet(keep), Cardinality(keep) \in Nat, Cardinality(keep) < m,
               end \notin dom, marks' = with(keep)
        PROVE  MarksFit' /\ kept
    <2>1. DOMAIN marks' = keep \cup {end}
      BY <1>7
    <2>2. Cardinality(DOMAIN marks') <= m
      <3>1. Cardinality(keep \cup {end}) = IF end \in keep THEN Cardinality(keep) ELSE Cardinality(keep) + 1
        BY <1>7, FS_AddElement
      <3> HIDE DEF with
      <3> QED
        BY <1>7, <2>1, <3>1
    <2>3. ASSUME NEW n \in DOMAIN marks'
          PROVE  (n \in dom /\ marks'[n] = marks[n]) \/ (n = end /\ n \notin dom /\ marks'[n] = NewMark)
      <3>1. CASE n = end
        <4>1. marks'[n] = NewMark
          BY <1>7, <2>1, <3>1
        <4> QED
          BY <1>7, <3>1, <4>1
      <3>2. CASE n # end
        <4>1. n \in dom /\ marks'[n] = marks[n]
          BY <1>7, <2>1, <3>2
        <4> QED
          BY <4>1
      <3> QED
        BY <3>1, <3>2
    <2>4. PICK most \in Nat : bound <= most /\ end <= most
      <3>1. bound + end \in Nat /\ bound <= bound + end /\ end <= bound + end
        OBVIOUS
      <3> QED
        BY <3>1
    <2>5. DOMAIN marks' \subseteq 1..most
      <3> HIDE DEF dom, with
      <3> QED
        BY <1>4, <1>7, <2>1, <2>4
    <2>6. kept
      BY <2>3
    <2> HIDE DEF with, dom, kept
    <2> QED
      BY <1>6, <2>2, <2>5, <2>6 DEF MarksFit
  <1>8. ASSUME marks' = marks
        PROVE  MarksFit' /\ kept
    BY <1>8 DEF MarksFit
  <1>9. ASSUME c < m, end \notin dom, marks' = with(dom)
        PROVE  MarksFit' /\ kept
    <2> HIDE DEF with, kept, dom
    <2> QED
      BY <1>5, <1>6, <1>7, <1>9
  <1>10. ASSUME c >= 3, end \notin dom, marks' = with(dom \ {Victim})
         PROVE  MarksFit' /\ kept
    <2>1. Victim \in dom
      BY <1>1, <1>4, <1>5, <1>6, <1>10, VictimIsMark
    <2>2. IsFiniteSet(dom \ {Victim}) /\ Cardinality(dom \ {Victim}) = c - 1
      <3> HIDE DEF dom
      <3> QED
        BY <1>5, <1>6, <2>1, FS_RemoveElement
    <2>3. dom \ {Victim} \in SUBSET dom
      OBVIOUS
    <2>4. Cardinality(dom \ {Victim}) \in Nat /\ Cardinality(dom \ {Victim}) < m
      <3> HIDE DEF dom
      <3> QED
        BY <1>6, <1>10, <2>2
    <2> HIDE DEF dom, with, kept
    <2> QED
      BY <1>7, <1>10, <2>2, <2>3, <2>4
  <1>11. \/ marks' = marks
         \/ c < m /\ end \notin dom /\ marks' = with(dom)
         \/ c >= 3 /\ end \notin dom /\ marks' = with(dom \ {Victim})
    <2>1. marks' = IF PrefixMarks = 0 \/ end \in dom THEN marks
                   ELSE IF Cardinality(dom) < PrefixMarks THEN with(dom)
                   ELSE IF Cardinality(dom) < 3 THEN marks
                   ELSE with(dom \ {Victim})
      BY DEF OnSpan
    <2> HIDE DEF dom, with
    <2> QED
      BY <1>6, <2>1
  <1>12. MarksFit' /\ kept
    <2> HIDE DEF kept, with, dom
    <2> QED
      BY <1>8, <1>9, <1>10, <1>11
  <1> QED
    BY <1>12

(* A cut is marked with the state and the carry behind it.                    *)
LEMMA MarkIsPresent ==
    ASSUME SessionAssumption, TurnInv, Clean, NEW end \in Nat \ {0}, OnSpan(end),
           left' = left \cap DOMAIN marks',
           Present' \in Seq(Tokens), Len(Present') = end, Len(Present) <= end,
           state' = Present', cycle'.carry = Present',
           \A n \in 0..Len(Present) : Prefix(Present', n) = Prefix(Present, n)
    PROVE  MarksPresent'
  <1>1. PICK l \in Nat : l = Len(Present) /\ l <= end
    BY PresentIs DEF TurnInv
  <1>2. PICK q \in Seq(Tokens) : q = Present' /\ Len(q) = end /\ Prefix(q, end) = q
    BY PrefixWhole
  <1>3. NewMark.state = q /\ NewMark.carry = q
    BY <1>2 DEF NewMark
  <1>4. ASSUME NEW n \in DOMAIN marks'
        PROVE  /\ marks'[n].carry = marks'[n].state
               /\ n \notin left' => n \in 1..end /\ marks'[n].state = Prefix(q, n)
    <2>1. \/ n \in DOMAIN marks /\ marks'[n] = marks[n]
          \/ n = end /\ marks'[n] = NewMark
      BY MarkTaken DEF TurnInv
    <2>2. CASE n \in DOMAIN marks /\ marks'[n] = marks[n]
      <3>1. /\ marks[n].carry = marks[n].state
            /\ n \notin left => n \in 1..l /\ marks[n].state = Prefix(Present, n)
        BY <1>1, <2>2 DEF Clean, MarksPresent
      <3> QED
        BY <1>1, <1>2, <2>2, <3>1
    <2>3. CASE n = end /\ marks'[n] = NewMark
      BY <1>2, <1>3, <2>3
    <2> QED
      BY <2>1, <2>2, <2>3
  <1> QED
    BY <1>2, <1>4 DEF MarksPresent

(* A span of the prefill.                                                     *)
LEMMA SpanStep ==
    ASSUME SessionAssumption, SessionInv, Span
    PROVE  SessionInv'
  <1>1. job # None /\ job \in JobSet /\ job.todo # {} /\ job.todo \subseteq job.at + 1 .. Len(job.ids) - 1
        /\ job.produced = <<>> /\ Len(job.ids) - 1 \in job.todo /\ Len(job.ids) >= 2
    BY DEF Span, SessionInv, TurnInv, SessionTypes, InTurn, JobSet
  <1>2. PICK ids \in Seq(Tokens), at \in Nat, todo \in SUBSET Nat :
           ids = job.ids /\ at = job.at /\ todo = job.todo
    BY <1>1 DEF JobSet
  <1>3. PICK end \in todo : end = Min(todo) /\ \A n \in todo : end <= n
    BY <1>1, <1>2, MinIsLeast
  <1>4. end \in Nat \ {0} /\ at + 1 <= end /\ end <= Len(ids) - 1 /\ end \in at..Len(ids) /\ at \in 0..Len(ids)
    BY SMTT(30), <1>1, <1>2, <1>3
  <1>5. PICK span \in Seq(Tokens) : span = SubSeq(ids, at + 1, end) /\ Len(span) = end - at
    <2>1. SubSeq(ids, at + 1, end) \in Seq(Tokens)
      BY <1>4, PrefixExtends
    <2>2. Len(SubSeq(ids, at + 1, end)) = end - at
      BY <1>4, PrefixExtends
    <2> QED
      BY <2>1, <2>2
  <1>6. Forward(span, Len(span)) /\ Absorb(span) /\ OnSpan(end)
        /\ job' = [job EXCEPT !.at = end, !.todo = @ \ {end}]
        /\ left' = left \cap DOMAIN marks'
        /\ UNCHANGED <<tape, snapshot, draftMark, misled>>
    BY <1>2, <1>3, <1>5 DEF Span
  <1>7. /\ job' \in JobSet /\ job'.ids = ids /\ job'.at = end /\ job'.todo = todo \ {end}
        /\ job'.produced = <<>> /\ job'.then = job.then
    BY <1>1, <1>2, <1>4, <1>6 DEF JobSet
  <1>8. Line(job) = ids /\ Line(job)' = ids
    BY <1>1, <1>2, <1>7 DEF Line
  <1>9. Prefix(Line(job)', job'.at) = Present \o span
    <2>1. Present = Prefix(ids, at)
      BY <1>1, <1>2, <1>8, PresentIs DEF SessionInv, TurnInv
    <2>2. Prefix(ids, at) \o SubSeq(ids, at + 1, end) = Prefix(ids, end)
      BY <1>4, PrefixExtends
    <2> QED
      BY <1>5, <1>7, <1>8, <2>1, <2>2
  <1>10. /\ job'.at = job.at + Len(span) /\ Len(span) \in Nat /\ at + Len(span) = end
         /\ TurnInv /\ Len(Present) = at /\ Len(Present) <= end
    <2>1. PICK k \in Nat : k = Len(span) /\ at + k = end
      BY <1>4, <1>5
    <2>2. Len(Present) = at
      BY <1>1, <1>2, PresentIs DEF SessionInv, TurnInv
    <2> QED
      BY <1>2, <1>4, <1>7, <2>1, <2>2 DEF SessionInv
  <1>11. /\ SessionTypes' /\ Present' \in Seq(Tokens) /\ Len(Present') = end
         /\ \A n \in 0..Len(Present) : Prefix(Present', n) = Prefix(Present, n)
    BY <1>1, <1>2, <1>6, <1>7, <1>9, <1>10, TurnGrows
  <1>12. InTurn'
    <2>1. job'.todo \subseteq job'.at + 1 .. Len(job'.ids) - 1
      BY <1>1, <1>2, <1>3, <1>7
    <2>2. job'.todo # {} => Len(job'.ids) - 1 \in job'.todo
      BY <1>1, <1>2, <1>3, <1>4, <1>7
    <2>4. job'.then = "window"
      BY <1>1, <1>7 DEF SessionInv, TurnInv, InTurn
    <2>5. job'.at <= Len(ids)
      BY <1>4, <1>7
    <2> QED
      BY <1>1, <1>2, <1>7, <1>8, <2>1, <2>2, <2>4, <2>5 DEF InTurn
  <1>13. MarksFit'
    BY <1>4, <1>6, MarkTaken DEF SessionInv, TurnInv
  <1>14. ASSUME ~misled' PROVE Clean'
    <2>1. Clean
      BY <1>6, <1>14 DEF SessionInv
    <2>2. /\ DeviceTypes' /\ Standing' /\ Committed'
          /\ state' = Present' /\ cycle'.carry = Present'
      <3>1. Len(span) >= Len(span)
        BY <1>10
      <3> QED
        BY <1>1, <1>6, <1>7, <1>9, <1>10, <2>1, <3>1, TurnMoves
    <2>3. MarksPresent'
      BY <1>4, <1>6, <1>10, <1>11, <2>1, <2>2, MarkIsPresent
    <2> QED
      BY <2>2, <2>3 DEF Clean
  <1> QED
    BY <1>11, <1>12, <1>13, <1>14 DEF SessionInv, TurnInv

LEMMA JoinAssoc ==
    \A s \in Seq(Tokens), t \in Seq(Tokens), u \in Seq(Tokens) : (s \o t) \o u = s \o (t \o u)
  OBVIOUS

(* Behind the prefill one token of the turn is held, the last one.            *)
LEMMA HeldLast ==
    ASSUME SessionAssumption, TurnInv, Prefilled
    PROVE  /\ job # None /\ job \in JobSet /\ Present \in Seq(Tokens) /\ Len(Present) = job.at
           /\ Line(job) \in Seq(Tokens) /\ Len(Line(job)) = job.at + 1
           /\ <<Held(job)>> \in Seq(Tokens) /\ Len(<<Held(job)>>) = 1
           /\ Line(job) = Present \o <<Held(job)>>
  <1>1. job # None /\ job.at = Len(Line(job)) - 1
    BY DEF Prefilled
  <1>2. PICK line \in Seq(Tokens), at \in Nat :
           line = Line(job) /\ at = job.at /\ Present = Prefix(line, at)
           /\ Present \in Seq(Tokens) /\ Len(Present) = at /\ job \in JobSet
    BY <1>1, PresentIs DEF TurnInv, JobSet
  <1>3. PICK n \in Nat : n = Len(line) /\ at = n - 1
    BY <1>1, <1>2
  <1>4. n \in 1..Len(line) /\ n = at + 1
    BY <1>2, <1>3
  <1>5. Prefix(line, n) = Prefix(line, n - 1) \o <<line[n]>>
    BY <1>4, PrefixAll
  <1>6. Prefix(line, n) = line
    BY <1>3, PrefixWhole
  <1>7. Held(job) = line[n] /\ line[n] \in Tokens
    BY <1>2, <1>4 DEF Held
  <1>8. <<Held(job)>> \in Seq(Tokens) /\ Len(<<Held(job)>>) = 1 /\ <<Held(job)>> = <<line[n]>>
    BY <1>7
  <1> QED
    BY <1>1, <1>2, <1>3, <1>4, <1>5, <1>6, <1>8

(* A window or a closing: the turn's line grows and its last token is held.   *)
LEMMA WindowMoves ==
    ASSUME SessionAssumption, SessionInv, Prefilled,
           NEW tokens \in Seq(Tokens), NEW rows \in Nat, rows >= Len(tokens),
           Forward(tokens, rows), Absorb(tokens),
           job' \in JobSet, job'.ids = job.ids, job'.todo = {}, job'.produced # <<>>,
           job'.at = job.at + Len(tokens), Len(Line(job)') = job'.at + 1,
           Prefix(Line(job)', job'.at) = Present \o tokens,
           UNCHANGED <<tape, snapshot, draftMark, marks, left, misled>>
    PROVE  SessionInv'
  <1>1. job # None /\ Len(Present) = job.at /\ TurnInv
    BY HeldLast DEF SessionInv
  <1>2. PICK at \in Nat, k \in Nat : at = job.at /\ k = Len(tokens) /\ job'.at = at + k
    <2>1. job.at \in Nat
      BY <1>1, HeldLast DEF JobSet
    <2> QED
      BY <2>1
  <1>3. /\ SessionTypes' /\ Len(Present') = at + k
        /\ \A n \in 0..Len(Present) : Prefix(Present', n) = Prefix(Present, n)
    BY <1>1, <1>2, TurnGrows
  <1>4. ASSUME ~misled' PROVE Clean'
    <2>1. Clean
      BY <1>4 DEF SessionInv
    <2>2. DeviceTypes' /\ Standing' /\ Committed'
      BY <1>1, <2>1, TurnMoves
    <2>3. Len(Present) <= Len(Present') /\ Len(Present') \in Nat
      BY <1>1, <1>2, <1>3
    <2>4. MarksPresent'
      BY <1>1, <1>3, <2>1, <2>3, MarksStay
    <2> QED
      BY <2>2, <2>4 DEF Clean
  <1>5. InTurn'
    <2>1. Len(job'.ids) >= 2
      BY <1>1 DEF TurnInv, InTurn
    <2>2. job'.at <= Len(Line(job)') /\ job'.at = Len(Line(job)') - 1
      BY <1>2
    <2> QED
      BY <2>1, <2>2 DEF InTurn
  <1>6. MarksFit'
    BY <1>1 DEF TurnInv, MarksFit
  <1> QED
    BY <1>3, <1>4, <1>5, <1>6 DEF SessionInv, TurnInv

(* The line behind a window, and its tokens in the cache.                     *)
LEMMA WindowLine ==
    ASSUME SessionAssumption, TurnInv, Prefilled, NEW more \in Seq(Tokens), Len(more) >= 1
    PROVE  /\ <<Held(job)>> \o Prefix(more, Len(more) - 1) \in Seq(Tokens)
           /\ Len(<<Held(job)>> \o Prefix(more, Len(more) - 1)) = Len(more)
           /\ job.produced \o more \in Seq(Tokens) /\ job.produced \o more # <<>>
           /\ Len(job.ids \o (job.produced \o more)) = Len(Present) + Len(more) + 1
           /\ Prefix(job.ids \o (job.produced \o more), Len(Present) + Len(more)) = Present \o (<<Held(job)>> \o Prefix(more, Len(more) - 1))
  <1>0. PICK ids \in Seq(Tokens), produced \in Seq(Tokens), p \in Seq(Tokens), u \in Seq(Tokens) :
           /\ ids = job.ids /\ produced = job.produced /\ p = Present /\ u = <<Held(job)>>
           /\ Len(u) = 1 /\ ids \o produced = p \o u
    <2>1. /\ job.ids \in Seq(Tokens) /\ job.produced \in Seq(Tokens) /\ Present \in Seq(Tokens)
          /\ <<Held(job)>> \in Seq(Tokens) /\ Len(<<Held(job)>>) = 1
          /\ job.ids \o job.produced = Present \o <<Held(job)>>
      BY HeldLast DEF JobSet, Line
    <2> QED
      BY Zenon, <2>1
  <1>a. (ids \o produced) \o more = ids \o (produced \o more)
    <2>1. \A t \in Seq(Tokens), v \in Seq(Tokens) : (ids \o t) \o v = ids \o (t \o v)
      BY Zenon, JoinAssoc
    <2>2. \A v \in Seq(Tokens) : (ids \o produced) \o v = ids \o (produced \o v)
      BY Zenon, <2>1
    <2> QED
      BY Zenon, <2>2
  <1>1. PICK n \in Nat, k \in Nat, l \in Nat : n = Len(more) /\ n >= 1 /\ k = Len(p) /\ l = Len(produced)
    OBVIOUS
  <1>2. PICK rest \in Seq(Tokens) : rest = Prefix(more, Len(more) - 1) /\ Len(rest) = n - 1
    <2>1. n - 1 \in 0..Len(more)
      BY <1>1
    <2>2. Prefix(more, n - 1) \in Seq(Tokens) /\ Len(Prefix(more, n - 1)) = n - 1
      BY <2>1, PrefixFacts
    <2> QED
      BY Zenon, <1>1, <2>2
  <1>b. (p \o u) \o rest = p \o (u \o rest)
    <2>1. \A t \in Seq(Tokens), v \in Seq(Tokens) : (p \o t) \o v = p \o (t \o v)
      BY Zenon, JoinAssoc
    <2>2. \A v \in Seq(Tokens) : (p \o u) \o v = p \o (u \o v)
      BY Zenon, <2>1
    <2> QED
      BY Zenon, <2>2
  <1>3. u \o rest \in Seq(Tokens) /\ Len(u \o rest) = n
    <2>1. u \o rest \in Seq(Tokens) /\ Len(u \o rest) = Len(u) + Len(rest)
      BY JoinFacts
    <2> QED
      BY <2>1, <1>0, <1>1, <1>2
  <1>4. produced \o more \in Seq(Tokens) /\ produced \o more # <<>>
    <2>1. produced \o more \in Seq(Tokens) /\ Len(produced \o more) = l + n
      BY <1>1, JoinFacts
    <2>2. l + n # 0
      BY <1>1
    <2> QED
      BY <2>1, <2>2
  <1>5. PICK line \in Seq(Tokens) : line = p \o u /\ Len(line) = k + 1
    <2>1. p \o u \in Seq(Tokens) /\ Len(p \o u) = Len(p) + Len(u)
      BY JoinFacts
    <2> QED
      BY Zenon, <1>0, <1>1, <2>1
  <1>6. ids \o (produced \o more) = line \o more
    BY Zenon, <1>0, <1>5, <1>a
  <1>7. Len(line \o more) = k + n + 1
    <2>1. Len(line \o more) = Len(line) + Len(more)
      BY JoinFacts
    <2> QED
      BY <2>1, <1>1, <1>5
  <1>8. Prefix(line \o more, k + n) = p \o (u \o rest)
    <2>1. PICK m \in 0..Len(more) : m = n - 1
      <3>1. n - 1 \in 0..Len(more)
        BY <1>1
      <3> QED
        BY Zenon, <3>1
    <2>2. Prefix(line \o more, Len(line) + m) = line \o Prefix(more, m)
      <3>1. \A t \in Seq(Tokens) : \A n0 \in 0..Len(t) : Prefix(line \o t, Len(line) + n0) = line \o Prefix(t, n0)
        BY Zenon, PrefixBeyond
      <3> QED
        BY Zenon, <3>1
    <2>3. Len(line) + m = k + n
      BY <1>1, <1>5, <2>1
    <2>4. Prefix(more, m) = rest
      BY <1>1, <1>2, <2>1
    <2>5. line \o rest = p \o (u \o rest)
      BY Zenon, <1>5, <1>b
    <2> QED
      BY <2>2, <2>3, <2>4, <2>5
  <1>9. /\ u \o Prefix(more, Len(more) - 1) \in Seq(Tokens)
        /\ Len(u \o Prefix(more, Len(more) - 1)) = Len(more)
        /\ produced \o more \in Seq(Tokens) /\ produced \o more # <<>>
        /\ Len(ids \o (produced \o more)) = Len(p) + Len(more) + 1
        /\ Prefix(ids \o (produced \o more), Len(p) + Len(more)) = p \o (u \o Prefix(more, Len(more) - 1))
    BY <1>1, <1>2, <1>3, <1>4, <1>6, <1>7, <1>8
  <1> QED
    BY Zenon, <1>0, <1>9

(* The same where the last token is dropped before.                           *)
LEMMA ClosedLine ==
    ASSUME SessionAssumption, TurnInv, Prefilled, job.produced # <<>>, NEW more \in Seq(Tokens), Len(more) >= 1
    PROVE  /\ Prefix(more, Len(more) - 1) \in Seq(Tokens)
           /\ Len(Prefix(more, Len(more) - 1)) = Len(more) - 1
           /\ Prefix(job.produced, Len(job.produced) - 1) \o more \in Seq(Tokens)
           /\ Prefix(job.produced, Len(job.produced) - 1) \o more # <<>>
           /\ Len(job.ids \o (Prefix(job.produced, Len(job.produced) - 1) \o more)) = Len(Present) + Len(more)
           /\ Prefix(job.ids \o (Prefix(job.produced, Len(job.produced) - 1) \o more), Len(Present) + Len(more) - 1)
                = Present \o Prefix(more, Len(more) - 1)
  <1>0. PICK ids \in Seq(Tokens), produced \in Seq(Tokens), p \in Seq(Tokens), u \in Seq(Tokens) :
           /\ ids = job.ids /\ produced = job.produced /\ p = Present /\ u = <<Held(job)>>
           /\ Len(u) = 1 /\ ids \o produced = p \o u
    <2>1. /\ job.ids \in Seq(Tokens) /\ job.produced \in Seq(Tokens) /\ Present \in Seq(Tokens)
          /\ <<Held(job)>> \in Seq(Tokens) /\ Len(<<Held(job)>>) = 1
          /\ job.ids \o job.produced = Present \o <<Held(job)>>
      BY HeldLast DEF JobSet, Line
    <2> QED
      BY Zenon, <2>1
  <1>1. PICK n \in Nat, k \in Nat, l \in Nat, d \in Nat :
           n = Len(more) /\ n >= 1 /\ k = Len(p) /\ l = Len(produced) /\ l >= 1 /\ d = Len(ids)
    BY <1>0
  <1>3. PICK kept \in Seq(Tokens) : kept = Prefix(produced, Len(produced) - 1) /\ Len(kept) = l - 1
    <2>1. l - 1 \in 0..Len(produced)
      BY <1>1
    <2>2. Prefix(produced, l - 1) \in Seq(Tokens) /\ Len(Prefix(produced, l - 1)) = l - 1
      BY <2>1, PrefixFacts
    <2> QED
      BY Zenon, <1>1, <2>2
  <1>a. (ids \o kept) \o more = ids \o (kept \o more)
    <2>1. \A t \in Seq(Tokens), v \in Seq(Tokens) : (ids \o t) \o v = ids \o (t \o v)
      BY Zenon, JoinAssoc
    <2>2. \A v \in Seq(Tokens) : (ids \o kept) \o v = ids \o (kept \o v)
      BY Zenon, <2>1
    <2> QED
      BY Zenon, <2>2
  <1>2. PICK rest \in Seq(Tokens) : rest = Prefix(more, Len(more) - 1) /\ Len(rest) = n - 1
    <2>1. n - 1 \in 0..Len(more)
      BY <1>1
    <2>2. Prefix(more, n - 1) \in Seq(Tokens) /\ Len(Prefix(more, n - 1)) = n - 1
      BY <2>1, PrefixFacts
    <2> QED
      BY Zenon, <1>1, <2>2
  <1>4. kept \o more \in Seq(Tokens) /\ kept \o more # <<>>
    <2>1. kept \o more \in Seq(Tokens) /\ Len(kept \o more) = (l - 1) + n
      BY <1>1, <1>3, JoinFacts
    <2>2. (l - 1) + n # 0
      BY <1>1
    <2> QED
      BY <2>1, <2>2
  <1>5. ids \o kept = p
    <2>1. d + l = k + 1
      <3>1. Len(ids \o produced) = d + l
        BY <1>1, JoinFacts
      <3>2. Len(p \o u) = k + 1
        BY <1>0, <1>1, JoinFacts
      <3> QED
        BY <1>0, <3>1, <3>2
    <2>2. PICK m \in 0..Len(produced) : m = l - 1
      <3>1. l - 1 \in 0..Len(produced)
        BY <1>1
      <3> QED
        BY Zenon, <3>1
    <2>3. Prefix(ids \o produced, Len(ids) + m) = ids \o kept
      <3>1. \A t \in Seq(Tokens) : \A n0 \in 0..Len(t) : Prefix(ids \o t, Len(ids) + n0) = ids \o Prefix(t, n0)
        BY Zenon, PrefixBeyond
      <3>2. Prefix(ids \o produced, Len(ids) + m) = ids \o Prefix(produced, m)
        BY Zenon, <3>1
      <3>3. m = Len(produced) - 1
        BY <1>1, <2>2
      <3> QED
        BY Zenon, <1>3, <3>2, <3>3
    <2>4. Len(ids) + m = Len(p) /\ Len(p) \in 0..Len(p)
      BY <1>1, <2>1, <2>2
    <2>5. Prefix(p \o u, Len(p)) = p
      BY <2>4, PrefixOfFirst, PrefixWhole
    <2> QED
      BY <1>0, <2>3, <2>4, <2>5
  <1>6. ids \o (kept \o more) = p \o more
    BY Zenon, <1>5, <1>a
  <1>7. Len(p \o more) = Len(p) + Len(more)
    BY JoinFacts
  <1>8. Prefix(p \o more, Len(p) + Len(more) - 1) = p \o rest
    <2>1. PICK m \in 0..Len(more) : m = n - 1
      <3>1. n - 1 \in 0..Len(more)
        BY <1>1
      <3> QED
        BY Zenon, <3>1
    <2>2. Prefix(p \o more, Len(p) + m) = p \o Prefix(more, m)
      <3>1. \A t \in Seq(Tokens) : \A n0 \in 0..Len(t) : Prefix(p \o t, Len(p) + n0) = p \o Prefix(t, n0)
        BY Zenon, PrefixBeyond
      <3> QED
        BY Zenon, <3>1
    <2>3. Len(p) + m = Len(p) + Len(more) - 1
      BY <1>1, <2>1
    <2>4. Prefix(more, m) = rest
      BY <1>1, <1>2, <2>1
    <2> QED
      BY <2>2, <2>3, <2>4
  <1>9. /\ Prefix(more, Len(more) - 1) \in Seq(Tokens)
        /\ Len(Prefix(more, Len(more) - 1)) = Len(more) - 1
        /\ Prefix(produced, Len(produced) - 1) \o more \in Seq(Tokens)
        /\ Prefix(produced, Len(produced) - 1) \o more # <<>>
        /\ Len(ids \o (Prefix(produced, Len(produced) - 1) \o more)) = Len(p) + Len(more)
        /\ Prefix(ids \o (Prefix(produced, Len(produced) - 1) \o more), Len(p) + Len(more) - 1)
             = p \o Prefix(more, Len(more) - 1)
    BY <1>1, <1>2, <1>3, <1>4, <1>6, <1>7, <1>8
  <1> QED
    BY Zenon, <1>0, <1>9

(* A window: the target's tokens are emitted, the last of them is held.       *)
LEMMA WindowStep ==
    ASSUME SessionAssumption, SessionInv, NEW emitted \in Answers, NEW close \in BOOLEAN,
           Window(emitted, close)
    PROVE  SessionInv'
  <1> DEFINE body == <<Held(job)>> \o Prefix(emitted, Len(emitted) - 1)
             made == job.produced \o emitted
  <1>1. TurnInv /\ Prefilled /\ job \in JobSet /\ job.todo = {} /\ Len(Present) = job.at /\ job.at \in Nat
    BY HeldLast DEF Window, Prefilled, JobSet, SessionInv
  <1>2. /\ job.ids \in Seq(Tokens) /\ job.produced \in Seq(Tokens) /\ Present \in Seq(Tokens)
        /\ <<Held(job)>> \in Seq(Tokens) /\ Len(<<Held(job)>>) = 1
        /\ job.ids \o job.produced = Present \o <<Held(job)>>
    BY <1>1, HeldLast DEF JobSet, Line
  <1>3. emitted \in Seq(Tokens) /\ Len(emitted) >= 1 /\ Len(emitted) <= Steps + 1 /\ Steps + 1 \in Nat
    <2>1. PICK n \in 1..Steps + 1 : emitted \in [1..n -> Tokens]
      BY DEF Answers
    <2> QED
      BY <2>1 DEF SessionAssumption
  <1>4. /\ body \in Seq(Tokens) /\ Len(body) = Len(emitted)
        /\ made \in Seq(Tokens) /\ made # <<>>
        /\ Len(job.ids \o made) = Len(Present) + Len(emitted) + 1
        /\ Prefix(job.ids \o made, Len(Present) + Len(emitted)) = Present \o body
    BY Zenon, <1>1, <1>3, WindowLine
  <1> HIDE DEF body, made
  <1>5. Forward(body, Steps + 1) /\ Absorb(body) /\ UNCHANGED <<tape, snapshot, draftMark, marks, left, misled>>
    BY DEF Window, body, historyVars
  <1>6. PICK then \in {"window", "inject", "end"} : job' = [job EXCEPT !.at = @ + Len(body), !.produced = made, !.then = then]
    <2> DEFINE ended == emitted[Len(emitted)] = Stop \/ Len(made) >= job.max
    <2>1. job' = [job EXCEPT !.at = @ + Len(body), !.produced = made,
                             !.then = IF close THEN "inject" ELSE IF ended THEN "end" ELSE "window"]
      BY Zenon DEF Window, body, made
    <2>2. (IF close THEN "inject" ELSE IF ended THEN "end" ELSE "window") \in {"window", "inject", "end"}
      OBVIOUS
    <2> QED
      BY Zenon, <2>1, <2>2
  <1>7. /\ job' \in JobSet /\ job'.ids = job.ids /\ job'.at = job.at + Len(body)
        /\ job'.todo = {} /\ job'.produced = made
    <2>1. job.at + Len(body) \in Nat
      BY <1>1, <1>4
    <2> QED
      BY <1>1, <1>4, <1>6, <2>1 DEF JobSet
  <1>8. Line(job)' = job.ids \o made
    BY <1>7 DEF Line
  <1>9. Len(Line(job)') = job'.at + 1 /\ Prefix(Line(job)', job'.at) = Present \o body
    BY Zenon, <1>1, <1>4, <1>7, <1>8
  <1>10. Steps + 1 \in Nat /\ Steps + 1 >= Len(body)
    BY <1>3, <1>4
  <1> QED
    BY <1>1, <1>4, <1>5, <1>7, <1>9, <1>10, WindowMoves

(* The reasoning is closed: a held stop token gives way.                      *)
LEMMA InjectStep ==
    ASSUME SessionAssumption, SessionInv, Inject
    PROVE  SessionInv'
  <1> DEFINE rest == Prefix(Close, Len(Close) - 1)
             body == <<Held(job)>> \o rest
             cut  == Prefix(job.produced, Len(job.produced) - 1) \o Close
             made == job.produced \o Close
  <1>1. TurnInv /\ Prefilled /\ job \in JobSet /\ job.todo = {} /\ Len(Present) = job.at /\ job.at \in Nat
    BY HeldLast DEF Inject, Prefilled, JobSet, SessionInv
  <1>2. /\ job.ids \in Seq(Tokens) /\ job.produced \in Seq(Tokens) /\ Present \in Seq(Tokens)
        /\ <<Held(job)>> \in Seq(Tokens) /\ Len(<<Held(job)>>) = 1
        /\ job.ids \o job.produced = Present \o <<Held(job)>>
        /\ job.produced # <<>>
    BY <1>1, HeldLast DEF JobSet, Line, TurnInv, InTurn, Inject
  <1>3. Close \in Seq(Tokens) /\ Len(Close) >= 1 /\ Len(Close) \in Nat
    BY DEF SessionAssumption
  <1>4. /\ body \in Seq(Tokens) /\ Len(body) = Len(Close)
        /\ made \in Seq(Tokens) /\ made # <<>>
        /\ Len(job.ids \o made) = Len(Present) + Len(Close) + 1
        /\ Prefix(job.ids \o made, Len(Present) + Len(Close)) = Present \o body
    BY Zenon, <1>1, <1>3, WindowLine
  <1>5. /\ rest \in Seq(Tokens) /\ Len(rest) = Len(Close) - 1
        /\ cut \in Seq(Tokens) /\ cut # <<>>
        /\ Len(job.ids \o cut) = Len(Present) + Len(Close)
        /\ Prefix(job.ids \o cut, Len(Present) + Len(Close) - 1) = Present \o rest
    BY Zenon, <1>1, <1>2, <1>3, ClosedLine
  <1>6. <<>> \o rest = rest /\ Prefix(job.produced, Len(job.produced) - 0) = job.produced
    BY <1>2, <1>5, PrefixWhole
  <1>7. UNCHANGED <<tape, snapshot, draftMark, marks, left, misled>>
    BY DEF Inject, historyVars
  <1>8. CASE Held(job) = Stop
    <2>1. Forward(rest, Len(rest)) /\ Absorb(rest)
      BY <1>6, <1>8 DEF Inject
    <2>2. PICK then \in {"window", "inject", "end"} :
             job' = [job EXCEPT !.at = @ + Len(rest), !.produced = cut, !.closed = TRUE, !.then = then]
      <3>1. job' = [job EXCEPT !.at = @ + Len(rest), !.produced = cut, !.closed = TRUE,
                               !.then = IF Len(cut) >= job.max THEN "end" ELSE "window"]
        BY <1>6, <1>8 DEF Inject
      <3>2. (IF Len(cut) >= job.max THEN "end" ELSE "window") \in {"window", "inject", "end"}
        OBVIOUS
      <3> QED
        BY Zenon, <3>1, <3>2
    <2> HIDE DEF rest, cut
    <2>3. /\ job' \in JobSet /\ job'.ids = job.ids /\ job'.at = job.at + Len(rest)
          /\ job'.todo = {} /\ job'.produced = cut
      <3>1. job.at + Len(rest) \in Nat
        BY <1>1, <1>3, <1>5
      <3> QED
        BY <1>1, <1>5, <2>2, <3>1 DEF JobSet
    <2>4. Line(job)' = job.ids \o cut
      BY <2>3 DEF Line
    <2>5. Len(Present) + Len(Close) = job'.at + 1 /\ Len(Present) + Len(Close) - 1 = job'.at
          /\ Len(rest) \in Nat /\ Len(rest) >= Len(rest)
      BY <1>1, <1>3, <1>5, <2>3
    <2>6. Len(Line(job)') = job'.at + 1 /\ Prefix(Line(job)', job'.at) = Present \o rest
      BY Zenon, <1>5, <2>4, <2>5
    <2> QED
      BY <1>1, <1>5, <1>7, <2>1, <2>3, <2>5, <2>6, WindowMoves
  <1>9. CASE Held(job) # Stop
    <2>1. Forward(body, Len(body)) /\ Absorb(body)
      BY <1>9 DEF Inject
    <2>2. PICK then \in {"window", "inject", "end"} :
             job' = [job EXCEPT !.at = @ + Len(body), !.produced = made, !.closed = TRUE, !.then = then]
      <3>1. job' = [job EXCEPT !.at = @ + Len(body), !.produced = made, !.closed = TRUE,
                               !.then = IF Len(made) >= job.max THEN "end" ELSE "window"]
        BY <1>6, <1>9 DEF Inject
      <3>2. (IF Len(made) >= job.max THEN "end" ELSE "window") \in {"window", "inject", "end"}
        OBVIOUS
      <3> QED
        BY Zenon, <3>1, <3>2
    <2> HIDE DEF body, made
    <2>3. /\ job' \in JobSet /\ job'.ids = job.ids /\ job'.at = job.at + Len(body)
          /\ job'.todo = {} /\ job'.produced = made
      <3>1. job.at + Len(body) \in Nat
        BY <1>1, <1>3, <1>4
      <3> QED
        BY <1>1, <1>4, <2>2, <3>1 DEF JobSet
    <2>4. Line(job)' = job.ids \o made
      BY <2>3 DEF Line
    <2>5. Len(Line(job)') = job'.at + 1 /\ Prefix(Line(job)', job'.at) = Present \o body
      BY Zenon, <1>1, <1>4, <2>3, <2>4
    <2>6. Len(body) \in Nat /\ Len(body) >= Len(body)
      BY <1>3, <1>4
    <2> QED
      BY <1>1, <1>4, <1>7, <2>1, <2>3, <2>5, <2>6, WindowMoves
  <1> QED
    BY <1>8, <1>9

(* A turn begins with a prefix of its prompt in the cache.                    *)
LEMMA JobStarts ==
    ASSUME SessionAssumption, NEW ids \in Prompts, NEW max \in Nat, NEW start \in 0..Len(ids),
           job' = Job(ids, max, start)
    PROVE  /\ job' \in JobSet /\ job' # None /\ job'.at = start
           /\ Present' = Prefix(ids, start) /\ InTurn'
  <1>1. ids \in Seq(Tokens) /\ Len(ids) >= 2 /\ Len(ids) \in Nat
    <2>1. PICK n \in 2..MaxPrompt : ids \in [1..n -> Tokens]
      BY DEF Prompts
    <2> QED
      BY <2>1 DEF SessionAssumption
  <1>2. PICK todo : todo = Ends(ids, start)
    OBVIOUS
  <1>3. todo \subseteq start + 1 .. Len(ids) - 1 /\ (todo # {} => Len(ids) - 1 \in todo)
    BY <1>1, <1>2, EndsReach
  <1>4. todo \in SUBSET Nat /\ start \in Nat
    BY <1>1, <1>3
  <1>5. job' = [ids |-> ids, max |-> max, todo |-> todo, at |-> start,
                produced |-> <<>>, closed |-> FALSE, then |-> "window"]
    BY <1>2 DEF Job
  <1>6. <<>> \in Seq(Tokens)
    OBVIOUS
  <1>7. job' \in JobSet /\ job' # None
    <2>1. job' \in JobSet
      BY <1>1, <1>4, <1>5, <1>6 DEF JobSet
    <2>2. None \notin JobSet
      BY NoneIsNone
    <2> QED
      BY Zenon, <2>1, <2>2
  <1>8. job'.ids = ids /\ job'.todo = todo /\ job'.at = start /\ job'.produced = <<>> /\ job'.then = "window"
    BY <1>5
  <1>9. Line(job)' = ids
    <2>1. ids \o <<>> = ids
      BY <1>1
    <2> QED
      BY <1>8, <2>1 DEF Line
  <1>10. Present' = Prefix(ids, start)
    BY <1>7, <1>8, <1>9 DEF Present
  <1>11. InTurn'
    <2>1. start <= Len(ids)
      BY <1>1
    <2> QED
      BY <1>1, <1>3, <1>8, <1>9, <2>1 DEF InTurn
  <1> QED
    BY <1>7, <1>8, <1>10, <1>11

(* The prompt continues the tape, and finds all of it in place.               *)
LEMMA ContinueStep ==
    ASSUME SessionAssumption, SessionInv, NEW ids \in Prompts, NEW max \in Nat, Continue(ids, max)
    PROVE  SessionInv'
  <1>1. /\ job = None /\ Shared(tape, ids) = Len(tape) /\ Resumable
        /\ cycle' = IF tape = <<>> THEN NewDraft ELSE cycle
        /\ job' = Job(ids, max, Len(tape))
        /\ UNCHANGED <<tape, snapshot, draftMark, marks, state, pages, left, misled>>
    BY DEF Continue, historyVars
  <1>2. ids \in Seq(Tokens)
    <2>1. PICK n \in 2..MaxPrompt : ids \in [1..n -> Tokens]
      BY DEF Prompts
    <2> QED
      BY <2>1 DEF SessionAssumption
  <1>3. PICK p \in Seq(Tokens), l \in Nat : p = tape /\ l = Len(p) /\ Present = p
    BY <1>1, PresentIs DEF SessionInv, TurnInv, SessionTypes
  <1>4. l <= Len(ids) /\ Prefix(ids, l) = Prefix(p, l) /\ Prefix(p, l) = p
    <2>1. Shared(p, ids) <= Len(ids) /\ Prefix(p, Shared(p, ids)) = Prefix(ids, Shared(p, ids))
      BY <1>2, SharedAgrees
    <2> QED
      BY <1>1, <1>3, <2>1, PrefixWhole
  <1>6. /\ job' \in JobSet /\ job' # None /\ job'.at = l
        /\ Present' = p /\ InTurn'
    <2>1. l \in 0..Len(ids)
      BY <1>2, <1>4
    <2> QED
      BY <1>1, <1>3, <1>4, <2>1, JobStarts
  <1>7. TurnInv'
    BY <1>1, <1>6 DEF SessionInv, TurnInv, SessionTypes, MarksFit
  <1>8. ASSUME ~misled' PROVE Clean'
    <2>1. Clean
      BY <1>1, <1>8 DEF SessionInv
    <2>2. cycle' \in DraftSet /\ cycle' # None /\ cycle'.position = l /\ (p # <<>> => cycle' = Draft(l, p))
      <3>1. CASE p = <<>>
        BY <1>1, <1>3, <3>1, NoneIsNone
      <3>2. CASE p # <<>>
        BY <1>1, <1>3, <2>1, <3>2, NoneIsNone DEF Clean, Standing
      <3> QED
        BY <3>1, <3>2
    <2>3. DeviceTypes'
      BY <1>1, <2>1, <2>2 DEF Clean, DeviceTypes
    <2>4. Standing'
      <3>1. tape' = p /\ state' = p /\ \A i \in 1..l : pages'[i] = Prefix(p, i)
        BY <1>1, <1>3, <2>1 DEF Clean, Standing
      <3>2. Len(tape)' <= Len(Present)' /\ Prefix(Present, Len(tape))' = tape'
        BY <1>3, <1>4, <1>6, <3>1
      <3> QED
        BY <1>3, <1>6, <2>2, <3>1, <3>2 DEF Standing
    <2>5. MarksPresent'
      BY <1>1, <1>3, <1>6, <2>1 DEF Clean, MarksPresent
    <2>6. Committed'
      BY <1>1, <2>1 DEF Clean, Committed
    <2> QED
      BY <2>3, <2>4, <2>5, <2>6 DEF Clean
  <1> QED
    BY <1>7, <1>8 DEF SessionInv

(* Where the prompt parts from the tape, the longest mark of what they share  *)
(* is restored, and the marks beyond it go. One that a cancelled turn left    *)
(* does no harm if it is of the tokens that the tape has there.               *)
LEMMA RestoreMarkStep ==
    ASSUME SessionAssumption, SessionInv, NEW ids \in Prompts, NEW max \in Nat, RestoreMark(ids, max)
    PROVE  SessionInv'
  <1>1. job = None /\ Usable(ids) # {} /\ UNCHANGED pages
    BY DEF RestoreMark
  <1>2. ids \in Seq(Tokens)
    <2>1. PICK n \in 2..MaxPrompt : ids \in [1..n -> Tokens]
      BY DEF Prompts
    <2> QED
      BY <2>1 DEF SessionAssumption
  <1>3. PICK p \in Seq(Tokens), l \in Nat : p = tape /\ l = Len(p) /\ Present = p
    BY <1>1, PresentIs DEF SessionInv, TurnInv, SessionTypes
  <1>4. PICK h \in Nat : /\ h = Shared(p, ids) /\ h <= l /\ h <= Len(ids) /\ Prefix(p, h) = Prefix(ids, h)
    BY <1>2, <1>3, SharedAgrees
  <1>5. PICK bound \in Nat : DOMAIN marks \subseteq 1..bound
    BY DEF SessionInv, TurnInv, MarksFit
  <1>6. PICK best \in DOMAIN marks : best = Max(Usable(ids)) /\ best <= h
    <2>1. Usable(ids) \subseteq DOMAIN marks /\ \A n \in Usable(ids) : n <= h
      BY <1>3, <1>4 DEF Usable
    <2>2. Usable(ids) \subseteq Nat
      BY <1>5, <2>1
    <2>3. Max(Usable(ids)) \in Usable(ids)
      BY <1>1, <2>1, <2>2, MaxIsGreatest
    <2> QED
      BY <2>1, <2>3
  <1>7. best \in Nat \ {0} /\ best \in 0..Len(p) /\ best \in 0..Len(ids) /\ best \in 0..h
    <2>1. Len(ids) \in Nat
      BY <1>2
    <2> QED
      BY <1>3, <1>4, <1>5, <1>6, <2>1
  <1>8. PICK q \in Seq(Tokens) : q = Prefix(p, best) /\ Len(q) = best /\ q # <<>>
    <2>1. Prefix(p, best) \in Seq(Tokens) /\ Len(Prefix(p, best)) = best
      BY <1>7, PrefixFacts
    <2>2. Prefix(p, best) # <<>>
      BY <1>7, <2>1
    <2> QED
      BY <2>1, <2>2
  <1>9. /\ state' = marks[best].state /\ snapshot' = marks[best].state /\ tape' = q
        /\ cycle' = Draft(best, marks[best].carry) /\ draftMark' = cycle'
        /\ marks' = [n \in {m \in DOMAIN marks : m <= best} |-> marks[n]]
        /\ job' = Job(ids, max, best)
        /\ left' = left \cap 1..best
        /\ misled' = (misled \/ (best \in left /\ marks[best].state # q))
    BY <1>3, <1>6, <1>8 DEF RestoreMark, Restored
  <1>10. DOMAIN marks' = {m \in DOMAIN marks : m <= best} /\ \A n \in DOMAIN marks' : marks'[n] = marks[n]
    BY <1>9
  <1>11. Prefix(ids, best) = q
    <2>1. Prefix(Prefix(p, h), best) = Prefix(p, best)
      BY <1>3, <1>4, <1>7, PrefixOfPrefix
    <2>2. Prefix(Prefix(ids, h), best) = Prefix(ids, best)
      BY <1>2, <1>4, <1>7, PrefixOfPrefix
    <2> QED
      BY <1>4, <1>8, <2>1, <2>2
  <1>12. /\ job' \in JobSet /\ job' # None /\ job'.at = best /\ Present' = q /\ InTurn'
    BY <1>7, <1>9, <1>11, JobStarts
  <1>13. SessionTypes'
    BY <1>8, <1>9, <1>12 DEF SessionInv, TurnInv, SessionTypes
  <1>14. MarksFit'
    <2>1. DOMAIN marks' \subseteq DOMAIN marks
      BY <1>10
    <2>2. IsFiniteSet(DOMAIN marks)
      <3>1. DOMAIN marks \in SUBSET Nat /\ \A n \in DOMAIN marks : n <= bound
        BY <1>5
      <3> QED
        BY <3>1, FS_BoundedSetOfNaturals
    <2>3. Cardinality(DOMAIN marks') <= PrefixMarks
      <3>1. Cardinality(DOMAIN marks') <= Cardinality(DOMAIN marks) /\ Cardinality(DOMAIN marks') \in Nat
            /\ Cardinality(DOMAIN marks) \in Nat
        BY <2>1, <2>2, FS_Subset, FS_CardinalityType
      <3> QED
        BY <3>1 DEF SessionInv, TurnInv, MarksFit, SessionAssumption
    <2>4. DOMAIN marks' \subseteq 1..bound
      BY <1>5, <2>1
    <2> QED
      BY <2>3, <2>4 DEF MarksFit
  <1>15. ASSUME ~misled' PROVE Clean'
    <2>1. ~misled /\ (best \in left => marks[best].state = q)
      BY <1>9, <1>15
    <2>2. Clean
      BY <2>1 DEF SessionInv
    <2>3. marks[best].state = q /\ marks[best].carry = q
      BY <1>3, <1>6, <1>8, <2>1, <2>2 DEF Clean, MarksPresent
    <2>4. Draft(best, q) \in DraftSet /\ Draft(best, q).position = best /\ Draft(best, q) # None
      BY <1>7, NoneIsNone
    <2>5. state' = q /\ snapshot' = q /\ cycle' = Draft(best, q) /\ draftMark' = Draft(best, q)
      BY <1>9, <2>3
    <2>6. DeviceTypes'
      BY <1>1, <2>2, <2>4, <2>5 DEF Clean, DeviceTypes
    <2>7. \A n \in 1..best : Prefix(q, n) = Prefix(p, n)
      BY <1>7, <1>8, PrefixOfPrefix
    <2>8. Standing'
      <3>1. ASSUME NEW i \in 1..best PROVE pages'[i] = Prefix(q, i)
        <4>1. i \in 1..l
          BY <1>3, <1>7
        <4>2. pages[i] = Prefix(p, i)
          BY <1>3, <2>2, <4>1 DEF Clean, Standing
        <4> QED
          BY <1>1, <2>7, <4>2
      <3>2. Len(tape)' <= Len(Present)' /\ Prefix(Present, Len(tape))' = tape'
        BY <1>7, <1>8, <1>9, <1>12, PrefixWhole
      <3> QED
        BY <1>8, <1>9, <1>12, <2>4, <2>5, <3>1, <3>2 DEF Standing
    <2>9. MarksPresent'
      <3>1. ASSUME NEW n \in DOMAIN marks'
            PROVE  /\ marks'[n].carry = marks'[n].state
                   /\ n \notin left' => n \in 1..best /\ marks'[n].state = Prefix(q, n)
        <4>1. n \in DOMAIN marks /\ n \in 1..best /\ marks'[n] = marks[n]
          BY <1>5, <1>7, <1>10
        <4>2. n \notin left' => n \notin left
          BY <1>9, <4>1
        <4>3. /\ marks[n].carry = marks[n].state
              /\ n \notin left => marks[n].state = Prefix(p, n)
          BY <1>3, <2>2, <4>1 DEF Clean, MarksPresent
        <4> QED
          BY <2>7, <4>1, <4>2, <4>3
      <3> QED
        BY <1>8, <1>12, <3>1 DEF MarksPresent
    <2>10. Committed'
      BY <1>8, <1>9, <2>5 DEF Committed
    <2> QED
      BY <2>6, <2>8, <2>9, <2>10 DEF Clean
  <1> QED
    BY <1>12, <1>13, <1>14, <1>15 DEF SessionInv, TurnInv

(* Nothing is held (_zero).                                                   *)
LEMMA Forgotten ==
    ASSUME SessionAssumption, Forget
    PROVE  /\ tape' = <<>> /\ state' = <<>> /\ snapshot' = None /\ draftMark' = None
           /\ pages' \in Seq(Seq(Tokens) \cup {None}) /\ misled' \in BOOLEAN
           /\ MarksFit' /\ DOMAIN marks' = {}
           /\ <<>> \in Seq(Tokens) /\ Len(<<>>) = 0 /\ \A s : Prefix(s, 0) = <<>>
  <1>1. Cardinality({}) = 0
    BY FS_EmptySet
  <1>2. DOMAIN marks' = {}
    BY DEF Forget
  <1>3. \A s : Prefix(s, 0) = <<>>
    BY DEF Prefix
  <1>4. MarksFit'
    <2>1. DOMAIN marks' \subseteq 1..0 /\ 0 \in Nat
      BY <1>2
    <2>2. Cardinality(DOMAIN marks') <= PrefixMarks
      BY <1>1, <1>2 DEF SessionAssumption
    <2> QED
      BY <2>1, <2>2 DEF MarksFit
  <1>5. misled' \in BOOLEAN
    BY DEF Forget
  <1>6. /\ tape' = <<>> /\ state' = <<>> /\ snapshot' = None /\ draftMark' = None
        /\ pages' \in Seq(Seq(Tokens) \cup {None})
    BY DEF Forget
  <1> QED
    BY <1>2, <1>3, <1>4, <1>5, <1>6

LEMMA StartOverStep ==
    ASSUME SessionAssumption, SessionInv, NEW ids \in Prompts, NEW max \in Nat, StartOver(ids, max)
    PROVE  SessionInv'
  <1>1. Forget /\ cycle' = NewDraft /\ job' = Job(ids, max, 0)
    BY DEF StartOver
  <1>2. ids \in Seq(Tokens) /\ Len(ids) \in Nat
    <2>1. PICK n \in 2..MaxPrompt : ids \in [1..n -> Tokens]
      BY DEF Prompts
    <2> QED
      BY <2>1 DEF SessionAssumption
  <1>3. job' \in JobSet /\ job' # None /\ job'.at = 0 /\ Present' = <<>> /\ InTurn'
    <2>1. 0 \in 0..Len(ids)
      BY <1>2
    <2>2. Prefix(ids, 0) = <<>>
      BY <1>1, Forgotten
    <2> QED
      BY <1>1, <2>1, <2>2, JobStarts
  <1>4. cycle' \in DraftSet /\ cycle' # None /\ cycle'.position = 0
    BY <1>1, NoneIsNone
  <1>5. TurnInv'
    BY <1>1, <1>3, Forgotten DEF TurnInv, SessionTypes
  <1>6. DeviceTypes' /\ Standing' /\ MarksPresent' /\ Committed'
    BY <1>1, <1>3, <1>4, Forgotten DEF DeviceTypes, Standing, MarksPresent, Committed
  <1> QED
    BY <1>5, <1>6 DEF SessionInv, Clean

(* commit: the tape is what is in the cache; the held token is not.           *)
LEMMA CommitStep ==
    ASSUME SessionAssumption, SessionInv, Commit
    PROVE  SessionInv'
  <1>1. /\ Prefilled /\ tape' = Present /\ snapshot' = state /\ draftMark' = cycle /\ job' = None
        /\ UNCHANGED <<marks, cycle, state, pages, left, misled>>
    BY HeldLast DEF Commit, Present, SessionInv, historyVars
  <1>2. PICK p \in Seq(Tokens), at \in Nat : p = Present /\ Len(p) = at /\ at = job.at /\ job # None /\ job \in JobSet
    BY <1>1, HeldLast DEF JobSet, SessionInv
  <1>3. at >= 1
    <2>1. Len(Line(job)) = Len(job.ids) + Len(job.produced) /\ Len(Line(job)) = at + 1 /\ Len(job.ids) >= 2
      BY <1>1, <1>2, HeldLast, PresentIs DEF SessionInv, TurnInv, InTurn
    <2>2. PICK d \in Nat, e \in Nat : d = Len(job.ids) /\ e = Len(job.produced)
      BY <1>2 DEF JobSet
    <2>3. d + e = at + 1 /\ d >= 2
      BY <2>1, <2>2
    <2> QED
      BY <2>3
  <1>4. p # <<>> /\ Present' = p /\ tape' = p
    <2>1. p # <<>>
      BY <1>2, <1>3
    <2> QED
      BY <1>1, <1>2, <2>1 DEF Present
  <1>5. TurnInv'
    BY <1>1, <1>4 DEF SessionInv, TurnInv, SessionTypes, InTurn, MarksFit
  <1>6. ASSUME ~misled' PROVE Clean'
    <2>1. Clean
      BY <1>1, <1>6 DEF SessionInv
    <2>2. state = p /\ cycle = Draft(at, p)
      BY <1>2, <1>4, <2>1 DEF Clean, Standing
    <2>3. DeviceTypes'
      BY <1>1, <2>1 DEF Clean, DeviceTypes
    <2>4. Standing'
      <3>1. Prefix(p, Len(p)) = p
        BY PrefixWhole
      <3> QED
        BY <1>1, <1>2, <1>4, <2>1, <2>2, <3>1 DEF Clean, Standing
    <2>5. MarksPresent'
      BY <1>1, <1>2, <1>4, <2>1 DEF Clean, MarksPresent
    <2>6. Committed'
      BY <1>1, <1>2, <1>4, <2>2 DEF Committed
    <2> QED
      BY <2>3, <2>4, <2>5, <2>6 DEF Clean
  <1> QED
    BY <1>5, <1>6 DEF SessionInv

(* A cancelled turn and a refused one: the session returns to the tape, and   *)
(* the marks beyond it are those that the turn leaves.                        *)
LEMMA EndStep ==
    ASSUME SessionAssumption, SessionInv, Cancelled \/ Refused
    PROVE  SessionInv'
  <1>1. job # None /\ Restore /\ job' = None
    BY DEF Cancelled, Refused, Prefilled, Restore
  <1>2. CASE snapshot = None
    <2>1. Forget /\ cycle' = None
      BY <1>1, <1>2 DEF Restore
    <2>2. Present' = <<>>
      BY <1>1, <2>1, Forgotten DEF Present
    <2>3. TurnInv'
      BY <1>1, <2>1, Forgotten DEF TurnInv, SessionTypes, InTurn
    <2>4. DeviceTypes'
      BY <2>1, Forgotten DEF DeviceTypes
    <2>5. Standing' /\ MarksPresent' /\ Committed'
      BY <1>1, <2>1, <2>2, Forgotten DEF Standing, MarksPresent, Committed
    <2> QED
      BY <2>3, <2>4, <2>5 DEF SessionInv, Clean
  <1>3. CASE snapshot # None
    <2>1. PICK p \in Seq(Tokens), l \in Nat : p = tape /\ l = Len(p)
      BY DEF SessionInv, TurnInv, SessionTypes
    <2>2. /\ state' = snapshot
          /\ left' = left \cup {n \in DOMAIN marks : n > Len(tape)}
          /\ UNCHANGED <<tape, snapshot, draftMark, marks, pages, misled>>
      BY <1>1, <1>3 DEF Restore
    <2>3. Present' = p /\ tape' = p
      BY <1>1, <2>1, <2>2 DEF Present
    <2>4. TurnInv'
      BY <1>1, <2>2 DEF SessionInv, TurnInv, SessionTypes, InTurn, MarksFit
    <2>5. ASSUME ~misled' PROVE Clean'
      <3>1. Clean
        BY <2>2, <2>5 DEF SessionInv
      <3>2. p # <<>> /\ snapshot = p /\ draftMark = Draft(l, p)
        BY <1>3, <2>1, <3>1 DEF Clean, Committed
      <3>3. Draft(l, p) \in DraftSet /\ Draft(l, p) # None /\ Draft(l, p).position = l
        BY NoneIsNone
      <3>4. PICK q \in Seq(Tokens), k \in Nat : /\ q = Present /\ k = Len(q) /\ l <= k /\ Prefix(q, l) = p
                                                /\ cycle.position = k
        <4>1. Present \in Seq(Tokens) /\ Len(Present) = job.at
          BY <1>1, PresentIs DEF SessionInv, TurnInv
        <4>2. Len(tape) <= Len(Present) /\ Prefix(Present, Len(tape)) = tape /\ cycle.position = job.at
          BY <1>1, <3>1 DEF Clean, Standing
        <4>3. Len(Present) \in Nat
          BY <4>1
        <4> HIDE DEF Present
        <4> QED
          BY <2>1, <4>1, <4>2, <4>3
      <3>5. ~ (l > k)
        BY <3>4
      <3>6. state' = p /\ cycle' = Draft(l, p)
        BY <1>1, <1>3, <2>1, <2>2, <3>2, <3>3, <3>4, <3>5 DEF Restore
      <3>7. DeviceTypes'
        BY <2>2, <3>1, <3>3, <3>6 DEF Clean, DeviceTypes
      <3>8. ASSUME NEW n \in 0..l PROVE Prefix(p, n) = Prefix(q, n)
        <4>1. l \in 0..Len(q)
          BY <3>4
        <4> QED
          BY <3>4, <4>1, PrefixOfPrefix
      <3>9. Standing'
        <4>1. ASSUME NEW i \in 1..l PROVE pages'[i] = Prefix(p, i)
          <5>1. i \in 1..k
            BY <3>4
          <5>2. pages[i] = Prefix(q, i)
            BY <3>1, <3>4, <5>1 DEF Clean, Standing
          <5> QED
            BY <2>2, <3>8, <5>2
        <4>2. Prefix(p, Len(p)) = p
          BY PrefixWhole
        <4> QED
          BY <1>1, <2>1, <2>3, <3>6, <4>1, <4>2 DEF Standing
      <3>10. MarksPresent'
        <4>1. ASSUME NEW n \in DOMAIN marks
              PROVE  /\ marks[n].carry = marks[n].state
                     /\ n \notin left' => n \in 1..l /\ marks[n].state = Prefix(p, n)
          <5>1. /\ marks[n].carry = marks[n].state
                /\ n \notin left => n \in 1..k /\ marks[n].state = Prefix(q, n)
            BY <3>1, <3>4 DEF Clean, MarksPresent
          <5>2. n \notin left' => n \notin left /\ ~(n > l)
            BY <2>1, <2>2
          <5> QED
            BY <3>8, <5>1, <5>2
        <4> QED
          BY <2>1, <2>2, <2>3, <4>1 DEF MarksPresent
      <3>11. Committed'
        BY <2>2, <3>1 DEF Clean, Committed
      <3> QED
        BY <3>7, <3>9, <3>10, <3>11 DEF Clean
    <2> QED
      BY <2>4, <2>5 DEF SessionInv
  <1> QED
    BY <1>2, <1>3

(* The invariant holds at first, and every step keeps it.                     *)
LEMMA SessionInvInit ==
    ASSUME SessionAssumption, Init
    PROVE  SessionInv
  <1>1. Cardinality({}) = 0 /\ DOMAIN marks = {}
    BY FS_EmptySet DEF Init
  <1>2. Prefix(<<>>, 0) = <<>> /\ Len(<<>>) = 0 /\ <<>> \in Seq(Tokens) /\ <<>> \in Seq(Seq(Tokens) \cup {None})
    BY DEF Prefix
  <1>3. Present = <<>>
    BY DEF Init, Present
  <1>4. MarksFit
    <2>1. DOMAIN marks \subseteq 1..0 /\ 0 \in Nat
      BY <1>1
    <2>2. Cardinality(DOMAIN marks) <= PrefixMarks
      BY <1>1 DEF SessionAssumption
    <2> QED
      BY <2>1, <2>2 DEF MarksFit
  <1>5. TurnInv
    BY <1>2, <1>4 DEF Init, TurnInv, SessionTypes, InTurn
  <1>6. Clean
    BY <1>1, <1>2, <1>3 DEF Init, Clean, DeviceTypes, Standing, MarksPresent, Committed
  <1> QED
    BY <1>5, <1>6 DEF SessionInv

LEMMA SessionInvNext ==
    ASSUME SessionAssumption, SessionInv, [Next]_sessionVars
    PROVE  SessionInv'
  <1>1. ASSUME NEW ids \in Prompts, NEW max \in 1..MaxAnswer,
               Continue(ids, max) \/ RestoreMark(ids, max) \/ StartOver(ids, max)
        PROVE  SessionInv'
    <2>1. max \in Nat
      BY DEF SessionAssumption
    <2> QED
      BY <1>1, <2>1, ContinueStep, RestoreMarkStep, StartOverStep
  <1>2. ASSUME NEW emitted \in Answers, NEW close \in BOOLEAN, Window(emitted, close)
        PROVE  SessionInv'
    BY <1>2, WindowStep
  <1>3. CASE Span \/ Inject \/ Commit \/ Cancelled \/ Refused
    BY <1>3, SpanStep, InjectStep, CommitStep, EndStep
  <1>4. CASE UNCHANGED sessionVars
    <2>1. Present' = Present
      BY <1>4 DEF sessionVars, Present, Line
    <2>2. TurnInv'
      BY <1>4 DEF sessionVars, SessionInv, TurnInv, SessionTypes, InTurn, MarksFit, Line
    <2>3. Clean => Clean'
      BY <1>4, <2>1 DEF sessionVars, Clean, DeviceTypes, Standing, MarksPresent, Committed
    <2>4. misled' = misled
      BY <1>4 DEF sessionVars
    <2> QED
      BY <2>2, <2>3, <2>4 DEF SessionInv
  <1> QED
    BY <1>1, <1>2, <1>3, <1>4 DEF Next

(* What the invariant says of the three properties.                           *)
LEMMA SessionInvImplies ==
    ASSUME SessionAssumption, SessionInv
    PROVE  OwnState /\ RestsOnTape /\ DraftInStep
  <1>0. CASE misled
    BY <1>0 DEF SessionInv, TurnInv, MarksFit, OwnState, RestsOnTape, DraftInStep
  <1>1. ASSUME ~misled, job # None PROVE OwnState /\ RestsOnTape /\ DraftInStep
    <2>0. TurnInv /\ Clean
      BY <1>1 DEF SessionInv
    <2>1. PICK p \in Seq(Tokens), at \in Nat : p = Present /\ at = job.at /\ Len(p) = at /\ p = Prefix(Line(job), at)
      BY <1>1, <2>0, PresentIs DEF TurnInv, JobSet
    <2>2. OwnState
      <3>1. \A i \in 1..at : Prefix(Prefix(Line(job), at), i) = Prefix(Line(job), i)
        <4>1. PICK line \in Seq(Tokens) : line = Line(job) /\ at <= Len(line)
          BY <1>1, <2>0, <2>1, PresentIs DEF TurnInv, InTurn
        <4>2. at \in 0..Len(line)
          BY <4>1
        <4> QED
          BY <4>1, <4>2, PrefixOfPrefix
      <3> QED
        BY <2>0, <2>1, <3>1 DEF Clean, Standing, OwnState, StateOfTurn
    <2>3. DraftInStep
      <3>1. ASSUME at > 0 PROVE cycle.carry = p
        <4>1. p # <<>>
          BY <2>1, <3>1
        <4> QED
          BY <2>0, <2>1, <4>1, NoneIsNone DEF Clean, Standing
      <3> QED
        BY <1>1, <2>0, <2>1, <3>1 DEF Clean, Standing, DraftInStep
    <2> QED
      BY <1>1, <2>0, <2>2, <2>3 DEF TurnInv, MarksFit, RestsOnTape
  <1>2. ASSUME ~misled, job = None PROVE OwnState /\ RestsOnTape /\ DraftInStep
    <2>0. TurnInv /\ Clean
      BY <1>2 DEF SessionInv
    <2>1. Present = tape /\ DOMAIN tape = 1..Len(tape)
      BY <1>2, <2>0, PresentIs DEF TurnInv, SessionTypes
    <2> QED
      BY <1>2, <2>0, <2>1 DEF TurnInv, MarksFit, Clean, Standing, OwnState, StateOfTurn, RestsOnTape, DraftInStep
  <1> QED
    BY <1>0, <1>1, <1>2

-----------------------------------------------------------------------------
LEMMA SessionInvAlways == Spec => []SessionInv
  <1>1. Init => SessionInv
    BY SessionAssumption, SessionInvInit
  <1>2. SessionInv /\ [Next]_sessionVars => SessionInv'
    BY SessionAssumption, SessionInvNext
  <1> QED
    BY <1>1, <1>2, PTL DEF Spec

(* Session.generate computes a turn from its own prompt and output alone,     *)
(* whatever was cached, restored, refused or cancelled before, for every      *)
(* vocabulary, page, span and number of marks - until a mark is restored that *)
(* a cancelled turn left beyond the commit and that is not of the tape's      *)
(* tokens (session.cancel keeps it; the run session_stale shows that this     *)
(* happens), and again once the session is emptied.                           *)
THEOREM TurnsAreOwn == Spec => []OwnState
  <1>1. SessionInv => OwnState
    BY SessionAssumption, SessionInvImplies
  <1> QED
    BY <1>1, SessionInvAlways, PTL

(* With that one exception the runner stands between turns where the tape     *)
(* ends (commit, cancel); and in every state, without it, the prefix marks do *)
(* not outnumber their buffers (_on_span).                                    *)
THEOREM TapeIsHeld == Spec => []RestsOnTape
  <1>1. SessionInv => RestsOnTape
    BY SessionAssumption, SessionInvImplies
  <1> QED
    BY <1>1, SessionInvAlways, PTL

(* With that one exception the MTP draft has read what the target has         *)
(* (MTPCycle), at every span, window, restored mark and cancelled turn.       *)
THEOREM DraftIsInStep == Spec => []DraftInStep
  <1>1. SessionInv => DraftInStep
    BY SessionAssumption, SessionInvImplies
  <1> QED
    BY <1>1, SessionInvAlways, PTL
=============================================================================
