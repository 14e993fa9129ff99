---------------------------- MODULE AiDebugProofs ----------------------------
(***************************************************************************)
(* Proofs about the AI Debug panel (module AiDebug), for any records, any  *)
(* modulus of the clock and any number of analyses under way.  The first   *)
(* part is about the pure algorithms: what a fold over rows, findings or   *)
(* evidence returns is shown by induction over the sets folded over, with  *)
(* the library's facts about well-founded orders.                          *)
(***************************************************************************)
EXTENDS AiDebug, FiniteSetTheorems, TLAPS

(* A nonempty set of natural numbers has a least element.                  *)
LEMMA NatLeast ==
  ASSUME NEW T, T \subseteq Nat, T # {}
  PROVE  \E n \in T : \A m \in T : n <= m
<1>1. PICK n \in T : \A m \in T : ~(<<m, n>> \in OpToRel(<, Nat))
  BY NatLessThanWellFounded, WFMin, Zenon
<1>2. \A m \in T : ~(m < n)
  <2> TAKE m \in T
  <2>1. m \in Nat /\ n \in Nat
    OBVIOUS
  <2>2. <<m, n>> \in Nat \X Nat
    BY <2>1
  <2> QED BY <1>1, <2>1, <2>2 DEF OpToRel
<1> QED BY <1>2

(* Induction, for sets of numbers.                                         *)
LEMMA NatSetInduction ==
  ASSUME NEW T, 0 \in T, \A n \in Nat : n \in T => n + 1 \in T
  PROVE  Nat \subseteq T
<1> SUFFICES ASSUME Nat \ T # {} PROVE FALSE
  OBVIOUS
<1>1. PICK n \in Nat \ T : \A m \in Nat \ T : n <= m
  BY NatLeast
<1>2. n # 0 /\ n - 1 \in Nat
  BY <1>1
<1>3. n - 1 \in T
  BY <1>1, <1>2
<1>4. (n - 1) + 1 \in T
  BY <1>2, <1>3
<1> QED BY <1>1, <1>4

(* A fold over a finite set exists: elements are picked one after the      *)
(* other, and each takes the result v of the rest to next[<<x, v>>].       *)
Smaller(S, k) == {s \in SUBSET S : Cardinality(s) <= k}
Folds(g, D, base, pick, next) ==
  \A s \in D : g[s] = IF s = {} THEN base ELSE next[<<pick[s], g[s \ {pick[s]}]>>]

LEMMA FoldExists ==
  ASSUME NEW S, IsFiniteSet(S), NEW V, NEW base \in V, NEW pick,
         \A s \in SUBSET S : s # {} => pick[s] \in s,
         NEW next \in [S \X V -> V]
  PROVE  \E g \in [SUBSET S -> V] : Folds(g, SUBSET S, base, pick, next)
<1> DEFINE T == {k \in Nat : \E g \in [Smaller(S, k) -> V] : Folds(g, Smaller(S, k), base, pick, next)}
<1>1. \A s \in SUBSET S : IsFiniteSet(s) /\ Cardinality(s) \in Nat
  BY FS_Subset, FS_CardinalityType
<1>2. \A s \in SUBSET S : s # {} =>
        /\ Cardinality(s) # 0 /\ s \ {pick[s]} \in SUBSET S /\ pick[s] \in S
        /\ Cardinality(s \ {pick[s]}) = Cardinality(s) - 1
  <2> TAKE s \in SUBSET S
  <2> HAVE s # {}
  <2>1. IsFiniteSet(s) /\ pick[s] \in s
    BY <1>1
  <2>2. Cardinality(s \ {pick[s]}) = Cardinality(s) - 1
    BY <2>1, FS_RemoveElement
  <2>3. Cardinality(s) # 0
    BY <2>1, FS_EmptySet
  <2> QED BY <2>1, <2>2, <2>3
<1>3. 0 \in T
  <2> DEFINE g == [s \in Smaller(S, 0) |-> base]
  <2>1. \A s \in Smaller(S, 0) : s = {}
    <3> SUFFICES ASSUME NEW s \in SUBSET S, Cardinality(s) <= 0 PROVE s = {}
      BY DEF Smaller
    <3>1. Cardinality(s) = 0
      BY <1>1
    <3> QED BY <1>2, <3>1
  <2>2. g \in [Smaller(S, 0) -> V] /\ Folds(g, Smaller(S, 0), base, pick, next)
    BY <2>1 DEF Folds
  <2> QED BY <2>2
<1>4. \A k \in Nat : k \in T => k + 1 \in T
  <2> SUFFICES ASSUME NEW k \in Nat, k \in T PROVE k + 1 \in T
    OBVIOUS
  <2>1. PICK g \in [Smaller(S, k) -> V] : Folds(g, Smaller(S, k), base, pick, next)
    OBVIOUS
  <2> DEFINE h == [s \in Smaller(S, k + 1) |->
                     IF s = {} THEN base ELSE next[<<pick[s], g[s \ {pick[s]}]>>]]
  <2>2. \A s \in Smaller(S, k + 1) : s # {} =>
          s \ {pick[s]} \in Smaller(S, k) /\ s \ {pick[s]} \in Smaller(S, k + 1) /\ pick[s] \in S
    BY <1>1, <1>2 DEF Smaller
  <2>3. \A s \in Smaller(S, k) : g[s] \in V /\ s \in Smaller(S, k + 1) /\ s \in SUBSET S
    BY <1>1 DEF Smaller
  <2>4. h \in [Smaller(S, k + 1) -> V]
    <3> SUFFICES ASSUME NEW s \in Smaller(S, k + 1), s # {}
                 PROVE  next[<<pick[s], g[s \ {pick[s]}]>>] \in V
      BY Zenon
    <3>1. <<pick[s], g[s \ {pick[s]}]>> \in S \X V
      BY <2>2, <2>3
    <3> QED BY <3>1
  <2>5. \A s \in Smaller(S, k) : h[s] = g[s]
    BY <2>1, <2>3 DEF Folds
  <2>6. Folds(h, Smaller(S, k + 1), base, pick, next)
    <3> SUFFICES ASSUME NEW s \in Smaller(S, k + 1), s # {}
                 PROVE  h[s] = next[<<pick[s], h[s \ {pick[s]}]>>]
      BY DEF Folds
    <3>1. h[s] = next[<<pick[s], g[s \ {pick[s]}]>>]
      OBVIOUS
    <3> HIDE DEF h
    <3> QED BY <2>2, <2>5, <3>1
  <2> HIDE DEF h
  <2> QED BY <2>4, <2>6
<1> HIDE DEF T
<1>5. Cardinality(S) \in T
  BY <1>3, <1>4, NatSetInduction, FS_CardinalityType
<1>6. Smaller(S, Cardinality(S)) = SUBSET S
  BY FS_Subset DEF Smaller
<1>7. PICK g \in [Smaller(S, Cardinality(S)) -> V] :
        Folds(g, Smaller(S, Cardinality(S)), base, pick, next)
  BY <1>5, Zenon DEF T
<1>8. g \in [SUBSET S -> V]
  BY <1>6, <1>7
<1>9. Folds(g, SUBSET S, base, pick, next)
  BY <1>6, <1>7
<1> QED BY <1>8, <1>9

(* Induction over the subsets of a finite set.                             *)
LEMMA SubsetInduction ==
  ASSUME NEW S, IsFiniteSet(S), NEW T, {} \in T,
         \A s \in SUBSET S : s # {} /\ (\A x \in s : s \ {x} \in T) => s \in T
  PROVE  SUBSET S \subseteq T
<1> DEFINE N == {k \in Nat : \A s \in SUBSET S : Cardinality(s) <= k => s \in T}
<1>1. \A s \in SUBSET S : IsFiniteSet(s) /\ Cardinality(s) \in Nat
                          /\ Cardinality(s) <= Cardinality(S)
  BY FS_Subset, FS_CardinalityType
<1>2. \A s \in SUBSET S : \A x \in s :
        Cardinality(s \ {x}) = Cardinality(s) - 1 /\ s \ {x} \in SUBSET S
  BY <1>1, FS_RemoveElement
<1>3. 0 \in N
  <2> SUFFICES ASSUME NEW s \in SUBSET S, Cardinality(s) <= 0 PROVE s \in T
    OBVIOUS
  <2>1. IsFiniteSet(s) /\ Cardinality(s) = 0
    BY <1>1
  <2>2. s = {}
    BY <2>1, FS_EmptySet
  <2> QED BY <2>2
<1>4. \A k \in Nat : k \in N => k + 1 \in N
  <2> SUFFICES ASSUME NEW k \in Nat, k \in N, NEW s \in SUBSET S, Cardinality(s) <= k + 1
               PROVE  s \in T
    OBVIOUS
  <2>1. \A x \in s : Cardinality(s \ {x}) <= k /\ s \ {x} \in SUBSET S
    BY <1>1, <1>2
  <2>2. \A x \in s : s \ {x} \in T
    BY <2>1
  <2> QED BY <2>2
<1> HIDE DEF N
<1>5. Cardinality(S) \in N
  BY <1>3, <1>4, NatSetInduction, FS_CardinalityType
<1> QED BY <1>1, <1>5 DEF N

-----------------------------------------------------------------------------
(* The snapshot.                                                           *)
Names == Catalog \cup {"transport", "transport_errors"}
Rows == [name : Names, raw : Nat]
Items == [name : Names, wraps : Nat, raw : Nat]
Passes == [timed : BOOLEAN, raw : Nat, wraps : Nat, items : Seq(Items)]

(* One more row unwrapped.                                                 *)
LEMMA UnwrapNextIs ==
  ASSUME NEW before \in Passes, NEW r \in Rows
  PROVE  unwrapNext(before, r) \in Passes
<1> DEFINE timed == r.name \notin Untimed
           wraps == IF /\ timed /\ before.timed /\ r.raw < before.raw
                       /\ 2 * (before.raw - r.raw) > Modulus
                    THEN before.wraps + 1 ELSE before.wraps
           item == [name |-> r.name, wraps |-> wraps, raw |-> r.raw]
<1>1. timed \in BOOLEAN /\ wraps \in Nat
  BY DEF Passes
<1>2. item \in Items
  BY <1>1 DEF Items, Rows
<1>3. unwrapNext(before, r)
        = [timed |-> before.timed \/ timed, raw |-> IF timed THEN r.raw ELSE before.raw,
           wraps |-> wraps, items |-> Append(before.items, item)]
  BY DEF unwrapNext
<1> HIDE DEF timed, wraps, item
<1>4. Append(before.items, item) \in Seq(Items)
  BY <1>2 DEF Passes
<1> QED BY <1>1, <1>3, <1>4 DEF Passes, Rows

(* The last index of a nonempty set of them, which a fold over a sequence  *)
(* takes first.                                                            *)
LEMMA MaxIs ==
  ASSUME NEW n \in Nat, NEW s \in SUBSET (1 .. n), s # {}
  PROVE  Max(s) \in s
<1> DEFINE T == {k \in Nat : n - k \in s}
<1>1. T \subseteq Nat /\ T # {}
  <2>1. PICK x \in s : TRUE
    OBVIOUS
  <2>2. n - x \in Nat /\ n - (n - x) = x
    OBVIOUS
  <2> QED BY <2>1, <2>2
<1>2. PICK d \in T : \A m \in T : d <= m
  BY <1>1, NatLeast
<1>3. \A y \in s : n - y \in T /\ n - (n - y) = y /\ y \in Nat
  OBVIOUS
<1>4. n - d \in s /\ \A y \in s : n - d >= y
  BY <1>2, <1>3
<1> QED BY <1>4 DEF Max

(* unwrapTimestamps makes one item of each row, with the name of a row.    *)
LEMMA UnwrapTypes ==
  ASSUME NEW rows \in Seq(Rows)
  PROVE  unwrapTimestamps(rows) \in Seq(Items)
<1> DEFINE D == DOMAIN rows
           it == CHOOSE iter :
                   iter = [s \in SUBSET D |->
                             IF s = {} THEN Unwrapped
                             ELSE LET x == Max(s) IN unwrapNext(iter[s \ {x}], rows[x])]
           pick == [s \in SUBSET D |-> Max(s)]
           next == [p \in D \X Passes |-> unwrapNext(p[2], rows[p[1]])]
<1>1. unwrapTimestamps(rows) = it[D].items
  BY DEF unwrapTimestamps, FoldLeft, MapThenFoldSet
<1>2. IsFiniteSet(D) /\ \A s \in SUBSET D : s # {} => Max(s) \in s
  <2>1. D = 1 .. Len(rows) /\ Len(rows) \in Nat
    OBVIOUS
  <2>2. IsFiniteSet(1 .. Len(rows))
    BY <2>1, FS_Interval
  <2>3. \A s \in SUBSET (1 .. Len(rows)) : s # {} => Max(s) \in s
    BY <2>1, MaxIs
  <2> QED BY <2>1, <2>2, <2>3
<1>3. Unwrapped \in Passes
  BY DEF Unwrapped, Passes
<1>4. \A x \in D, v \in Passes : unwrapNext(v, rows[x]) \in Passes
  BY UnwrapNextIs
<1>5. \E g : g = [s \in SUBSET D |-> IF s = {} THEN Unwrapped
                                   ELSE LET x == Max(s) IN unwrapNext(g[s \ {x}], rows[x])]
  <2>1. next \in [D \X Passes -> Passes] /\ \A s \in SUBSET D : s # {} => pick[s] \in s
    BY <1>2, <1>4
  <2>2. PICK g \in [SUBSET D -> Passes] : Folds(g, SUBSET D, Unwrapped, pick, next)
    <3> HIDE DEF D, pick, next
    <3> QED BY <1>2, <1>3, <2>1, FoldExists
  <2>3. \A s \in SUBSET D : g[s] = IF s = {} THEN Unwrapped
                                  ELSE unwrapNext(g[s \ {Max(s)}], rows[Max(s)])
    <3> SUFFICES ASSUME NEW s \in SUBSET D, s # {}
                 PROVE  g[s] = unwrapNext(g[s \ {Max(s)}], rows[Max(s)])
      BY <2>2 DEF Folds
    <3>1. g[s] = next[<<Max(s), g[s \ {Max(s)}]>>]
      BY <2>2 DEF Folds
    <3>2. <<Max(s), g[s \ {Max(s)}]>> \in D \X Passes
      BY <1>2
    <3> QED BY <3>1, <3>2
  <2> HIDE DEF D
  <2> QED BY <2>3
<1>6. it = [s \in SUBSET D |-> IF s = {} THEN Unwrapped
                              ELSE LET x == Max(s) IN unwrapNext(it[s \ {x}], rows[x])]
  BY <1>5, Zenon
<1> HIDE DEF it
<1>7. \A s \in SUBSET D : it[s] = IF s = {} THEN Unwrapped
                                 ELSE unwrapNext(it[s \ {Max(s)}], rows[Max(s)])
  BY <1>6
<1> DEFINE T == {s \in SUBSET D : it[s] \in Passes}
<1>8. SUBSET D \subseteq T
  <2>1. {} \in T
    BY <1>3, <1>7
  <2>2. \A s \in SUBSET D : s # {} /\ (\A x \in s : s \ {x} \in T) => s \in T
    <3> SUFFICES ASSUME NEW s \in SUBSET D, s # {}, \A x \in s : s \ {x} \in T
                 PROVE  it[s] \in Passes
      OBVIOUS
    <3>1. Max(s) \in s /\ Max(s) \in D
      BY <1>2
    <3>2. it[s \ {Max(s)}] \in Passes
      BY <3>1
    <3>3. unwrapNext(it[s \ {Max(s)}], rows[Max(s)]) \in Passes
      BY <1>4, <3>1, <3>2
    <3> QED BY <1>7, <3>3
  <2> HIDE DEF T, D
  <2> QED BY <1>2, <2>1, <2>2, SubsetInduction
<1>9. it[D] \in Passes
  BY <1>8
<1> QED BY <1>1, <1>9 DEF Passes

(* The image of a finite set.                                              *)
LEMMA ImageFinite ==
  ASSUME NEW S, IsFiniteSet(S), NEW g, DOMAIN g = S, g = [x \in S |-> g[x]]
  PROVE  IsFiniteSet({g[x] : x \in S})
<1> DEFINE T == {g[x] : x \in S}
<1>1. g \in Surjection(S, T)
  BY DEF Surjection
<1> QED BY <1>1, FS_Surjection, Zenon

Records == [name : Catalog, raw : 0 .. Modulus - 1]
Scopes == {"session", "la_capture"}

(* The rows of some names are rows.                                        *)
LEMMA NamedIs ==
  ASSUME NEW R, NEW rows \in Seq(R), NEW names
  PROVE  named(rows, names) \in Seq(R)
<1> DEFINE keep(s, r) == IF r.name \in names THEN Append(s, r) ELSE s
           D == DOMAIN rows
           it == CHOOSE iter :
                   iter = [s \in SUBSET D |->
                             IF s = {} THEN <<>>
                             ELSE LET x == Max(s) IN keep(iter[s \ {x}], rows[x])]
           pick == [s \in SUBSET D |-> Max(s)]
           next == [p \in D \X Seq(R) |-> keep(p[2], rows[p[1]])]
<1>1. named(rows, names) = it[D]
  BY DEF named, FoldLeft, MapThenFoldSet
<1>2. IsFiniteSet(D) /\ \A s \in SUBSET D : s # {} => Max(s) \in s
  <2>1. D = 1 .. Len(rows) /\ Len(rows) \in Nat
    OBVIOUS
  <2>2. IsFiniteSet(1 .. Len(rows))
    BY <2>1, FS_Interval
  <2>3. \A s \in SUBSET (1 .. Len(rows)) : s # {} => Max(s) \in s
    BY <2>1, MaxIs
  <2> QED BY <2>1, <2>2, <2>3
<1>3. <<>> \in Seq(R)
  OBVIOUS
<1>4. \A x \in D, v \in Seq(R) : keep(v, rows[x]) \in Seq(R)
  OBVIOUS
<1>5. \E g : g = [s \in SUBSET D |-> IF s = {} THEN <<>>
                                   ELSE LET x == Max(s) IN keep(g[s \ {x}], rows[x])]
  <2>1. next \in [D \X Seq(R) -> Seq(R)] /\ \A s \in SUBSET D : s # {} => pick[s] \in s
    BY <1>2, <1>4
  <2>2. PICK g \in [SUBSET D -> Seq(R)] : Folds(g, SUBSET D, <<>>, pick, next)
    <3> HIDE DEF D, pick, next
    <3> QED BY <1>2, <1>3, <2>1, FoldExists
  <2>3. \A s \in SUBSET D : g[s] = IF s = {} THEN <<>>
                                  ELSE keep(g[s \ {Max(s)}], rows[Max(s)])
    <3> SUFFICES ASSUME NEW s \in SUBSET D, s # {}
                 PROVE  g[s] = keep(g[s \ {Max(s)}], rows[Max(s)])
      BY <2>2 DEF Folds
    <3>1. g[s] = next[<<Max(s), g[s \ {Max(s)}]>>]
      BY <2>2 DEF Folds
    <3>2. <<Max(s), g[s \ {Max(s)}]>> \in D \X Seq(R)
      BY <1>2
    <3> QED BY <3>1, <3>2
  <2> HIDE DEF D
  <2> QED BY <2>3
<1>6. it = [s \in SUBSET D |-> IF s = {} THEN <<>>
                              ELSE LET x == Max(s) IN keep(it[s \ {x}], rows[x])]
  BY <1>5, Zenon
<1> HIDE DEF it
<1>7. \A s \in SUBSET D : it[s] = IF s = {} THEN <<>>
                                 ELSE keep(it[s \ {Max(s)}], rows[Max(s)])
  BY <1>6
<1> DEFINE T == {s \in SUBSET D : it[s] \in Seq(R)}
<1>8. SUBSET D \subseteq T
  <2>1. {} \in T
    BY <1>3, <1>7
  <2>2. \A s \in SUBSET D : s # {} /\ (\A x \in s : s \ {x} \in T) => s \in T
    <3> SUFFICES ASSUME NEW s \in SUBSET D, s # {}, \A x \in s : s \ {x} \in T
                 PROVE  it[s] \in Seq(R)
      OBVIOUS
    <3>1. Max(s) \in s /\ Max(s) \in D
      BY <1>2
    <3>2. it[s \ {Max(s)}] \in Seq(R)
      BY <3>1
    <3>3. keep(it[s \ {Max(s)}], rows[Max(s)]) \in Seq(R)
      BY <1>4, <3>1, <3>2
    <3> QED BY <1>7, <3>3
  <2> HIDE DEF T, D
  <2> QED BY <1>2, <2>1, <2>2, SubsetInduction
<1>9. it[D] \in Seq(R)
  BY <1>8
<1> QED BY <1>1, <1>9

(* collectRecords returns rows: records, and the transport's counters.     *)
LEMMA RowsAre ==
  ASSUME NEW d \in Seq(Records), NEW c \in Scopes
  PROVE  collectRecords(d, c) \in Seq(Rows)
<1> DEFINE captures == named(d, {"capture", "torn_capture"})
           transport == IF named(d, {"bad_bytes"}) = <<>> THEN "transport" ELSE "transport_errors"
           shown == IF c = "la_capture" /\ captures # <<>> THEN <<Last(captures)>> ELSE captures
           tail == <<[name |-> transport, raw |-> 0]>>
<1>1. d \in Seq(Rows)
  <2>1. Records \subseteq Rows
    BY AiDebugAssumption DEF Records, Rows, Names
  <2> QED BY <2>1
<1>2. \A names : named(d, names) \in Seq(Rows)
  BY <1>1, NamedIs
<1>3. \A s \in Seq(Rows) : Reverse(s) \in Seq(Rows)
  <2> TAKE s \in Seq(Rows)
  <2>1. \A i \in 1 .. Len(s) : (Len(s) - i) + 1 \in 1 .. Len(s)
    OBVIOUS
  <2> QED BY <2>1 DEF Reverse
<1>4. captures \in Seq(Rows)
  BY <1>2
<1> HIDE DEF captures
<1>5. shown \in Seq(Rows)
  <2>1. CASE c = "la_capture" /\ captures # <<>>
    <3>1. Last(captures) \in Rows
      BY <1>4, <2>1 DEF Last
    <3> QED BY <2>1, <3>1
  <2> QED BY <1>4, <2>1
<1>6. tail \in Seq(Rows)
  <2>1. [name |-> transport, raw |-> 0] \in Rows
    BY DEF Rows, Names
  <2> HIDE DEF transport
  <2> QED BY <2>1
<1>7. collectRecords(d, c)
        = Reverse(named(d, {"log"})) \o named(d, {"frame_stall"}) \o named(d, {"drop"}) \o named(d, {"timeout"})
            \o named(d, {"rate"}) \o Reverse(named(d, {"fifo", "latency"})) \o shown \o tail
  BY DEF collectRecords, captures
<1> HIDE DEF shown, tail
<1> DEFINE a1 == Reverse(named(d, {"log"}))
           a2 == Reverse(named(d, {"fifo", "latency"}))
<1>8. a1 \in Seq(Rows) /\ a2 \in Seq(Rows)
  BY <1>2, <1>3
<1> HIDE DEF a1, a2
<1> DEFINE b1 == a1 \o named(d, {"frame_stall"})
           b2 == b1 \o named(d, {"drop"})
           b3 == b2 \o named(d, {"timeout"})
           b4 == b3 \o named(d, {"rate"})
           b5 == b4 \o a2
           b6 == b5 \o shown
<1>9. \A s, u \in Seq(Rows) : s \o u \in Seq(Rows)
  OBVIOUS
<1>10. b1 \in Seq(Rows) /\ b2 \in Seq(Rows) /\ b3 \in Seq(Rows) /\ b4 \in Seq(Rows)
  BY <1>2, <1>8, <1>9
<1>11. b6 \o tail \in Seq(Rows)
  <2> HIDE DEF b4
  <2> QED BY <1>5, <1>6, <1>8, <1>9, <1>10
<1> QED BY <1>7, <1>11 DEF a1, a2

IsSnapshot(s) ==
  s # none /\ s.scope \in Scopes /\ s.evidence \subseteq Items /\ IsFiniteSet(s.evidence)

(* build makes a snapshot of the scope asked for.                          *)
LEMMA BuildIs ==
  ASSUME NEW d \in Seq(Records), NEW c \in Scopes
  PROVE  IsSnapshot(build(d, c)) /\ build(d, c).scope = c
<1> DEFINE items == unwrapTimestamps(collectRecords(d, c))
           duplicates == Len(items) - Cardinality(ToSet(items))
<1>1. items \in Seq(Items)
  BY RowsAre, UnwrapTypes
<1>2. build(d, c) = [scope |-> c, evidence |-> ToSet(items), duplicates |-> duplicates]
  BY DEF build
<1> HIDE DEF items, duplicates
<1>3. ToSet(items) \subseteq Items
  BY <1>1 DEF ToSet
<1>4. IsFiniteSet(ToSet(items))
  <2>1. DOMAIN items = 1 .. Len(items) /\ Len(items) \in Int /\ 1 \in Int
        /\ items = [i \in DOMAIN items |-> items[i]]
    BY <1>1
  <2>2. IsFiniteSet(1 .. Len(items))
    BY <2>1, FS_Interval, Zenon
  <2>3. IsFiniteSet(DOMAIN items)
    BY <2>1, <2>2
  <2> QED BY <2>1, <2>3, ImageFinite DEF ToSet
<1>5. build(d, c) # none
  <2>1. "none" \notin DOMAIN build(d, c) /\ "none" \in DOMAIN none
    BY <1>2 DEF none
  <2> QED BY <2>1
<1> QED BY <1>2, <1>3, <1>4, <1>5 DEF IsSnapshot

-----------------------------------------------------------------------------
(* The rules cite what the snapshot holds, and something.                  *)
RuleNames == DOMAIN REGISTRY \cup {"temporal_overlap"}
FindingsIn(E) == [rule : RuleNames, cites : (SUBSET E) \ {{}}]
IsResult(r) ==
  /\ r # none /\ IsSnapshot(r.snapshot)
  /\ IsFiniteSet(r.findings) /\ r.findings \subseteq FindingsIn(r.snapshot.evidence)

(* The overlap rule cites two pieces of the snapshot's evidence, or finds  *)
(* nothing.                                                                *)
LEMMA OverlapCites ==
  ASSUME NEW E, E \subseteq Items
  PROVE  temporal_overlap(E) \subseteq FindingsIn(E) /\ IsFiniteSet(temporal_overlap(E))
<1> DEFINE abnormal == {e \in E : Severity(e.name) # "info" /\ e.name \notin Untimed}
           distance(p) == LET a == tick(p[1]) b == tick(p[2]) IN IF a < b THEN b - a ELSE a - b
           pairs == {p \in abnormal \X abnormal :
                       Source[p[1].name] # Source[p[2].name] /\ distance(p) <= Near}
           q == CHOOSE q \in pairs : \A o \in pairs : distance(q) <= distance(o)
<1>1. temporal_overlap(E) = IF pairs = {} THEN {} ELSE {finding("temporal_overlap", {q[1], q[2]})}
  BY DEF temporal_overlap
<1>2. \A p \in pairs : p[1] \in E /\ p[2] \in E
  OBVIOUS
<1>3. \A e \in E : tick(e) \in Nat
  <2> TAKE e \in E
  <2>1. e.raw \in Nat /\ e.wraps \in Nat /\ Modulus \in Nat
    BY AiDebugAssumption DEF Items
  <2> QED BY <2>1 DEF tick
<1>4. \A p \in pairs : distance(p) \in Nat
  BY <1>2, <1>3
<1> HIDE DEF pairs, distance
<1>5. ASSUME pairs # {} PROVE q \in pairs
  <2> DEFINE T == {distance(p) : p \in pairs}
  <2>1. T \subseteq Nat /\ T # {}
    BY <1>4, <1>5
  <2>2. PICK d \in T : \A m \in T : d <= m
    BY <2>1, NatLeast
  <2>3. PICK p \in pairs : \A o \in pairs : distance(p) <= distance(o)
    BY <2>2
  <2> QED BY <2>3
<1> HIDE DEF q
<1>6. CASE pairs = {}
  BY <1>1, <1>6, FS_EmptySet
<1>7. CASE pairs # {}
  <2>1. finding("temporal_overlap", {q[1], q[2]}) \in FindingsIn(E)
    <3>1. {q[1], q[2]} \in (SUBSET E) \ {{}}
      BY <1>2, <1>5, <1>7
    <3> QED BY <3>1 DEF finding, FindingsIn, RuleNames
  <2> QED BY <1>1, <1>7, <2>1, FS_Singleton
<1> QED BY <1>6, <1>7

(* The rules' result names the snapshot they ran on.                       *)
LEMMA EvaluateIs ==
  ASSUME NEW s, IsSnapshot(s)
  PROVE  IsResult(evaluate(s)) /\ evaluate(s).snapshot = s
<1> DEFINE matching(rule) == {e \in s.evidence : e.name \in REGISTRY[rule]}
           fired == {r \in DOMAIN REGISTRY : matching(r) # {}}
           found == {finding(rule, matching(rule)) : rule \in fired}
           g == [rule \in fired |-> finding(rule, matching(rule))]
           both == found \cup temporal_overlap(s.evidence)
<1>1. evaluate(s) = [snapshot |-> s, findings |-> both]
  BY DEF evaluate
<1>2. fired \subseteq RuleNames
  BY DEF RuleNames
<1>3. IsFiniteSet(fired)
  <2> DEFINE rules == DOMAIN REGISTRY
             names == <<"incomplete", "error_rate", "response_timeout", "backpressure", "throughput",
                        "spike", "stall", "data_integrity">>
             h == [i \in 1 .. 8 |-> names[i]]
  <2>1. rules = {h[i] : i \in 1 .. 8}
    <3>1. rules = {"incomplete", "error_rate", "response_timeout", "backpressure", "throughput",
                   "spike", "stall", "data_integrity"}
      BY DEF REGISTRY
    <3>2. \A i : i \in 1 .. 8 <=> i \in {1, 2, 3, 4, 5, 6, 7, 8}
      OBVIOUS
    <3>3. /\ h[1] = "incomplete" /\ h[2] = "error_rate" /\ h[3] = "response_timeout"
          /\ h[4] = "backpressure" /\ h[5] = "throughput" /\ h[6] = "spike" /\ h[7] = "stall"
          /\ h[8] = "data_integrity"
      OBVIOUS
    <3> HIDE DEF h, rules
    <3> QED BY <3>1, <3>2, <3>3
  <2>2. DOMAIN h = 1 .. 8 /\ h = [i \in 1 .. 8 |-> h[i]]
    BY Zenon
  <2>3. 1 \in Int /\ 8 \in Int
    OBVIOUS
  <2> HIDE DEF h
  <2>4. IsFiniteSet(1 .. 8)
    BY <2>3, FS_Interval, Zenon
  <2>5. IsFiniteSet(rules)
    BY <2>1, <2>2, <2>4, ImageFinite
  <2> QED BY <2>5, FS_Subset
<1>4. IsFiniteSet(found)
  <2>1. DOMAIN g = fired /\ g = [x \in fired |-> g[x]] /\ found = {g[x] : x \in fired}
    OBVIOUS
  <2> HIDE DEF g, fired, found
  <2> QED BY <1>3, <2>1, ImageFinite
<1>5. found \subseteq FindingsIn(s.evidence)
  <2> SUFFICES ASSUME NEW rule \in fired
               PROVE  finding(rule, matching(rule)) \in FindingsIn(s.evidence)
    OBVIOUS
  <2> QED BY <1>2 DEF finding, FindingsIn
<1>6. IsFiniteSet(both) /\ both \subseteq FindingsIn(s.evidence)
  <2>1. /\ IsFiniteSet(temporal_overlap(s.evidence))
        /\ temporal_overlap(s.evidence) \subseteq FindingsIn(s.evidence)
    BY OverlapCites DEF IsSnapshot
  <2> HIDE DEF found
  <2> QED BY <1>4, <1>5, <2>1, FS_Union
<1>7. evaluate(s) # none
  <2>1. "none" \notin DOMAIN evaluate(s) /\ "none" \in DOMAIN none
    BY <1>1 DEF none
  <2> QED BY <2>1
<1> HIDE DEF both
<1> QED BY <1>1, <1>6, <1>7 DEF IsResult

-----------------------------------------------------------------------------
(* What a provider gets to see is evidence of its snapshot.                *)
ContextsOf(F, E) == [findings : SUBSET F, selected : SUBSET E]

(* Adding a finding, or a piece of evidence, to a context keeps it within  *)
(* what it may be made from.                                               *)
LEMMA WithFindingIs ==
  ASSUME NEW E, NEW F, NEW f \in F, f.cites \subseteq E, NEW c \in ContextsOf(F, E)
  PROVE  WithFinding(f, c) \in ContextsOf(F, E)
<1> DEFINE bigger == [findings |-> c.findings \cup {f}, selected |-> c.selected \cup f.cites]
<1>1. bigger \in ContextsOf(F, E)
  BY DEF ContextsOf
<1>2. WithFinding(f, c) \in {bigger, c}
  BY DEF WithFinding, Within
<1> QED BY <1>1, <1>2

LEMMA WithEvidenceIs ==
  ASSUME NEW E, NEW F, NEW e \in E, NEW c \in ContextsOf(F, E)
  PROVE  WithEvidence(e, c) \in ContextsOf(F, E)
<1> DEFINE bigger == [c EXCEPT !.selected = @ \cup {e}]
<1>1. bigger \in ContextsOf(F, E)
  BY DEF ContextsOf
<1>2. WithEvidence(e, c) \in {bigger, c}
  BY DEF WithEvidence, Within
<1> QED BY <1>1, <1>2

(* The context after all findings have been tried.                         *)
LEMMA FoldFindings ==
  ASSUME NEW E, NEW F, \A f \in F : f.cites \subseteq E,
         NEW D, IsFiniteSet(D), D \subseteq F, NEW base \in ContextsOf(F, E)
  PROVE  FoldSet(WithFinding, base, D) \in ContextsOf(F, E)
<1> DEFINE some(s) == CHOOSE x \in s : TRUE
           V == ContextsOf(F, E)
           it == CHOOSE iter :
                   iter = [s \in SUBSET D |->
                             IF s = {} THEN base
                             ELSE LET x == CHOOSE y \in s : TRUE IN WithFinding(x, iter[s \ {x}])]
           pick == [s \in SUBSET D |-> some(s)]
           next == [p \in D \X V |-> WithFinding(p[1], p[2])]
<1>1. FoldSet(WithFinding, base, D) = it[D]
  BY DEF FoldSet, MapThenFoldSet
<1>2. \A s \in SUBSET D : s # {} => some(s) \in s
  OBVIOUS
<1>4. \A x \in D, v \in V : WithFinding(x, v) \in V
  BY WithFindingIs
<1> HIDE DEF some, V
<1>5. \E g : g = [s \in SUBSET D |-> IF s = {} THEN base ELSE WithFinding(some(s), g[s \ {some(s)}])]
  <2>1. next \in [D \X V -> V] /\ \A s \in SUBSET D : s # {} => pick[s] \in s
    BY <1>2, <1>4
  <2>2. PICK g \in [SUBSET D -> V] : Folds(g, SUBSET D, base, pick, next)
    <3> HIDE DEF pick, next
    <3> QED BY <2>1, FoldExists DEF V
  <2>3. \A s \in SUBSET D : g[s] = IF s = {} THEN base ELSE WithFinding(some(s), g[s \ {some(s)}])
    <3> SUFFICES ASSUME NEW s \in SUBSET D, s # {}
                 PROVE  g[s] = WithFinding(some(s), g[s \ {some(s)}])
      BY <2>2 DEF Folds
    <3>1. g[s] = next[<<some(s), g[s \ {some(s)}]>>]
      BY <2>2 DEF Folds
    <3>2. <<some(s), g[s \ {some(s)}]>> \in D \X V
      BY <1>2
    <3> QED BY <3>1, <3>2
  <2> QED BY <2>3
<1>6. it = [s \in SUBSET D |-> IF s = {} THEN base ELSE WithFinding(some(s), it[s \ {some(s)}])]
  BY <1>5, Zenon DEF some
<1> HIDE DEF it
<1>7. \A s \in SUBSET D : it[s] = IF s = {} THEN base ELSE WithFinding(some(s), it[s \ {some(s)}])
  BY <1>6
<1> DEFINE T == {s \in SUBSET D : it[s] \in V}
<1>8. SUBSET D \subseteq T
  <2>1. {} \in T
    BY <1>7 DEF V
  <2>2. \A s \in SUBSET D : s # {} /\ (\A x \in s : s \ {x} \in T) => s \in T
    <3> SUFFICES ASSUME NEW s \in SUBSET D, s # {}, \A x \in s : s \ {x} \in T
                 PROVE  it[s] \in V
      OBVIOUS
    <3>1. some(s) \in s /\ some(s) \in D
      BY <1>2
    <3>2. it[s \ {some(s)}] \in V
      BY <3>1
    <3> QED BY <1>4, <1>7, <3>1, <3>2
  <2> HIDE DEF T
  <2> QED BY <2>1, <2>2, SubsetInduction
<1> QED BY <1>1, <1>8 DEF V

(* The context after all evidence has been tried.                          *)
LEMMA FoldEvidence ==
  ASSUME NEW E, NEW F, NEW D, IsFiniteSet(D), D \subseteq E, NEW base \in ContextsOf(F, E)
  PROVE  FoldSet(WithEvidence, base, D) \in ContextsOf(F, E)
<1> DEFINE some(s) == CHOOSE x \in s : TRUE
           V == ContextsOf(F, E)
           it == CHOOSE iter :
                   iter = [s \in SUBSET D |->
                             IF s = {} THEN base
                             ELSE LET x == CHOOSE y \in s : TRUE IN WithEvidence(x, iter[s \ {x}])]
           pick == [s \in SUBSET D |-> some(s)]
           next == [p \in D \X V |-> WithEvidence(p[1], p[2])]
<1>1. FoldSet(WithEvidence, base, D) = it[D]
  BY DEF FoldSet, MapThenFoldSet
<1>2. \A s \in SUBSET D : s # {} => some(s) \in s
  OBVIOUS
<1>4. \A x \in D, v \in V : WithEvidence(x, v) \in V
  BY WithEvidenceIs
<1> HIDE DEF some, V
<1>5. \E g : g = [s \in SUBSET D |-> IF s = {} THEN base ELSE WithEvidence(some(s), g[s \ {some(s)}])]
  <2>1. next \in [D \X V -> V] /\ \A s \in SUBSET D : s # {} => pick[s] \in s
    BY <1>2, <1>4
  <2>2. PICK g \in [SUBSET D -> V] : Folds(g, SUBSET D, base, pick, next)
    <3> HIDE DEF pick, next
    <3> QED BY <2>1, FoldExists DEF V
  <2>3. \A s \in SUBSET D : g[s] = IF s = {} THEN base ELSE WithEvidence(some(s), g[s \ {some(s)}])
    <3> SUFFICES ASSUME NEW s \in SUBSET D, s # {}
                 PROVE  g[s] = WithEvidence(some(s), g[s \ {some(s)}])
      BY <2>2 DEF Folds
    <3>1. g[s] = next[<<some(s), g[s \ {some(s)}]>>]
      BY <2>2 DEF Folds
    <3>2. <<some(s), g[s \ {some(s)}]>> \in D \X V
      BY <1>2
    <3> QED BY <3>1, <3>2
  <2> QED BY <2>3
<1>6. it = [s \in SUBSET D |-> IF s = {} THEN base ELSE WithEvidence(some(s), it[s \ {some(s)}])]
  BY <1>5, Zenon DEF some
<1> HIDE DEF it
<1>7. \A s \in SUBSET D : it[s] = IF s = {} THEN base ELSE WithEvidence(some(s), it[s \ {some(s)}])
  BY <1>6
<1> DEFINE T == {s \in SUBSET D : it[s] \in V}
<1>8. SUBSET D \subseteq T
  <2>1. {} \in T
    BY <1>7 DEF V
  <2>2. \A s \in SUBSET D : s # {} /\ (\A x \in s : s \ {x} \in T) => s \in T
    <3> SUFFICES ASSUME NEW s \in SUBSET D, s # {}, \A x \in s : s \ {x} \in T
                 PROVE  it[s] \in V
      OBVIOUS
    <3>1. some(s) \in s /\ some(s) \in D
      BY <1>2
    <3>2. it[s \ {some(s)}] \in V
      BY <3>1
    <3> QED BY <1>4, <1>7, <3>1, <3>2
  <2> HIDE DEF T
  <2> QED BY <2>1, <2>2, SubsetInduction
<1> QED BY <1>1, <1>8 DEF V

(* buildContext selects evidence of its own snapshot only, whatever        *)
(* snapshot the findings came from.                                        *)
LEMMA ContextHolds ==
  ASSUME NEW s, IsSnapshot(s), NEW r, IsResult(r)
  PROVE  buildContext(s, r).selected \subseteq s.evidence
<1> DEFINE E == s.evidence
           kept(f) == [f EXCEPT !.cites = @ \cap s.evidence]
           held == {kept(f) : f \in r.findings}
           g == [f \in r.findings |-> kept(f)]
           quality == {f \in held : DataQuality(f)}
           V == ContextsOf(held, E)
           begun == [findings |-> {}, selected |-> {}]
           first == FoldSet(WithFinding, begun, quality)
           found == FoldSet(WithFinding, first, held \ quality)
           rest(c, severity) == {e \in s.evidence \ c.selected : Severity(e.name) = severity}
           severe(severity, c) == FoldSet(WithEvidence, c, rest(c, severity))
<1>1. buildContext(s, r) = severe("info", severe("warning", severe("error", found)))
  BY DEF buildContext
<1>2. \A f \in held : f.cites \subseteq E
  <2> SUFFICES ASSUME NEW f \in r.findings PROVE kept(f).cites \subseteq E
    OBVIOUS
  <2> QED BY DEF IsResult, FindingsIn
<1>3. IsFiniteSet(held)
  <2>1. DOMAIN g = r.findings /\ g = [x \in r.findings |-> g[x]] /\ held = {g[x] : x \in r.findings}
    OBVIOUS
  <2> HIDE DEF g, held
  <2> QED BY <2>1, ImageFinite DEF IsResult
<1>4. begun \in V
  BY DEF ContextsOf
<1>5. IsFiniteSet(quality) /\ IsFiniteSet(held \ quality)
  <2> HIDE DEF held
  <2> QED BY <1>3, FS_Subset
<1>6. found \in V
  <2> HIDE DEF held, begun
  <2>1. first \in V
    BY <1>2, <1>4, <1>5, FoldFindings
  <2> HIDE DEF first
  <2> QED BY <1>2, <1>5, <2>1, FoldFindings
<1>7. \A c \in V, severity \in {"info", "warning", "error"} : severe(severity, c) \in V
  <2> TAKE c \in V, severity \in {"info", "warning", "error"}
  <2> DEFINE D == rest(c, severity)
  <2>1. D \subseteq E
    OBVIOUS
  <2>2. IsFiniteSet(D)
    BY <2>1, FS_Subset DEF IsSnapshot
  <2> HIDE DEF D, held
  <2> QED BY <2>1, <2>2, FoldEvidence DEF D
<1>8. severe("info", severe("warning", severe("error", found))) \in V
  <2> HIDE DEF V, severe, found
  <2> QED BY <1>6, <1>7
<1> QED BY <1>1, <1>8 DEF ContextsOf

-----------------------------------------------------------------------------
(* The kinds of the values.                                                *)
Snapshots == {s \in [scope : Scopes, evidence : SUBSET Items, duplicates : Int] :
                IsFiniteSet(s.evidence)}
Builds == [snapshot : Snapshots, ask : BOOLEAN, current : BOOLEAN, moved : BOOLEAN]
Statuses == {"idle", "building_snapshot", "local_analyzing", "local_complete", "awaiting_consent",
             "running", "stale", "completed", "failed", "cancelled"}
IsRun(r) ==
  /\ "none" \notin DOMAIN r /\ "attempt" \in DOMAIN r
  /\ r.snapshot \in Snapshots /\ r.context.selected \subseteq r.snapshot.evidence
  /\ r.attempt \in 0 .. 1
IsAnswer(p) ==
  /\ p # none /\ p.snapshot \in Snapshots
  /\ p.diagnosis.cites \subseteq p.snapshot.evidence
  /\ p.diagnosis.confidence = "high" => p.diagnosis.cites # {}

KindsInv ==
  /\ data \in Seq(Records) /\ collected \in Nat
  /\ status \in Statuses /\ scope \in Scopes /\ consent \in BOOLEAN /\ disturbed \in BOOLEAN
  /\ builds \in Seq(Builds) /\ Len(builds) <= MaxBuilds
  /\ snapshot \in Snapshots \cup {none}
  /\ ruleResult = none \/ IsResult(ruleResult)
  /\ run = none \/ IsRun(run)
  /\ providerResult = none \/ IsAnswer(providerResult)

(* What there is at all, and what a run is about.                          *)
RunInv ==
  /\ snapshot = none => ruleResult = none
  /\ ruleResult = none => providerResult = none /\ run = none
  /\ run # none /\ muddled \cap {"again", "refused"} = {} => run.snapshot = snapshot

(* The scope of the snapshot and of those being hashed.  Untouched: one    *)
(* began before the data were cleared, and the scope has not been changed  *)
(* since.                                                                  *)
Untouched == \E i \in 1 .. Len(builds) : ~builds[i].current /\ ~builds[i].moved
ScopeInv ==
  /\ \A i \in 1 .. Len(builds) :
       builds[i].current /\ ~builds[i].moved => builds[i].snapshot.scope = scope
  /\ Untouched =>
       /\ \A i \in 1 .. Len(builds) : builds[i].current => ~builds[i].moved
       /\ snapshot # none => snapshot.scope = scope

AiInv == KindsInv /\ RunInv /\ ScopeInv /\ ReportBelongsTogether /\ StatusTold

(* No snapshot is taken for none.                                          *)
LEMMA SnapshotsAre == \A s \in Snapshots : IsSnapshot(s)
<1> SUFFICES ASSUME NEW s \in Snapshots PROVE IsSnapshot(s)
  OBVIOUS
<1>1. "none" \notin DOMAIN s /\ "none" \in DOMAIN none
  BY DEF Snapshots, none
<1> QED BY <1>1 DEF Snapshots, IsSnapshot

(* The snapshots that runLocal hashes.                                     *)
LEMMA Built ==
  ASSUME NEW d \in Seq(Records), NEW c \in Scopes
  PROVE  build(d, c) \in Snapshots /\ build(d, c).scope = c
<1> DEFINE items == unwrapTimestamps(collectRecords(d, c))
           duplicates == Len(items) - Cardinality(ToSet(items))
<1>1. build(d, c) = [scope |-> c, evidence |-> ToSet(items), duplicates |-> duplicates]
  BY DEF build
<1>2. IsSnapshot(build(d, c)) /\ build(d, c).scope = c
  BY BuildIs
<1>3. ToSet(items) \subseteq Items /\ IsFiniteSet(ToSet(items))
  BY <1>1, <1>2 DEF IsSnapshot
<1>4. duplicates \in Int
  <2>1. Len(items) \in Nat
    BY RowsAre, UnwrapTypes
  <2>2. Cardinality(ToSet(items)) \in Nat
    BY <1>3, FS_CardinalityType
  <2> HIDE DEF items
  <2> QED BY <2>1, <2>2
<1> HIDE DEF items, duplicates
<1> QED BY <1>1, <1>2, <1>3, <1>4 DEF Snapshots

(* The run that the controller begins cites its own snapshot.              *)
LEMMA RunsAre ==
  ASSUME NEW s \in Snapshots, NEW r, IsResult(r)
  PROVE  IsRun([snapshot |-> s, context |-> buildContext(s, r), attempt |-> 0])
<1>1. buildContext(s, r).selected \subseteq s.evidence
  BY SnapshotsAre, ContextHolds
<1> QED BY <1>1 DEF IsRun

(* The builds without one of them.                                         *)
DrawnFrom(r, s) == \A j \in 1 .. Len(r) : \E k \in 1 .. Len(s) : r[j] = s[k]

LEMMA Removed ==
  ASSUME NEW T, NEW s \in Seq(T), NEW i \in 1 .. Len(s)
  PROVE  /\ RemoveAt(s, i) \in Seq(T) /\ Len(RemoveAt(s, i)) = Len(s) - 1
         /\ DrawnFrom(RemoveAt(s, i), s)
<1> DEFINE a == SubSeq(s, 1, i - 1)
           b == SubSeq(s, i + 1, Len(s))
<1>1. a \in Seq(T) /\ Len(a) = i - 1 /\ \A j \in 1 .. Len(a) : a[j] = s[j]
  OBVIOUS
<1>2. b \in Seq(T) /\ Len(b) = Len(s) - i /\ \A j \in 1 .. Len(b) : b[j] = s[i + j]
  OBVIOUS
<1>3. RemoveAt(s, i) = a \o b
  BY DEF RemoveAt
<1> HIDE DEF a, b
<1>4. a \o b \in Seq(T) /\ Len(a \o b) = Len(a) + Len(b)
  <2>1. a \in Seq(T) /\ b \in Seq(T)
    BY <1>1, <1>2
  <2> QED BY <2>1
<1>5. \A j \in 1 .. Len(a \o b) : \E k \in 1 .. Len(s) : (a \o b)[j] = s[k]
  <2> TAKE j \in 1 .. Len(a \o b)
  <2>1. CASE j <= Len(a)
    BY <1>1, <1>2, <1>4, <2>1
  <2>2. CASE j > Len(a)
    <3>1. j - Len(a) \in 1 .. Len(b) /\ (a \o b)[j] = b[j - Len(a)]
      BY <1>1, <1>2, <1>4, <2>2
    <3>2. i + (j - Len(a)) \in 1 .. Len(s)
      BY <1>1, <1>2, <3>1
    <3> QED BY <1>2, <3>1, <3>2
  <2> QED BY <1>1, <2>1, <2>2
<1>6. Len(a) + Len(b) = Len(s) - 1
  <2>1. Len(a) = i - 1 /\ Len(b) = Len(s) - i /\ Len(s) \in Nat
    BY <1>1, <1>2
  <2> QED BY <2>1
<1>7. DrawnFrom(a \o b, s)
  BY <1>5 DEF DrawnFrom
<1> QED BY <1>3, <1>4, <1>6, <1>7

(* What runLocal and the controller do.                                    *)
LEMMA RunLocalIs ==
  ASSUME AiInv, NEW ask \in BOOLEAN, runLocal(ask)
  PROVE  AiInv'
<1> DEFINE b == [snapshot |-> build(data, scope), ask |-> ask, current |-> TRUE, moved |-> FALSE]
<1>1. b \in Builds /\ b.current /\ ~b.moved /\ b.snapshot.scope = scope
  BY Built DEF AiInv, KindsInv, Builds
<1>2. builds' = Append(builds, b) /\ Len(builds) < MaxBuilds
  BY DEF runLocal
<1> HIDE DEF b
<1>3. /\ builds' \in Seq(Builds) /\ Len(builds') = Len(builds) + 1 /\ builds' # <<>>
      /\ \A i \in 1 .. Len(builds') : builds'[i] = IF i <= Len(builds) THEN builds[i] ELSE b
  BY <1>1, <1>2 DEF AiInv, KindsInv
<1>4. Len(builds) \in Nat /\ MaxBuilds \in Nat
  BY AiDebugAssumption DEF AiInv, KindsInv
<1>5. KindsInv'
  BY <1>2, <1>3, <1>4 DEF AiInv, KindsInv, runLocal, Statuses
<1>6. RunInv' /\ ReportBelongsTogether'
  <2>1. \A why \in {"late", "again", "refused"} : why \in muddled' <=> why \in muddled
    BY DEF runLocal
  <2> QED BY <2>1 DEF AiInv, RunInv, ReportBelongsTogether, runLocal
<1>7. ScopeInv'
  <2>1. Untouched' => Untouched
    BY <1>1, <1>3, <1>4 DEF Untouched
  <2> QED BY <1>1, <1>3, <1>4, <2>1 DEF AiInv, ScopeInv, runLocal
<1>8. StatusTold'
  BY <1>3 DEF AiInv, StatusTold, runLocal
<1> QED BY <1>5, <1>6, <1>7, <1>8 DEF AiInv

LEMMA ControllerRunIs ==
  ASSUME AiInv, ruleResult # none, controllerRun(snapshot, ruleResult, providerResult),
         UNCHANGED <<data, collected, scope, snapshot, ruleResult, consent, builds, muddled>>
  PROVE  AiInv'
<1>1. snapshot \in Snapshots /\ IsResult(ruleResult)
  BY DEF AiInv, KindsInv, RunInv
<1> DEFINE r == [snapshot |-> snapshot, context |-> buildContext(snapshot, ruleResult), attempt |-> 0]
<1>2. run' = r /\ IsRun(r) /\ r.snapshot = snapshot
  BY <1>1, RunsAre DEF controllerRun
<1>3. r # none
  <2>1. "none" \in DOMAIN none
    BY DEF none
  <2> QED BY <1>2, <2>1 DEF IsRun
<1> HIDE DEF r
<1>4. KindsInv'
  BY <1>2 DEF AiInv, KindsInv, controllerRun, Statuses
<1>5. RunInv'
  BY <1>2, <1>3 DEF AiInv, RunInv, controllerRun
<1>6. ScopeInv'
  BY DEF AiInv, ScopeInv, Untouched
<1>7. ReportBelongsTogether'
  BY <1>1 DEF AiInv, ReportBelongsTogether, controllerRun
<1>8. StatusTold'
  BY <1>2, <1>3 DEF AiInv, StatusTold, controllerRun
<1> QED BY <1>4, <1>5, <1>6, <1>7, <1>8 DEF AiInv

(* askAI: without consent, with a local analysis first, or at once.        *)
LEMMA AskIs ==
  ASSUME AiInv, askAI
  PROVE  AiInv'
<1>1. CASE ~consent
  <2>1. KindsInv' /\ RunInv' /\ ReportBelongsTogether'
    BY <1>1 DEF AiInv, KindsInv, RunInv, ReportBelongsTogether, askAI, Statuses
  <2>2. ScopeInv' /\ StatusTold'
    BY <1>1 DEF AiInv, ScopeInv, Untouched, StatusTold, askAI
  <2> QED BY <2>1, <2>2 DEF AiInv
<1>2. CASE consent /\ ruleResult = none
  BY <1>2, RunLocalIs DEF askAI
<1>3. CASE consent /\ ruleResult # none
  BY <1>3, ControllerRunIs DEF askAI
<1> QED BY <1>1, <1>2, <1>3

(* A snapshot has been hashed.                                             *)
LEMMA BuiltIs ==
  ASSUME AiInv, NEW i \in 1 .. Len(builds), built(i)
  PROVE  AiInv'
<1> DEFINE b == builds[i]
           shown == IF b.current THEN b.snapshot ELSE snapshot
           refused == shown = none \/ (shown # none /\ shown.duplicates > 0)
<1>1. /\ builds' = RemoveAt(builds, i) /\ snapshot' = shown
      /\ UNCHANGED <<data, collected, scope, consent>>
  BY DEF built
<1>0. b \in Builds /\ b.moved \in BOOLEAN /\ b.current \in BOOLEAN /\ b.snapshot \in Snapshots
  <2>1. builds \in Seq(Builds)
    BY DEF AiInv, KindsInv
  <2>2. b \in Builds
    BY <2>1
  <2> HIDE DEF b
  <2> QED BY <2>2 DEF Builds
<1>2. /\ "late" \in muddled' <=> b.moved
      /\ "again" \in muddled' <=> run # none
      /\ "refused" \in muddled' <=> refused
  <2>1. muddled' = {why \in {"late", "again", "refused"} :
                      CASE why = "late" -> b.moved
                        [] why = "again" -> run # none
                        [] why = "refused" -> refused}
    BY DEF built
  <2> HIDE DEF b, refused
  <2> QED BY <1>0, <2>1
<1>3. b \in Builds /\ shown \in Snapshots \cup {none} /\ (shown = none => refused /\ snapshot = none)
  <2>1. snapshot \in Snapshots \cup {none} /\ \A s \in Snapshots : s # none
    BY SnapshotsAre DEF AiInv, KindsInv, IsSnapshot
  <2> HIDE DEF b
  <2> QED BY <1>0, <2>1
<1>4. /\ refused => /\ status' = "local_analyzing" /\ disturbed' = (run # none)
                    /\ UNCHANGED <<ruleResult, providerResult, run>>
      /\ ~refused => /\ ruleResult' = evaluate(shown)
                     /\ \/ controllerRun(shown, ruleResult', none)
                        \/ /\ status' = "local_complete" /\ providerResult' = none
                           /\ disturbed' = (run # none) /\ UNCHANGED run
  BY DEF built
<1>5. /\ builds' \in Seq(Builds) /\ Len(builds') = Len(builds) - 1
      /\ \A j \in 1 .. Len(builds') : \E k \in 1 .. Len(builds) : builds'[j] = builds[k]
  <2>1. builds \in Seq(Builds) /\ builds' = RemoveAt(builds, i) /\ i \in 1 .. Len(builds)
    BY <1>1 DEF AiInv, KindsInv
  <2> HIDE DEF b, shown, refused
  <2>2. /\ RemoveAt(builds, i) \in Seq(Builds) /\ Len(RemoveAt(builds, i)) = Len(builds) - 1
        /\ DrawnFrom(RemoveAt(builds, i), builds)
    BY <2>1, Removed, Zenon
  <2>3. builds' \in Seq(Builds) /\ Len(builds') = Len(builds) - 1 /\ DrawnFrom(builds', builds)
    BY <2>1, <2>2, Zenon
  <2> QED BY <2>3 DEF DrawnFrom
<1>6. ScopeInv'
  <2>1. Untouched' => Untouched
    BY <1>5 DEF Untouched
  <2>2. Untouched => (shown # none => shown.scope = scope)
    BY DEF AiInv, ScopeInv
  <2>3. scope' = scope /\ snapshot' = shown
    BY <1>1
  <2> HIDE DEF b, shown
  <2> QED BY <1>5, <2>1, <2>2, <2>3 DEF AiInv, ScopeInv
<1>7. shown # none /\ ~b.moved => shown.scope = scope
  BY <1>3 DEF AiInv, ScopeInv, Untouched, Builds
<1>8. Len(builds) \in Nat /\ MaxBuilds \in Nat /\ Len(builds) <= MaxBuilds
  BY AiDebugAssumption DEF AiInv, KindsInv
<1> HIDE DEF b, shown, refused
<1>9. CASE refused
  <2>1. KindsInv'
    BY <1>1, <1>3, <1>4, <1>5, <1>8, <1>9 DEF AiInv, KindsInv, Statuses
  <2>2. RunInv'
    BY <1>1, <1>2, <1>3, <1>4, <1>9 DEF AiInv, RunInv
  <2>3. ReportBelongsTogether'
    BY <1>1, <1>2, <1>3, <1>4, <1>7, <1>9 DEF AiInv, RunInv, ReportBelongsTogether
  <2>4. StatusTold'
    BY <1>4, <1>9 DEF AiInv, StatusTold
  <2> QED BY <1>6, <2>1, <2>2, <2>3, <2>4 DEF AiInv
<1>10. CASE ~refused
  <2> DEFINE result == evaluate(shown)
             r == [snapshot |-> shown, context |-> buildContext(shown, result), attempt |-> 0]
  <2>1. shown \in Snapshots /\ shown # none
    BY <1>3, <1>10, SnapshotsAre DEF IsSnapshot
  <2>2. IsResult(result) /\ result.snapshot = shown /\ result # none
    BY <2>1, SnapshotsAre, EvaluateIs DEF IsResult
  <2>3. IsRun(r) /\ r.snapshot = shown
    BY <2>1, <2>2, RunsAre
  <2>4. r # none
    <3>1. "none" \in DOMAIN none
      BY DEF none
    <3> QED BY <2>3, <3>1 DEF IsRun
  <2>5. /\ ruleResult' = result /\ providerResult' = none
        /\ \/ /\ run' = r
              /\ status' = IF run = none THEN "running" ELSE "stale"
              /\ disturbed' = (run # none)
           \/ /\ status' = "local_complete" /\ disturbed' = (run # none) /\ run' = run
    <3> HIDE DEF r, result
    <3> QED BY <1>4, <1>10 DEF controllerRun, r, result
  <2> HIDE DEF r, result
  <2>6. KindsInv'
    <3>1. Len(builds') <= MaxBuilds
      BY <1>5, <1>8
    <3>2. run' = none \/ IsRun(run')
      BY <2>3, <2>5 DEF AiInv, KindsInv
    <3>3. status' \in Statuses /\ disturbed' \in BOOLEAN
      BY <2>5 DEF Statuses
    <3> QED BY <1>1, <1>5, <2>1, <2>2, <2>5, <3>1, <3>2, <3>3 DEF AiInv, KindsInv
  <2>7. RunInv'
    BY <1>1, <1>2, <2>1, <2>2, <2>3, <2>5 DEF AiInv, RunInv
  <2>8. ReportBelongsTogether'
    <3>1. \A f \in result.findings : f.cites # {} /\ f.cites \subseteq shown.evidence
      BY <2>2 DEF IsResult, FindingsIn
    <3> QED BY <1>1, <1>2, <1>7, <2>1, <2>2, <2>5, <3>1 DEF ReportBelongsTogether
  <2>9. StatusTold'
    BY <2>2, <2>4, <2>5 DEF AiInv, StatusTold
  <2> QED BY <1>6, <2>6, <2>7, <2>8, <2>9 DEF AiInv
<1> QED BY <1>9, <1>10

(* A snapshot could not be hashed: there is one build less.                *)
LEMMA BuildFailsIs ==
  ASSUME AiInv, NEW i \in 1 .. Len(builds), BuildFails(i)
  PROVE  AiInv'
<1>1. /\ builds' = RemoveAt(builds, i)
      /\ muddled' = IF Len(builds) = 1 THEN muddled \cup {"broken"} ELSE muddled
      /\ UNCHANGED <<data, collected, status, scope, snapshot, ruleResult, providerResult, consent, run,
                     disturbed>>
  BY DEF BuildFails
<1>2. /\ builds' \in Seq(Builds) /\ Len(builds') = Len(builds) - 1
      /\ \A j \in 1 .. Len(builds') : \E k \in 1 .. Len(builds) : builds'[j] = builds[k]
  <2>1. builds \in Seq(Builds)
    BY DEF AiInv, KindsInv
  <2>2. /\ RemoveAt(builds, i) \in Seq(Builds) /\ Len(RemoveAt(builds, i)) = Len(builds) - 1
        /\ DrawnFrom(RemoveAt(builds, i), builds)
    BY <2>1, Removed, Zenon
  <2>3. builds' \in Seq(Builds) /\ Len(builds') = Len(builds) - 1 /\ DrawnFrom(builds', builds)
    BY <1>1, <2>2, Zenon
  <2> QED BY <2>3 DEF DrawnFrom
<1>3. /\ Len(builds) = 1 => "broken" \in muddled'
      /\ \A why \in {"late", "again", "refused"} : why \in muddled' <=> why \in muddled
  BY <1>1
<1>4. Len(builds') <= MaxBuilds
  <2>1. Len(builds) \in Nat /\ MaxBuilds \in Nat /\ Len(builds) <= MaxBuilds
    BY AiDebugAssumption DEF AiInv, KindsInv
  <2> QED BY <1>2, <2>1
<1>5. KindsInv'
  BY <1>1, <1>2, <1>4 DEF AiInv, KindsInv
<1>6. RunInv'
  BY <1>1, <1>3 DEF AiInv, RunInv
<1>7. ScopeInv'
  <2>1. Untouched' => Untouched
    BY <1>2 DEF Untouched
  <2> QED BY <1>1, <1>2, <2>1 DEF AiInv, ScopeInv
<1>8. ReportBelongsTogether'
  BY <1>1, <1>3 DEF AiInv, ReportBelongsTogether
<1>9. StatusTold'
  <2>1. Len(builds) \in Nat
    BY DEF AiInv, KindsInv
  <2>2. builds' # <<>> \/ "broken" \in muddled'
    BY <1>2, <1>3, <2>1
  <2> QED BY <1>1, <2>2 DEF AiInv, StatusTold
<1> QED BY <1>5, <1>6, <1>7, <1>8, <1>9 DEF AiInv

-----------------------------------------------------------------------------
(* The end of a run.                                                       *)
LEMMA AnsweredIs ==
  ASSUME AiInv, Answered
  PROVE  AiInv'
<1>1. run # none /\ IsRun(run) /\ ruleResult # none
  BY DEF AiInv, KindsInv, RunInv, Answered
<1>2. PICK raw \in Answers(run.context) :
        IF valid(raw, run.context)
        THEN /\ status' = "completed"
             /\ providerResult' = [snapshot |-> run.snapshot, diagnosis |-> checked(raw)]
        ELSE status' = "failed" /\ providerResult' = none
  BY DEF Answered
<1>3. CASE valid(raw, run.context)
  <2> DEFINE p == [snapshot |-> run.snapshot, diagnosis |-> checked(raw)]
  <2>1. providerResult' = p /\ status' = "completed" /\ p.snapshot = run.snapshot
    BY <1>2, <1>3
  <2>2. "none" \notin DOMAIN p /\ "none" \in DOMAIN none
    BY DEF none
  <2>3. p.diagnosis.cites \subseteq run.snapshot.evidence
    BY <1>1, <1>3 DEF valid, checked, IsRun
  <2>4. p.diagnosis.confidence = "high" => p.diagnosis.cites # {}
    BY DEF checked
  <2>5. IsAnswer(p)
    <3> HIDE DEF p
    <3> QED BY <1>1, <2>1, <2>2, <2>3, <2>4 DEF IsAnswer, IsRun
  <2> HIDE DEF p
  <2>6. KindsInv'
    BY <2>1, <2>5 DEF AiInv, KindsInv, Answered, Statuses
  <2>7. ScopeInv' /\ StatusTold'
    BY <1>1, <2>1 DEF AiInv, ScopeInv, Untouched, StatusTold, Answered
  <2>8. RunInv'
    BY <1>1 DEF AiInv, RunInv, Answered
  <2>9. ReportBelongsTogether'
    BY <1>1, <2>1, <2>5 DEF AiInv, RunInv, ReportBelongsTogether, Answered, IsAnswer
  <2> QED BY <2>6, <2>7, <2>8, <2>9 DEF AiInv
<1>4. CASE ~valid(raw, run.context)
  <2>1. status' = "failed" /\ providerResult' = none
    BY <1>2, <1>4
  <2>2. KindsInv' /\ RunInv'
    BY <1>1, <2>1 DEF AiInv, KindsInv, RunInv, Answered, Statuses
  <2>3. ScopeInv' /\ StatusTold' /\ ReportBelongsTogether'
    BY <1>1, <2>1 DEF AiInv, ScopeInv, Untouched, StatusTold, ReportBelongsTogether, Answered
  <2> QED BY <2>2, <2>3 DEF AiInv
<1> QED BY <1>3, <1>4

LEMMA FailedIs ==
  ASSUME AiInv, Failed
  PROVE  AiInv'
<1>1. run # none /\ IsRun(run) /\ ruleResult # none
  BY DEF AiInv, KindsInv, RunInv, Failed
<1>2. CASE run' = none /\ status' = "failed" /\ providerResult' = none
  <2>1. KindsInv' /\ RunInv'
    BY <1>1, <1>2 DEF AiInv, KindsInv, RunInv, Failed, Statuses
  <2>2. ScopeInv' /\ StatusTold' /\ ReportBelongsTogether'
    BY <1>1, <1>2 DEF AiInv, ScopeInv, Untouched, StatusTold, ReportBelongsTogether, Failed
  <2> QED BY <2>1, <2>2 DEF AiInv
<1>3. CASE /\ mayRetry(run.attempt) /\ run' = [run EXCEPT !.attempt = @ + 1]
           /\ UNCHANGED <<status, providerResult>>
  <2> DEFINE r == [run EXCEPT !.attempt = @ + 1]
  <2>1. r.snapshot = run.snapshot /\ r.context = run.context /\ r.attempt = run.attempt + 1
        /\ DOMAIN r = DOMAIN run
    BY <1>1 DEF IsRun
  <2>2. run' = r
    BY <1>3
  <2> HIDE DEF r
  <2>3. IsRun(r)
    BY <1>1, <1>3, <2>1 DEF IsRun, mayRetry
  <2>4. r # none
    <3>1. "none" \in DOMAIN none
      BY DEF none
    <3> QED BY <2>3, <3>1 DEF IsRun
  <2>5. KindsInv' /\ RunInv'
    BY <1>1, <1>3, <2>1, <2>2, <2>3, <2>4 DEF AiInv, KindsInv, RunInv, Failed
  <2>6. ScopeInv' /\ StatusTold' /\ ReportBelongsTogether'
    BY <1>1, <1>3, <2>2, <2>4 DEF AiInv, ScopeInv, Untouched, StatusTold, ReportBelongsTogether, Failed
  <2> QED BY <2>5, <2>6 DEF AiInv
<1> QED BY <1>2, <1>3 DEF Failed

(* Cancel.                                                                 *)
LEMMA CancelIs ==
  ASSUME AiInv, Cancel
  PROVE  AiInv'
<1>1. KindsInv' /\ RunInv'
  BY DEF AiInv, KindsInv, RunInv, Cancel, abort, Statuses
<1>2. ScopeInv' /\ StatusTold' /\ ReportBelongsTogether'
  BY DEF AiInv, ScopeInv, Untouched, StatusTold, ReportBelongsTogether, Cancel, abort
<1> QED BY <1>1, <1>2 DEF AiInv

(* The scope changes, or everything is cleared, while snapshots are hashed. *)
LEMMA MarkedAre ==
  ASSUME NEW s \in Seq(Builds), NEW t,
         t \in {[i \in DOMAIN s |-> [s[i] EXCEPT !.moved = TRUE]],
                [i \in DOMAIN s |-> [s[i] EXCEPT !.current = FALSE]]}
  PROVE  /\ t \in Seq(Builds) /\ Len(t) = Len(s)
         /\ t = [i \in DOMAIN s |-> [s[i] EXCEPT !.moved = TRUE]]
              => \A i \in 1 .. Len(t) : t[i].moved
         /\ t = [i \in DOMAIN s |-> [s[i] EXCEPT !.current = FALSE]]
              => \A i \in 1 .. Len(t) : ~t[i].current
<1>1. DOMAIN s = 1 .. Len(s) /\ Len(s) \in Nat /\ \A i \in DOMAIN s : s[i] \in Builds
  OBVIOUS
<1>2. \A b \in Builds : /\ [b EXCEPT !.moved = TRUE] \in Builds /\ [b EXCEPT !.moved = TRUE].moved
                        /\ [b EXCEPT !.current = FALSE] \in Builds
                        /\ ~[b EXCEPT !.current = FALSE].current
  BY DEF Builds
<1>3. DOMAIN t = 1 .. Len(s) /\ \A i \in 1 .. Len(s) : t[i] \in Builds
  BY <1>1, <1>2
<1>4. t = [i \in 1 .. Len(s) |-> t[i]]
  BY <1>1
<1>5. t \in Seq(Builds) /\ Len(t) = Len(s)
  <2> HIDE DEF Builds
  <2> QED BY <1>1, <1>3, <1>4
<1>6. ASSUME t = [i \in DOMAIN s |-> [s[i] EXCEPT !.moved = TRUE]]
      PROVE  \A i \in 1 .. Len(t) : t[i].moved
  <2> TAKE i \in 1 .. Len(t)
  <2>1. t[i] = [s[i] EXCEPT !.moved = TRUE] /\ s[i] \in Builds
    BY <1>1, <1>5, <1>6
  <2> QED BY <1>2, <2>1
<1>7. ASSUME t = [i \in DOMAIN s |-> [s[i] EXCEPT !.current = FALSE]]
      PROVE  \A i \in 1 .. Len(t) : ~t[i].current
  <2> TAKE i \in 1 .. Len(t)
  <2>1. t[i] = [s[i] EXCEPT !.current = FALSE] /\ s[i] \in Builds
    BY <1>1, <1>5, <1>7
  <2> QED BY <1>2, <2>1
<1> QED BY <1>5, <1>6, <1>7

(* The scope is changed: all snapshots being hashed were begun before.     *)
LEMMA ChangeScopeIs ==
  ASSUME AiInv, NEW s \in Scopes, changeScope(s)
  PROVE  AiInv'
<1>1. builds \in Seq(Builds) /\ Len(builds) <= MaxBuilds
  BY DEF AiInv, KindsInv
<1>2. /\ builds' \in Seq(Builds) /\ Len(builds') = Len(builds)
      /\ \A i \in 1 .. Len(builds') : builds'[i].moved
  BY <1>1, MarkedAre DEF changeScope
<1>3. KindsInv' /\ RunInv'
  BY <1>1, <1>2 DEF AiInv, KindsInv, RunInv, changeScope, abort, Statuses
<1>4. ScopeInv'
  BY <1>2 DEF ScopeInv, Untouched
<1>5. StatusTold' /\ ReportBelongsTogether'
  BY DEF AiInv, StatusTold, ReportBelongsTogether, changeScope, abort
<1> QED BY <1>3, <1>4, <1>5 DEF AiInv

(* Clear: all snapshots being hashed belong to a state given up.           *)
LEMMA ClearAllIs ==
  ASSUME AiInv, clearAll
  PROVE  AiInv'
<1>1. builds \in Seq(Builds) /\ Len(builds) <= MaxBuilds
  BY DEF AiInv, KindsInv
<1>2. /\ builds' \in Seq(Builds) /\ Len(builds') = Len(builds)
      /\ \A i \in 1 .. Len(builds') : ~builds'[i].current
  BY <1>1, MarkedAre DEF clearAll
<1>3. KindsInv' /\ RunInv'
  <2>1. data' \in Seq(Records) /\ scope' \in Scopes
    BY DEF clearAll, Scopes
  <2> QED BY <1>1, <1>2, <2>1 DEF AiInv, KindsInv, RunInv, clearAll, abort, Statuses
<1>4. ScopeInv'
  BY <1>2 DEF ScopeInv, clearAll
<1>5. StatusTold' /\ ReportBelongsTogether'
  BY DEF AiInv, StatusTold, ReportBelongsTogether, clearAll, abort
<1> QED BY <1>3, <1>4, <1>5 DEF AiInv

(* A record arrives: nothing but the data changes.                         *)
LEMMA CollectIs ==
  ASSUME AiInv, NEW name \in Catalog, Collect(name)
  PROVE  AiInv'
<1> DEFINE r == [name |-> name, raw |-> IF name \in {"log", "bad_bytes"} THEN 0
                                       ELSE (Modulus - 1 + collected) % Modulus]
<1>1. data' = Append(data, r)
  BY DEF Collect
<1>2. r \in Records
  <2>1. (Modulus - 1 + collected) % Modulus \in 0 .. Modulus - 1 /\ 0 \in 0 .. Modulus - 1
    BY AiDebugAssumption DEF AiInv, KindsInv
  <2> QED BY <2>1 DEF Records
<1> HIDE DEF r
<1>3. data' \in Seq(Records) /\ collected' \in Nat
  BY <1>1, <1>2 DEF AiInv, KindsInv, Collect
<1>4. KindsInv' /\ RunInv'
  BY <1>3 DEF AiInv, KindsInv, RunInv, Collect
<1>5. ScopeInv' /\ StatusTold' /\ ReportBelongsTogether'
  BY DEF AiInv, ScopeInv, Untouched, StatusTold, ReportBelongsTogether, Collect
<1> QED BY <1>4, <1>5 DEF AiInv

(* Every button at every await keeps the invariant.                        *)
LEMMA AiInvHolds == Spec => []AiInv
<1>1. Init => AiInv
  <2> SUFFICES ASSUME Init PROVE AiInv
    OBVIOUS
  <2>1. KindsInv
    <3>1. MaxBuilds \in Nat /\ Len(builds) = 0
      BY AiDebugAssumption DEF Init
    <3>2. data \in Seq(Records) /\ builds \in Seq(Builds)
      BY DEF Init
    <3>3. status \in Statuses /\ scope \in Scopes /\ collected \in Nat /\ consent \in BOOLEAN
          /\ disturbed \in BOOLEAN
      BY DEF Init, Statuses, Scopes
    <3>4. snapshot = none /\ ruleResult = none /\ run = none /\ providerResult = none
      BY DEF Init
    <3> QED BY <3>1, <3>2, <3>3, <3>4 DEF KindsInv
  <2>2. RunInv /\ ScopeInv /\ ReportBelongsTogether /\ StatusTold
    BY DEF Init, RunInv, ScopeInv, Untouched, ReportBelongsTogether, StatusTold
  <2> QED BY <2>1, <2>2 DEF AiInv
<1>2. AiInv /\ [Next]_vars => AiInv'
  <2> SUFFICES ASSUME AiInv, [Next]_vars PROVE AiInv'
    OBVIOUS
  <2>1. CASE \E name \in Catalog : Collect(name)
    BY <2>1, CollectIs
  <2>2. CASE runLocal(FALSE)
    BY <2>2, RunLocalIs
  <2>3. CASE askAI
    BY <2>3, AskIs
  <2>8. CASE \E i \in 1 .. MaxBuilds : i <= Len(builds) /\ BuildFails(i)
    <3>1. PICK i \in 1 .. MaxBuilds : i <= Len(builds) /\ BuildFails(i)
      BY <2>8
    <3>2. i \in 1 .. Len(builds)
      BY <3>1 DEF AiInv, KindsInv
    <3> QED BY <3>1, <3>2, BuildFailsIs
  <2>4. CASE \E i \in 1 .. MaxBuilds : i <= Len(builds) /\ built(i)
    <3>1. PICK i \in 1 .. MaxBuilds : i <= Len(builds) /\ built(i)
      BY <2>4
    <3>2. i \in 1 .. Len(builds)
      BY <3>1 DEF AiInv, KindsInv
    <3> QED BY <3>1, <3>2, BuiltIs
  <2>5. CASE Answered \/ Failed \/ Cancel \/ clearAll
    BY <2>5, AnsweredIs, FailedIs, CancelIs, ClearAllIs
  <2>6. CASE SetConsent \/ UNCHANGED vars
    <3>1. KindsInv' /\ RunInv'
      BY <2>6 DEF AiInv, KindsInv, RunInv, SetConsent, vars
    <3>2. ScopeInv' /\ StatusTold' /\ ReportBelongsTogether'
      BY <2>6 DEF AiInv, ScopeInv, Untouched, StatusTold, ReportBelongsTogether, SetConsent, vars
    <3> QED BY <3>1, <3>2 DEF AiInv
  <2>7. CASE \E s \in {"session", "la_capture"} : changeScope(s)
    BY <2>7, ChangeScopeIs DEF Scopes
  <2> QED BY <2>1, <2>2, <2>3, <2>4, <2>5, <2>6, <2>7, <2>8 DEF Next
<1> QED BY <1>1, <1>2, PTL DEF Spec

(* The panel's state keeps its kinds: records collected, status, scope,    *)
(* builds under way and the number of a run's attempts, at every await of  *)
(* ai_debug_model.js and of the controller.                                *)
THEOREM TypeCorrect == Spec => []TypeOK
<1>1. AiInv => TypeOK
  <2> SUFFICES ASSUME AiInv PROVE TypeOK
    OBVIOUS
  <2> QED BY DEF AiInv, KindsInv, TypeOK, Records, Statuses, Scopes, IsRun
<1> QED BY <1>1, AiInvHolds, PTL

(* The findings shown are about the snapshot shown and cite evidence that  *)
(* it holds, the snapshot is of the scope shown, and the diagnosis answers *)
(* for this snapshot and cites nothing else, apart from the exceptions     *)
(* that the property names (buildSnapshot, runLocal, askAI, validate).     *)
THEOREM ReportsBelongTogether == Spec => []ReportBelongsTogether
<1>1. AiInv => ReportBelongsTogether
  BY DEF AiInv
<1> QED BY <1>1, AiInvHolds, PTL

(* A run can be cancelled unless something else was asked for meanwhile,   *)
(* the panel says that it waits only while it does or after the last local *)
(* analysis under way has failed, and the local findings are there when    *)
(* the provider has ended, whatever is clicked at every await and whether  *)
(* or not a snapshot can be hashed (askAI, runLocal, AnalysisController).  *)
THEOREM StatusIsTold == Spec => []StatusTold
<1>1. AiInv => StatusTold
  BY DEF AiInv
<1> QED BY <1>1, AiInvHolds, PTL
=============================================================================
