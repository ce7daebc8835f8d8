------------------------- MODULE ContextSummaryProofs -------------------------
(***************************************************************************)
(* The summaries of a conversation (ContextSummary), for any number of runs, *)
(* any limits and messages of any length.                                    *)
(*                                                                           *)
(* IndInv has the reasons: what a run has read stays true of the messages it *)
(* read it from, however many summaries other runs insert before its own;     *)
(* and every summary leaves the newest Retain messages alone, so whichever    *)
(* of them is the latest, they are given.                                     *)
(***************************************************************************)
EXTENDS ContextSummary, FiniteSetTheorems, WellFoundedInduction, TLAPS

------------------------------------------------------------------------------
(* Sums *)

(* Induction over the naturals, for a set. *)
LEMMA SetInduction ==
  ASSUME NEW S, 0 \in S, \A n \in Nat : n \in S => n + 1 \in S
  PROVE  Nat \subseteq S
<1> DEFINE T == {n \in Nat : n \notin S}
<1>1. IsWellFoundedOn(OpToRel(<, Nat), Nat)
  BY NatLessThanWellFounded
<1>2. SUFFICES ASSUME T # {} PROVE FALSE
  OBVIOUS
<1>3. PICK x \in T : \A y \in T : <<y, x>> \notin OpToRel(<, Nat)
  BY <1>1, <1>2, WFMin
<1>4. \A y \in T : ~(y < x)
  BY <1>3 DEF OpToRel
<1>5. x # 0 /\ x - 1 \in Nat /\ x - 1 < x
  OBVIOUS
<1>6. x - 1 \in S
  BY <1>4, <1>5
<1>7. x - 1 + 1 = x
  OBVIOUS
<1> QED
  BY <1>5, <1>6, <1>7

(* the element a fold takes first *)
Pick(s) == CHOOSE x \in s : TRUE

(* one unfolding of the fold's recursive function *)
Unfolded(f, g, S) == [s \in SUBSET S |-> IF s = {} THEN 0 ELSE g[Pick(s)] + f[s \ {Pick(s)}]]

IsSum(f, g, S) == f = Unfolded(f, g, S)

Sums(g) == CHOOSE f : IsSum(f, g, DOMAIN g)

(* FoldFunction(+, 0, g) is the value at DOMAIN g of a function that satisfies *)
(* the recursive equation of the fold.                                         *)
LEMMA FoldIsSum ==
  ASSUME NEW g
  PROVE  FoldFunction(+, 0, g) = Sums(g)[DOMAIN g]
<1>1. FoldFunction(+, 0, g) = FoldFunctionOnSet(+, 0, g, DOMAIN g)
  BY DEF FoldFunction
<1>2. FoldFunctionOnSet(+, 0, g, DOMAIN g) = Sums(g)[DOMAIN g]
  BY DEF FoldFunctionOnSet, MapThenFoldSet, IsSum, Unfolded, Pick, Sums
<1> QED
  BY <1>1, <1>2

LEMMA SmallerSubset ==
  ASSUME NEW S, IsFiniteSet(S), NEW s \in SUBSET S, s # {}
  PROVE  /\ Pick(s) \in s
         /\ s \ {Pick(s)} \in SUBSET S
         /\ Cardinality(s) \in Nat \ {0}
         /\ Cardinality(s \ {Pick(s)}) = Cardinality(s) - 1
<1>1. IsFiniteSet(s)
  BY FS_Subset
<1>2. Pick(s) \in s
  BY DEF Pick
<1> QED
  BY <1>1, <1>2, FS_RemoveElement, FS_CardinalityType, FS_EmptySet

(* The equation has a solution: one that is right up to n elements gives one   *)
(* that is right up to n + 1.                                                  *)
LEMMA SumExists ==
  ASSUME NEW g, NEW S, IsFiniteSet(S)
  PROVE  \E f : IsSum(f, g, S)
<1> DEFINE Good(f, n) == \A s \in SUBSET S : Cardinality(s) <= n => f[s] = Unfolded(f, g, S)[s]
           N == {n \in Nat : \E f : Good(f, n)}
<1>1. 0 \in N
  <2> DEFINE f0 == [s \in SUBSET S |-> 0]
  <2>1. \A s \in SUBSET S : Cardinality(s) <= 0 => s = {}
    BY FS_Subset, FS_EmptySet, FS_CardinalityType
  <2>2. Good(f0, 0)
    BY <2>1 DEF Unfolded
  <2> QED
    BY <2>2
<1>2. ASSUME NEW n \in Nat, n \in N PROVE n + 1 \in N
  <2>1. PICK f : Good(f, n)
    BY <1>2
  <2> DEFINE h == Unfolded(f, g, S)
  <2>2. ASSUME NEW s \in SUBSET S, Cardinality(s) <= n + 1
        PROVE  h[s] = Unfolded(h, g, S)[s]
    <3>1. CASE s = {}
      BY <3>1 DEF Unfolded
    <3>2. CASE s # {}
      <4>1. /\ s \ {Pick(s)} \in SUBSET S
            /\ Cardinality(s \ {Pick(s)}) <= n
        BY <2>2, <3>2, SmallerSubset
      <4>2. f[s \ {Pick(s)}] = h[s \ {Pick(s)}]
        BY <2>1, <4>1
      <4> HIDE DEF h
      <4>3. Unfolded(f, g, S)[s] = Unfolded(h, g, S)[s]
        BY <3>2, <4>2 DEF Unfolded
      <4> QED
        BY <4>3 DEF h
    <3> QED
      BY <3>1, <3>2
  <2> HIDE DEF h
  <2>3. Good(h, n + 1)
    BY <2>2
  <2> QED
    BY <2>3
<1>3. Cardinality(S) \in N
  <2> HIDE DEF N
  <2> QED
    BY <1>1, <1>2, SetInduction, FS_CardinalityType
<1>4. PICK f : Good(f, Cardinality(S))
  BY <1>3
<1> DEFINE h == Unfolded(f, g, S)
<1>5. \A s \in SUBSET S : f[s] = h[s]
  BY <1>4, FS_Subset
<1>6. \A s \in SUBSET S : s \ {Pick(s)} \in SUBSET S
  OBVIOUS
<1>7. h = Unfolded(h, g, S)
  BY <1>5, <1>6 DEF Unfolded
<1> QED
  BY <1>7 DEF IsSum

LEMMA SumUnfolds ==
  ASSUME NEW g, IsFiniteSet(DOMAIN g)
  PROVE  /\ Sums(g)[{}] = 0
         /\ \A s \in SUBSET DOMAIN g :
              s # {} => Sums(g)[s] = g[Pick(s)] + Sums(g)[s \ {Pick(s)}]
<1>1. IsSum(Sums(g), g, DOMAIN g)
  BY SumExists DEF Sums
<1> QED
  BY <1>1 DEF IsSum, Unfolded

(* A sum stays within B if every element adds at most its part of B. *)
LEMMA SumWithin ==
  ASSUME NEW S, IsFiniteSet(S), NEW g \in [S -> Nat], NEW B \in [SUBSET S -> Nat],
         \A s \in SUBSET S : \A x \in s : g[x] + B[s \ {x}] <= B[s]
  PROVE  /\ FoldFunction(+, 0, g) \in Nat
         /\ FoldFunction(+, 0, g) <= B[S]
<1> DEFINE Ok(s) == Sums(g)[s] \in Nat /\ Sums(g)[s] <= B[s]
           N == {k \in Nat : \A s \in SUBSET S : Cardinality(s) <= k => Ok(s)}
<1>1. DOMAIN g = S
  OBVIOUS
<1>2. \A s \in SUBSET S : Cardinality(s) \in Nat /\ (Cardinality(s) <= 0 => s = {})
  BY FS_Subset, FS_EmptySet, FS_CardinalityType
<1>3. Ok({})
  BY <1>1, SumUnfolds
<1>4. ASSUME NEW s \in SUBSET S, s # {}, Ok(s \ {Pick(s)})
      PROVE  Ok(s)
  <2>1. Pick(s) \in s /\ s \ {Pick(s)} \in SUBSET S
    BY <1>4, SmallerSubset
  <2>2. Sums(g)[s] = g[Pick(s)] + Sums(g)[s \ {Pick(s)}]
    BY <1>1, <1>4, SumUnfolds
  <2>3. g[Pick(s)] \in Nat /\ B[s] \in Nat /\ B[s \ {Pick(s)}] \in Nat
    BY <2>1
  <2>4. g[Pick(s)] + B[s \ {Pick(s)}] <= B[s]
    BY <2>1
  <2> QED
    BY <1>4, <2>2, <2>3, <2>4
<1> HIDE DEF Ok
<1>5. 0 \in N
  BY <1>2, <1>3
<1>6. ASSUME NEW k \in Nat, k \in N PROVE k + 1 \in N
  <2>1. ASSUME NEW s \in SUBSET S, Cardinality(s) <= k + 1 PROVE Ok(s)
    <3>1. CASE s # {}
      <4>1. s \ {Pick(s)} \in SUBSET S /\ Cardinality(s \ {Pick(s)}) <= k
        BY <1>2, <2>1, <3>1, SmallerSubset
      <4>2. Ok(s \ {Pick(s)})
        BY <1>6, <4>1
      <4> QED
        BY <1>4, <3>1, <4>2
    <3> QED
      BY <1>3, <3>1
  <2> QED
    BY <2>1
<1> HIDE DEF N
<1>7. Cardinality(S) \in N
  BY <1>2, <1>5, <1>6, SetInduction
<1>8. Ok(S)
  BY <1>2, <1>7 DEF N
<1> QED
  BY <1>1, <1>8, FoldIsSum DEF Ok

(* n shares of q, m of which are one larger, add up to no more than n * q + m. *)
LEMMA SharesAddUp ==
  ASSUME NEW n \in Nat, NEW g \in [1..n -> Nat], NEW q \in Nat, NEW m \in Nat,
         m <= n, \A i \in 1..n : g[i] <= q + (IF i <= m THEN 1 ELSE 0)
  PROVE  /\ FoldFunction(+, 0, g) \in Nat
         /\ FoldFunction(+, 0, g) <= n * q + m
<1> DEFINE B == [s \in SUBSET (1..n) |-> Cardinality(s) * q + Cardinality(s \cap 1..m)]
<1>1. IsFiniteSet(1..n) /\ Cardinality(1..n) = n /\ Cardinality(1..m) = m
  BY FS_Interval
<1>2. \A s \in SUBSET (1..n) :
        /\ Cardinality(s) \in Nat
        /\ Cardinality(s \cap 1..m) \in Nat
  BY <1>1, FS_Subset, FS_CardinalityType
<1>3. \A a \in Nat, b \in Nat : a * q \in Nat /\ a * q + b \in Nat /\ (a = b + 1 => a * q = b * q + q)
  OBVIOUS
<1>4. B \in [SUBSET (1..n) -> Nat]
  BY <1>2, <1>3
<1>5. \A s \in SUBSET (1..n) : B[s] = Cardinality(s) * q + Cardinality(s \cap 1..m)
  OBVIOUS
<1> HIDE DEF B
<1>6. ASSUME NEW s \in SUBSET (1..n), NEW x \in s
      PROVE  Cardinality(s) = Cardinality(s \ {x}) + 1
  <2>1. IsFiniteSet(s)
    BY <1>1, FS_Subset
  <2>2. Cardinality(s \ {x}) = Cardinality(s) - 1
    BY <2>1, FS_RemoveElement
  <2>3. Cardinality(s) \in Nat
    BY <1>2
  <2> QED
    BY <2>2, <2>3
<1>7. ASSUME NEW s \in SUBSET (1..n), NEW x \in s
      PROVE  g[x] + B[s \ {x}] <= B[s]
  <2> DEFINE t == s \ {x}
             a == Cardinality(s)
             b == Cardinality(s \cap 1..m)
             c == Cardinality(t)
             d == Cardinality(t \cap 1..m)
  <2>1. a \in Nat /\ b \in Nat /\ c \in Nat /\ d \in Nat
    BY <1>2
  <2>2. PICK u \in Nat : B[s] = u + q + b /\ B[t] = u + d
    <3>1. a = c + 1 /\ B[s] = a * q + b /\ B[t] = c * q + d
      BY <1>5, <1>6
    <3> HIDE DEF a, b, c, d, t
    <3>2. a * q = c * q + q /\ c * q \in Nat
      BY <1>3, <2>1, <3>1
    <3> QED
      BY <3>1, <3>2
  <2>3. x \in 1..n /\ g[x] \in Nat
    OBVIOUS
  <2>4. CASE x <= m
    <3>1. x \in s \cap 1..m /\ t \cap 1..m = (s \cap 1..m) \ {x} /\ s \cap 1..m \in SUBSET (1..n)
      BY <2>3, <2>4
    <3>2. Cardinality(s \cap 1..m) = Cardinality((s \cap 1..m) \ {x}) + 1
      BY <1>6, <3>1
    <3>3. b = d + 1
      BY <3>1, <3>2
    <3>4. g[x] <= q + 1
      BY <2>3, <2>4
    <3> HIDE DEF a, b, c, d, t
    <3> QED
      BY <2>1, <2>2, <2>3, <3>3, <3>4 DEF t
  <2>5. CASE ~(x <= m)
    <3>1. t \cap 1..m = s \cap 1..m
      BY <2>3, <2>5
    <3>2. b = d
      BY <3>1
    <3>3. g[x] <= q
      BY <2>3, <2>5
    <3> HIDE DEF a, b, c, d, t
    <3> QED
      BY <2>1, <2>2, <2>3, <3>2, <3>3 DEF t
  <2> QED
    BY <2>4, <2>5
<1>8. (1..n) \cap (1..m) = 1..m
  OBVIOUS
<1>9. B[1..n] = n * q + m
  BY <1>1, <1>5, <1>8
<1>10. \A s \in SUBSET (1..n) : \A x \in s : g[x] + B[s \ {x}] <= B[s]
  BY <1>7
<1>11. FoldFunction(+, 0, g) \in Nat /\ FoldFunction(+, 0, g) <= B[1..n]
  BY <1>1, <1>4, <1>10, SumWithin
<1> QED
  BY <1>9, <1>11

------------------------------------------------------------------------------
(* The length of a summary *)

LEMMA CompactFits ==
  ASSUME NEW length \in Nat, NEW budget \in Nat
  PROVE  /\ CompactLength(length, budget) \in Nat
         /\ CompactLength(length, budget) <= budget
<1>1. MarkerLen \in Nat
  BY LimitsAssumption
<1>2. CASE budget > MarkerLen /\ length > budget
  <2> DEFINE remaining == budget - MarkerLen
             head == (remaining + 1) \div 2
  <2>1. head + MarkerLen + (remaining - head) = budget
    <3>1. remaining \in Nat /\ head \in Int
      BY <1>1, <1>2
    <3> HIDE DEF head
    <3> QED
      BY <1>1, <3>1
  <2>2. CompactLength(length, budget) = head + MarkerLen + (remaining - head)
    BY <1>1, <1>2 DEF CompactLength
  <2> QED
    BY <2>1, <2>2
<1>3. CASE ~(budget > MarkerLen /\ length > budget)
  BY <1>1, <1>3 DEF CompactLength
<1> QED
  BY <1>2, <1>3

LEMMA SharesOfRest ==
  ASSUME NEW rest \in Nat, NEW n \in Nat \ {0}
  PROVE  /\ rest \div n \in Nat
         /\ rest % n \in Nat
         /\ rest % n <= n
         /\ n * (rest \div n) + (rest % n) = rest
<1>1. rest \div n \in Nat /\ rest % n \in Nat /\ rest % n <= n
  OBVIOUS
<1>2. rest % n = rest - n * (rest \div n) /\ n * (rest \div n) \in Int
  OBVIOUS
<1> QED
  BY <1>1, <1>2

LEMMA OverheadFits ==
  ASSUME NEW previous, NEW count \in Nat \ {0}
  PROVE  /\ Overhead(previous, count) \in Nat
         /\ Overhead(previous, count) < (count + 1) * (PrefixLen + 1)
<1> DEFINE lines == count + (IF previous = NoSummary THEN 0 ELSE 1)
<1>1. PrefixLen \in Nat
  BY LimitsAssumption
<1>2. lines \in Nat \ {0} /\ lines <= count + 1
  OBVIOUS
<1>3. Overhead(previous, count) = lines * PrefixLen + (lines - 1)
  BY <1>2 DEF Overhead, AtLeast0
<1> HIDE DEF lines
<1>4. \A k \in Nat, l \in Nat, p \in Nat :
        /\ k * p \in Nat
        /\ (l + 1) * (p + 1) = l * p + p + l + 1
        /\ k <= l + 1 => k * p <= l * p + p
  OBVIOUS
<1> QED
  BY <1>1, <1>2, <1>3, <1>4

LEMMA LengthFits ==
  ASSUME NEW previous, previous.length \in Nat,
         NEW lengths \in Seq(Nat), lengths # <<>>
  PROVE  /\ SummaryLength(previous, lengths) \in Nat
         /\ \/ SummaryLength(previous, lengths) <= SummaryMax
            \/ (Len(lengths) + 1) * (PrefixLen + 1) > SummaryMax
<1> DEFINE count == Len(lengths)
           overhead == Overhead(previous, count)
           budget == AtLeast0(SummaryMax - overhead)
           previousLength == CompactLength(previous.length, Lesser(PreviousMax, budget \div 3))
           rest == budget - previousLength
           q == rest \div count
           m == rest % count
           items == [i \in 1..count |-> CompactLength(lengths[i], q + (IF i <= m THEN 1 ELSE 0))]
<1>1. count \in Nat \ {0} /\ SummaryMax \in Nat /\ PrefixLen \in Nat /\ PreviousMax \in Nat
  BY LimitsAssumption
<1>2. overhead \in Nat
  BY <1>1, OverheadFits DEF count
<1>3. overhead < (count + 1) * (PrefixLen + 1)
  BY <1>1, OverheadFits DEF count
<1> HIDE DEF overhead, count
<1>4. budget \in Nat /\ (overhead <= SummaryMax => overhead + budget = SummaryMax)
  BY <1>1, <1>2 DEF AtLeast0
<1> HIDE DEF budget
<1>5. previousLength \in Nat /\ previousLength <= budget
  <2> DEFINE share == Lesser(PreviousMax, budget \div 3)
  <2>1. share \in Nat /\ share <= budget
    BY <1>1, <1>4 DEF Lesser
  <2> HIDE DEF share
  <2>2. CompactLength(previous.length, share) \in Nat /\ CompactLength(previous.length, share) <= share
    BY <2>1, CompactFits
  <2> QED
    BY <1>4, <2>1, <2>2 DEF share
<1> HIDE DEF previousLength
<1>6. rest \in Nat
  BY <1>4, <1>5
<1> HIDE DEF rest
<1>7. q \in Nat /\ m \in Nat /\ m <= count /\ count * q + m = rest
  BY <1>1, <1>6, SharesOfRest
<1> HIDE DEF q, m
<1>8. \A i \in 1..count : /\ items[i] \in Nat
                          /\ items[i] <= q + (IF i <= m THEN 1 ELSE 0)
  <2> SUFFICES ASSUME NEW i \in 1..count
               PROVE  items[i] \in Nat /\ items[i] <= q + (IF i <= m THEN 1 ELSE 0)
    OBVIOUS
  <2>1. lengths[i] \in Nat
    BY DEF count
  <2>2. q + (IF i <= m THEN 1 ELSE 0) \in Nat
    BY <1>7
  <2> QED
    BY <2>1, <2>2, CompactFits
<1>9. items \in [1..count -> Nat]
  BY <1>8
<1>10. FoldFunction(+, 0, items) \in Nat /\ FoldFunction(+, 0, items) <= rest
  <2> HIDE DEF items
  <2> QED
    BY <1>1, <1>7, <1>8, <1>9, SharesAddUp
<1>11. SummaryLength(previous, lengths)
         = overhead + previousLength + FoldFunction(+, 0, items)
  BY DEF SummaryLength, overhead, budget, previousLength, rest, q, m, items, count
<1> HIDE DEF items
<1>12. PICK total \in Nat : /\ total <= rest
                           /\ SummaryLength(previous, lengths) = overhead + previousLength + total
  BY <1>10, <1>11
<1>13. SummaryLength(previous, lengths) \in Nat
  BY <1>2, <1>5, <1>12
<1>14. overhead <= SummaryMax => SummaryLength(previous, lengths) <= SummaryMax
  BY <1>1, <1>2, <1>4, <1>5, <1>12 DEF rest
<1>15. overhead > SummaryMax => (count + 1) * (PrefixLen + 1) > SummaryMax
  <2>1. (count + 1) * (PrefixLen + 1) \in Int
    BY <1>1
  <2> QED
    BY <1>1, <1>2, <1>3, <2>1
<1>16. overhead <= SummaryMax \/ overhead > SummaryMax
  BY <1>1, <1>2
<1> QED
  BY <1>13, <1>14, <1>15, <1>16 DEF count

------------------------------------------------------------------------------
(* The inductive invariant *)

Phases == {"idle", "queued", "running", "persisted", "compress"}

(* a summary of the first n messages, or of an earlier part of them *)
Sound(s, n) ==
  /\ s \in SummaryRows
  /\ s.start <= s.end
  /\ s.version <= s.end
  /\ s.end + Retain <= n
  /\ s.length <= SummaryMax \/ (s.end - s.start + 2) * (PrefixLen + 1) > SummaryMax

Views == [latest : SummaryRows \cup {NoSummary}, count : 0..MaxMessages]

Types == /\ messages \in Seq(Nat)
         /\ Len(messages) <= MaxMessages
         /\ summaries \in Seq(SummaryRows)
         /\ phase \in [Runs -> Phases]
         /\ context \in [Runs -> Contexts]
         /\ view \in [Runs -> Views]

SummariesSound == \A i \in 1..Len(summaries) : Sound(summaries[i], Len(messages))

(* what a run has read of the messages and of the summaries *)
ViewsSound == \A r \in Runs : phase[r] = "compress" =>
  /\ view[r].count <= Len(messages)
  /\ view[r].latest = NoSummary \/ Sound(view[r].latest, view[r].count)

(* a context is of a summary and of messages that exist *)
ContextsBacked == \A r \in Runs :
  /\ context[r].last <= Len(messages)
  /\ context[r].end = 0 \/ \E i \in 1..Len(summaries) : context[r].end <= summaries[i].end

IndInv == Types /\ SummariesSound /\ ViewsSound /\ ContextsBacked /\ RecentGiven

LEMMA InitIndInv == Init => IndInv
<1> SUFFICES ASSUME Init PROVE IndInv
  OBVIOUS
<1> USE DEF Init
<1>1. NoSummary \in SummaryRows \cup {NoSummary} /\ 0 \in 0..MaxMessages
  BY LimitsAssumption
<1>2. NoContext \in Contexts
  <2>1. [i \in {} |-> 0] \in [{} -> Nat] /\ {} \in SUBSET Seqs
    OBVIOUS
  <2>2. [i \in {} |-> 0] \in Given
    BY <2>1 DEF Given
  <2>3. 0 \in 0..MaxMessages
    BY LimitsAssumption
  <2> QED
    BY <2>2, <2>3 DEF NoContext, Contexts
<1>3. Types
  BY <1>1, <1>2, LimitsAssumption DEF Types, Phases, Views
<1>4. SummariesSound /\ ViewsSound /\ RecentGiven
  BY DEF SummariesSound, ViewsSound, RecentGiven
<1>5. ContextsBacked
  BY DEF ContextsBacked, NoContext
<1> QED
  BY <1>3, <1>4, <1>5 DEF IndInv

(* more messages take nothing back *)
LEMMA SoundLater ==
  ASSUME NEW s, NEW m \in Nat, NEW n \in Nat, m <= n, Sound(s, m)
  PROVE  Sound(s, n)
<1>1. s.end \in Nat /\ Retain \in Nat
  BY LimitsAssumption DEF Sound, SummaryRows, Seqs
<1> QED
  BY <1>1 DEF Sound

(* a message is appended by run r *)
LEMMA AppendKeeps ==
  ASSUME IndInv, NEW r \in Runs, NEW n \in Lengths, Len(messages) < MaxMessages,
         messages' = Append(messages, n), NEW p \in {"queued", "persisted"}, GoTo(r, p),
         UNCHANGED <<summaries, context, view>>
  PROVE  IndInv'
<1>1. n \in Nat /\ MaxMessages \in Nat
  BY LimitsAssumption
<1>2. messages' \in Seq(Nat) /\ Len(messages') = Len(messages) + 1 /\ Len(messages) \in Nat
  BY <1>1 DEF IndInv, Types
<1>3. Types'
  BY <1>1, <1>2 DEF IndInv, Types, GoTo, Phases
<1>4. SummariesSound'
  BY <1>2, SoundLater DEF IndInv, SummariesSound
<1>5. ViewsSound'
  BY <1>2 DEF IndInv, ViewsSound, GoTo, Types, Views
<1>6. ContextsBacked'
  <2>1. \A q \in Runs : context[q].last \in Nat
    BY DEF IndInv, Types, Contexts
  <2> QED
    BY <1>2, <2>1 DEF IndInv, ContextsBacked
<1>7. RecentGiven'
  <2> SUFFICES ASSUME NEW q \in Runs, phase'[q] = "running",
                      NEW i \in Seqs, context[q].last - Lesser(Retain, MessageLimit) < i,
                      i <= context[q].last
               PROVE  /\ i \in DOMAIN context[q].given
                      /\ messages'[i] <= ContentLimit => context[q].given[i] = messages'[i]
    BY DEF RecentGiven
  <2>1. phase[q] = "running"
    BY DEF IndInv, Types, GoTo
  <2>2. context[q].last \in Nat /\ context[q].last <= Len(messages)
    BY DEF IndInv, Types, Contexts, ContextsBacked
  <2>3. i \in 1..Len(messages)
    BY <1>2, <2>2 DEF Seqs
  <2>4. messages'[i] = messages[i]
    BY <1>1, <2>3 DEF IndInv, Types
  <2> QED
    BY <2>1, <2>4 DEF IndInv, RecentGiven
<1> QED
  BY <1>3, <1>4, <1>5, <1>6, <1>7 DEF IndInv

LEMMA LatestIsSound ==
  ASSUME IndInv, NEW s \in Latest
  PROVE  s = NoSummary \/ Sound(s, Len(messages))
<1>1. CASE summaries = <<>>
  BY <1>1 DEF Latest
<1>2. CASE summaries # <<>>
  <2>1. PICK i \in 1..Len(summaries) : s = summaries[i]
    BY <1>2 DEF Latest, ToSet, IndInv, Types
  <2> QED
    BY <2>1 DEF IndInv, SummariesSound
<1> QED
  BY <1>1, <1>2

(* What a context is given of the messages that follow a summary. *)
LEMMA LoadedIsSound ==
  ASSUME IndInv, NEW s \in Latest
  PROVE  /\ Loaded(s) \in Contexts
         /\ Loaded(s).end = s.end /\ Loaded(s).last = Len(messages)
         /\ \A i \in Seqs :
              Loaded(s).last - Lesser(Retain, MessageLimit) < i /\ i <= Loaded(s).last =>
                /\ i \in DOMAIN Loaded(s).given
                /\ messages[i] <= ContentLimit => Loaded(s).given[i] = messages[i]
<1> DEFINE n == Len(messages)
           first == n - Lesser(n - s.end, MessageLimit) + 1
           given == [i \in first..n |-> Lesser(messages[i], ContentLimit)]
<1>1. n \in Nat /\ n <= MaxMessages /\ MaxMessages \in Nat
      /\ Retain \in Nat /\ MessageLimit \in Nat /\ ContentLimit \in Nat
      /\ messages \in Seq(Nat)
  BY LimitsAssumption DEF IndInv, Types
<1>2. s.end \in Nat /\ (s.end = 0 \/ s.end + Retain <= n)
  BY LatestIsSound DEF Sound, SummaryRows, Seqs, NoSummary
<1>3. Loaded(s) = [end |-> s.end, last |-> n, given |-> given] /\ n = Len(messages)
  BY DEF Loaded
<1>4. \A i \in 1..n : messages[i] \in Nat
  BY <1>1
<1> HIDE DEF n
<1>5. first \in Int /\ 1 <= first
      /\ \A i \in Seqs : n - Lesser(Retain, MessageLimit) < i /\ i <= n => i \in first..n
  BY <1>1, <1>2 DEF Lesser, Seqs
<1> HIDE DEF first
<1>6. first..n \subseteq 1..n /\ first..n \subseteq Seqs
  BY <1>1, <1>5 DEF Seqs
<1>7. \A i \in first..n : Lesser(messages[i], ContentLimit) \in Nat
  BY <1>1, <1>4, <1>6 DEF Lesser
<1>8. given \in [first..n -> Nat]
  BY <1>7
<1>9. given \in Given
  BY <1>6, <1>8 DEF Given
<1>10. \A i \in first..n : messages[i] <= ContentLimit => given[i] = messages[i]
  <2>1. \A a \in Nat : a <= ContentLimit => Lesser(a, ContentLimit) = a
    BY <1>1 DEF Lesser
  <2> QED
    BY <1>4, <1>6, <2>1
<1>11. DOMAIN given = first..n
  OBVIOUS
<1> HIDE DEF given
<1>12. Loaded(s) \in Contexts
  <2>1. s.end \in 0..MaxMessages /\ n \in 0..MaxMessages
    BY <1>1, <1>2
  <2> QED
    BY <1>3, <1>9, <2>1 DEF Contexts
<1> QED
  BY <1>3, <1>5, <1>10, <1>11, <1>12

LEMMA LoadContextKeeps ==
  ASSUME IndInv, NEW r \in Runs, LoadContext(r)
  PROVE  IndInv'
<1>1. PICK s \in Latest : context' = [context EXCEPT ![r] = Loaded(s)]
  BY DEF LoadContext
<1> DEFINE c == Loaded(s)
<1>2. /\ c \in Contexts /\ c.end = s.end /\ c.last = Len(messages)
      /\ \A i \in Seqs : c.last - Lesser(Retain, MessageLimit) < i /\ i <= c.last =>
           /\ i \in DOMAIN c.given
           /\ messages[i] <= ContentLimit => c.given[i] = messages[i]
  BY LoadedIsSound
<1>3. context' = [context EXCEPT ![r] = c] /\ messages' = messages /\ summaries' = summaries
  BY <1>1 DEF LoadContext
<1>4. s.end = 0 \/ \E i \in 1..Len(summaries) : s = summaries[i]
  BY DEF Latest, ToSet, NoSummary, IndInv, Types
<1> HIDE DEF c
<1>5. c.end = 0 \/ \E i \in 1..Len(summaries) : c.end <= summaries[i].end
  BY <1>2, <1>4 DEF Contexts
<1>6. Types'
  BY <1>2, <1>3 DEF IndInv, Types, LoadContext, GoTo, Phases
<1>7. RecentGiven'
  BY <1>2, <1>3 DEF IndInv, Types, LoadContext, GoTo, RecentGiven
<1>8. ContextsBacked'
  <2>1. Len(messages) <= Len(messages)
    BY DEF IndInv, Types
  <2> QED
    BY <1>2, <1>3, <1>5, <2>1 DEF IndInv, Types, ContextsBacked
<1>9. SummariesSound' /\ ViewsSound'
  BY DEF IndInv, Types, LoadContext, GoTo, SummariesSound, ViewsSound
<1> QED
  BY <1>6, <1>7, <1>8, <1>9 DEF IndInv

LEMMA AbandonKeeps ==
  ASSUME IndInv, NEW r \in Runs, Abandon(r)
  PROVE  IndInv'
<1>1. Types'
  BY DEF IndInv, Types, Abandon, GoTo, Phases
<1> QED
  BY <1>1 DEF IndInv, Types, Abandon, GoTo, SummariesSound, ViewsSound, ContextsBacked, RecentGiven

LEMMA ReadKeeps ==
  ASSUME IndInv, NEW r \in Runs, ReadForSummary(r)
  PROVE  IndInv'
<1>1. CASE GoTo(r, "idle") /\ UNCHANGED view
  <2>1. Types'
    BY <1>1 DEF IndInv, Types, ReadForSummary, GoTo, Phases
  <2> QED
    BY <1>1, <2>1 DEF IndInv, Types, ReadForSummary, GoTo, SummariesSound, ViewsSound,
                      ContextsBacked, RecentGiven
<1>2. CASE /\ \E s \in Latest : view' = [view EXCEPT ![r] = [latest |-> s, count |-> Len(messages)]]
           /\ GoTo(r, "compress")
  <2>1. PICK s \in Latest : view' = [view EXCEPT ![r] = [latest |-> s, count |-> Len(messages)]]
    BY <1>2
  <2>2. s = NoSummary \/ Sound(s, Len(messages))
    BY LatestIsSound
  <2>3. [latest |-> s, count |-> Len(messages)] \in Views
    BY <2>2, LimitsAssumption DEF Views, Sound, IndInv, Types
  <2>4. Types'
    BY <1>2, <2>1, <2>3 DEF IndInv, Types, ReadForSummary, GoTo, Phases
  <2>5. ViewsSound'
    BY <1>2, <2>1, <2>2 DEF IndInv, Types, ReadForSummary, GoTo, ViewsSound
  <2>6. SummariesSound' /\ RecentGiven' /\ ContextsBacked'
    BY <1>2 DEF IndInv, Types, ReadForSummary, GoTo, SummariesSound, ContextsBacked, RecentGiven
  <2> QED
    BY <2>4, <2>5, <2>6 DEF IndInv
<1> QED
  BY <1>1, <1>2 DEF ReadForSummary

(* The summary a run inserts: it starts where the one it has read ends. *)
LEMMA SummarySound ==
  ASSUME IndInv, NEW r \in Runs, phase[r] = "compress", Compressible(view[r]) # <<>>
  PROVE  Sound(Summary(view[r]), Len(messages))
<1> DEFINE v == view[r]
           u == Uncovered(v)
           s == Summary(v)
           first == v.latest.end + 1
           last == v.latest.end + Len(Compressible(v))
<1>1. /\ v.count \in Nat /\ v.count <= Len(messages) /\ Len(messages) \in Nat
      /\ v.count <= MaxMessages /\ MaxMessages \in Nat /\ Retain \in Nat
      /\ v.latest = NoSummary \/ Sound(v.latest, v.count)
  BY LimitsAssumption DEF IndInv, Types, Views, ViewsSound
<1>2. /\ v.latest.end \in Nat /\ v.latest.end <= v.count
      /\ v.latest.version \in Nat /\ v.latest.version <= v.latest.end
      /\ v.latest.length \in Nat
  <2>1. CASE v.latest = NoSummary
    BY <1>1, <2>1 DEF NoSummary
  <2>2. CASE Sound(v.latest, v.count)
    <3> HIDE DEF v
    <3> QED
      BY <1>1, <2>2 DEF Sound, SummaryRows, Seqs
  <2> QED
    BY <1>1, <2>1, <2>2
<1> HIDE DEF v
<1>3. u \in Seq(Nat) /\ Len(u) = v.count - v.latest.end
  <2> DEFINE k == v.count - v.latest.end
  <2>1. messages \in Seq(Nat)
    BY DEF IndInv, Types
  <2>2. k \in Nat /\ \A i \in 1..k : v.latest.end + i \in 1..Len(messages)
    BY <1>1, <1>2
  <2>3. u = [i \in 1..k |-> messages[v.latest.end + i]]
    BY DEF Uncovered
  <2> HIDE DEF k, u
  <2>4. \A i \in 1..k : messages[v.latest.end + i] \in Nat
    BY <2>1, <2>2
  <2>5. u \in [1..k -> Nat] /\ DOMAIN u = 1..k
    BY <2>3, <2>4
  <2>6. u \in Seq(Nat) /\ Len(u) = k
    BY <2>2, <2>5
  <2> QED
    BY <2>6 DEF k
<1> HIDE DEF u
<1>4. /\ Compressible(v) \in Seq(Nat)
      /\ Compressible(v) # <<>>
      /\ Len(Compressible(v)) = Len(u) - Retain
      /\ Len(Compressible(v)) \in Nat \ {0}
  <2> DEFINE k == AtLeast0(Len(u) - Retain)
  <2>1. Compressible(v) = SubSeq(u, 1, k)
    BY DEF Compressible, u
  <2>2. k \in Nat /\ k <= Len(u) /\ (k > 0 => k = Len(u) - Retain)
    BY <1>1, <1>3 DEF AtLeast0
  <2> HIDE DEF k
  <2>3. Compressible(v) \in Seq(Nat) /\ Len(Compressible(v)) = k
    BY <1>3, <2>1, <2>2
  <2>4. Compressible(v) # <<>>
    BY DEF v
  <2>5. k > 0
    BY <2>2, <2>3, <2>4
  <2> QED
    BY <1>1, <1>3, <2>2, <2>3, <2>4, <2>5
<1>5. /\ first \in Nat \ {0} /\ last \in Nat /\ first <= last
      /\ last + Retain = v.count
      /\ last - first + 2 = Len(Compressible(v)) + 1
  <2>1. \A e \in Nat, k \in Nat \ {0}, c \in Nat :
          k + Retain = c - e =>
            /\ e + 1 \in Nat \ {0} /\ e + k \in Nat /\ e + 1 <= e + k
            /\ (e + k) + Retain = c
            /\ (e + k) - (e + 1) + 2 = k + 1
    BY <1>1
  <2>2. Len(Compressible(v)) + Retain = v.count - v.latest.end
    BY <1>1, <1>2, <1>3, <1>4
  <2>3. v.latest.end \in Nat /\ v.count \in Nat /\ Len(Compressible(v)) \in Nat \ {0}
    BY <1>1, <1>2, <1>4
  <2> QED
    BY <2>1, <2>2, <2>3
<1>6. /\ SummaryLength(v.latest, Compressible(v)) \in Nat
      /\ \/ SummaryLength(v.latest, Compressible(v)) <= SummaryMax
         \/ (Len(Compressible(v)) + 1) * (PrefixLen + 1) > SummaryMax
  BY <1>2, <1>4, LengthFits
<1> HIDE DEF first, last
<1>7. /\ s.start = first /\ s.end = last
      /\ s.version = v.latest.version + 1
      /\ s.length = SummaryLength(v.latest, Compressible(v))
      /\ s = [start |-> s.start, end |-> s.end, version |-> s.version,
              length |-> s.length]
  BY DEF Summary, first, last
<1> HIDE DEF s
<1>8. first - 1 <= last /\ v.latest.version <= first - 1
  BY <1>2, <1>5 DEF first
<1>9. s.version \in 1..last
  BY <1>2, <1>5, <1>7, <1>8
<1>10. s \in SummaryRows
  <2>1. last <= MaxMessages
    BY <1>1, <1>5
  <2>2. first \in Seqs /\ last \in Seqs /\ s.version \in Seqs
    BY <1>1, <1>5, <1>9, <2>1 DEF Seqs
  <2> QED
    BY <1>6, <1>7, <2>2 DEF SummaryRows
<1>11. Sound(s, Len(messages))
  BY <1>1, <1>5, <1>6, <1>7, <1>8, <1>9, <1>10 DEF Sound, Seqs
<1> QED
  BY <1>11 DEF s, v

LEMMA InsertKeeps ==
  ASSUME IndInv, NEW r \in Runs, InsertSummary(r)
  PROVE  IndInv'
<1>1. [latest |-> NoSummary, count |-> 0] \in Views
  BY LimitsAssumption DEF Views
<1>2. /\ summaries' \in Seq(SummaryRows)
      /\ \A i \in 1..Len(summaries') : Sound(summaries'[i], Len(messages))
  <2>1. CASE summaries' = summaries
    BY <2>1 DEF IndInv, Types, SummariesSound
  <2>2. CASE Compressible(view[r]) # <<>> /\ summaries' = Append(summaries, Summary(view[r]))
    <3>1. Sound(Summary(view[r]), Len(messages))
      BY <2>2, SummarySound DEF InsertSummary
    <3>2. Summary(view[r]) \in SummaryRows
      BY <3>1 DEF Sound
    <3>3. \A i \in 1..Len(summaries') :
            summaries'[i] = IF i <= Len(summaries) THEN summaries[i] ELSE Summary(view[r])
      BY <2>2, <3>2 DEF IndInv, Types
    <3>4. summaries' \in Seq(SummaryRows)
      BY <2>2, <3>2 DEF IndInv, Types
    <3> QED
      BY <3>1, <3>3, <3>4 DEF IndInv, Types, SummariesSound
  <2> QED
    BY <2>1, <2>2 DEF InsertSummary
<1>3. Types'
  BY <1>1, <1>2 DEF IndInv, Types, InsertSummary, GoTo, Phases
<1>4. SummariesSound'
  BY <1>2 DEF InsertSummary, SummariesSound
<1>5. ViewsSound' /\ RecentGiven'
  BY DEF IndInv, Types, InsertSummary, GoTo, ViewsSound, RecentGiven
<1>6. ContextsBacked'
  <2>1. \A i \in 1..Len(summaries) : i \in 1..Len(summaries') /\ summaries'[i] = summaries[i]
    BY DEF InsertSummary, IndInv, Types
  <2> QED
    BY <2>1 DEF InsertSummary, IndInv, ContextsBacked
<1> QED
  BY <1>3, <1>4, <1>5, <1>6 DEF IndInv

(* IndInv holds in every reachable state. *)
THEOREM Invariant == Spec => []IndInv
<1>1. IndInv /\ [Next]_vars => IndInv'
  <2> SUFFICES ASSUME IndInv, [Next]_vars PROVE IndInv'
    OBVIOUS
  <2>1. CASE UNCHANGED vars
    BY <2>1 DEF vars, IndInv, Types, SummariesSound, ViewsSound, ContextsBacked, RecentGiven
  <2>2. ASSUME NEW r \in Runs, Submit(r) PROVE IndInv'
    BY <2>2, AppendKeeps DEF Submit
  <2>3. ASSUME NEW r \in Runs, Persist(r) PROVE IndInv'
    BY <2>3, AppendKeeps DEF Persist
  <2> QED
    BY <2>1, <2>2, <2>3, LoadContextKeeps, AbandonKeeps, ReadKeeps, InsertKeeps DEF Next
<1> QED
  BY <1>1, InitIndInv, PTL DEF Spec

(* Although compress reads and inserts without a lock, so that a shorter        *)
(* summary may be inserted after a longer one, no context starts from a        *)
(* summary of fewer messages than an earlier context (load_context.py).        *)
THEOREM GoForward == Spec => ContextsGoForward
<1>1. ASSUME IndInv, [Next]_vars, NEW q \in Runs, NEW r \in Runs, context'[r] # context[r]
      PROVE  context[q].end <= context'[r].end
  <2>1. context' # context
    BY <1>1
  <2>2. PICK p \in Runs : LoadContext(p)
    BY <1>1, <2>1 DEF Next, vars, Submit, Abandon, Persist, ReadForSummary, InsertSummary
  <2>3. PICK s \in Latest : context' = [context EXCEPT ![p] = Loaded(s)]
    BY <2>2 DEF LoadContext
  <2>4. context'[r].end = s.end
    BY <1>1, <2>3, LoadedIsSound DEF IndInv, Types
  <2>5. context[q].end \in Nat /\ s.end \in Nat
    <3>1. context[q].end \in Nat
      BY <1>1 DEF IndInv, Types, Contexts
    <3>2. s = NoSummary \/ Sound(s, Len(messages))
      BY <1>1, LatestIsSound
    <3>3. s.end \in Nat
      BY <3>2 DEF Sound, SummaryRows, Seqs, NoSummary
    <3> QED
      BY <3>1, <3>3
  <2>6. context[q].end <= s.end
    <3>1. CASE context[q].end = 0
      BY <2>5, <3>1
    <3>2. ASSUME NEW i \in 1..Len(summaries), context[q].end <= summaries[i].end
          PROVE  context[q].end <= s.end
      <4>1. summaries # <<>> /\ summaries[i] \in ToSet(summaries) /\ summaries[i] \in SummaryRows
        BY <1>1 DEF ToSet, IndInv, Types
      <4>2. summaries[i].end <= s.end /\ summaries[i].end \in Nat
        BY <4>1 DEF Latest, SummaryRows, Seqs
      <4> QED
        BY <2>5, <3>2, <4>2
    <3> QED
      BY <1>1, <3>1, <3>2 DEF IndInv, ContextsBacked
  <2> QED
    BY <2>4, <2>6
<1>2. IndInv /\ [Next]_vars => [\A q, r \in Runs : context'[r] # context[r] =>
                                context[q].end <= context'[r].end]_vars
  BY <1>1
<1> QED
  BY <1>2, Invariant, PTL DEF Spec, ContextsGoForward

(* A summary is longer than SUMMARY_MAX_CHARS only if the prefixes of its      *)
(* lines are: the shares of its lines, rounded as they are, add up to no more   *)
(* than what is left (build_factual_summary).                                   *)
THEOREM Fits == Spec => []SummaryFits
<1>1. IndInv => SummaryFits
  BY DEF IndInv, SummariesSound, Sound, SummaryFits
<1> QED
  BY <1>1, Invariant, PTL

(* Whatever summary a context starts from, the newest messages are given, and   *)
(* whole unless they are longer than what load_context keeps of a message.      *)
THEOREM RecentMessagesGiven == Spec => []RecentGiven
<1>1. IndInv => RecentGiven
  BY DEF IndInv
<1> QED
  BY <1>1, Invariant, PTL

===============================================================================
