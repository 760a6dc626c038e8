--------------------------- MODULE TerminalTextProofs ---------------------------
(***************************************************************************)
(* Proofs about TerminalText, for texts of every length, cut into reads in *)
(* every way: what each pass over a text keeps, that a result is compact,  *)
(* what a read shows, and that reads which end lines compose.              *)
(***************************************************************************)
EXTENDS TerminalText, SequenceTheorems, FiniteSetTheorems, WellFoundedInduction, TLAPS

--------------------------------------------------------------------------------
(* What KeepAt computes. *)

\* Numbers of which some have a property have a least one.
LEMMA LeastNumber ==
    ASSUME NEW T \in SUBSET Nat, T # {}
    PROVE  \E m \in T : \A n \in T : m <= n
<1> DEFINE Less == {ss \in Nat \X Nat : ss[1] < ss[2]}
<1>1. OpToRel(<, Nat) = Less
  BY DEF OpToRel
<1>2. IsWellFoundedOn(Less, Nat)
  BY <1>1, NatLessThanWellFounded
<1>3. \A m, n \in Nat : <<n, m>> \in Less <=> n < m
  OBVIOUS
<1> HIDE DEF Less
<1>4. PICK m \in T : \A n \in T : <<n, m>> \notin Less
  BY <1>2, WFMin
<1>5. \A n \in T : ~(n < m)
  BY <1>3, <1>4
<1> QED
  BY <1>5

\* The equation of KeepAt for the first n elements.
KeepStep(s, keep, kept, i) ==
    IF i = 0 THEN <<>>
    ELSE IF i \in keep THEN Append(kept[i - 1], s[i]) ELSE kept[i - 1]
Keeps(s, keep, n, kept) ==
    /\ kept \in [0..n -> Seq(Nat)]
    /\ \A i \in 0..n : kept[i] = KeepStep(s, keep, kept, i)

\* A function that satisfies the equation for n elements is extended to n + 1.
LEMMA KeepsNext ==
    ASSUME NEW s \in Seq(Nat), NEW keep, NEW n \in Nat, n + 1 <= Len(s), NEW kept,
           Keeps(s, keep, n, kept)
    PROVE  \E longer : Keeps(s, keep, n + 1, longer)
<1> DEFINE next == IF n + 1 \in keep THEN Append(kept[n], s[n + 1]) ELSE kept[n]
           longer == [i \in 0..(n + 1) |-> IF i = n + 1 THEN next ELSE kept[i]]
<1>1. kept \in [0..n -> Seq(Nat)] /\ \A i \in 0..n : kept[i] = KeepStep(s, keep, kept, i)
  BY DEF Keeps
<1>2. next \in Seq(Nat)
  <2>1. n \in 0..n /\ n + 1 \in 1..Len(s)
    OBVIOUS
  <2>2. kept[n] \in Seq(Nat) /\ s[n + 1] \in Nat
    BY <1>1, <2>1
  <2> QED
    BY <2>2, AppendProperties
<1> HIDE DEF next
<1>3. longer \in [0..(n + 1) -> Seq(Nat)]
  BY <1>1, <1>2
<1>4. ASSUME NEW i \in 0..(n + 1) PROVE longer[i] = KeepStep(s, keep, longer, i)
  <2>1. CASE i = n + 1
    <3>1. longer[n + 1] = next /\ longer[n] = kept[n] /\ n + 1 # 0 /\ (n + 1) - 1 = n
      OBVIOUS
    <3> QED
      BY <2>1, <3>1 DEF KeepStep, next
  <2>2. CASE i # n + 1
    <3>1. i \in 0..n /\ longer[i] = kept[i]
      BY <2>2
    <3>2. i # 0 => longer[i - 1] = kept[i - 1]
      BY <3>1
    <3>3. kept[i] = KeepStep(s, keep, kept, i)
      BY <1>1, <3>1
    <3> HIDE DEF longer
    <3> QED
      BY <3>1, <3>2, <3>3 DEF KeepStep
  <2> QED
    BY <2>1, <2>2
<1> HIDE DEF longer
<1> QED
  BY <1>3, <1>4 DEF Keeps

\* The function KeepAt is defined by exists.
LEMMA KeepsExists ==
    ASSUME NEW s \in Seq(Nat), NEW keep
    PROVE  \A n \in 0..Len(s) : \E kept : Keeps(s, keep, n, kept)
<1> DEFINE Bad == {n \in 0..Len(s) : ~\E kept : Keeps(s, keep, n, kept)}
<1> SUFFICES ASSUME Bad # {} PROVE FALSE
  OBVIOUS
<1>1. Len(s) \in Nat
  BY LenProperties
<1>2. Bad \in SUBSET Nat
  BY <1>1
<1>3. PICK m \in Bad : \A n \in Bad : m <= n
  BY <1>2, LeastNumber
<1>4. m \in 0..Len(s) /\ m \in Nat
  BY <1>1, <1>3
<1>5. CASE m = 0
  <2>1. [i \in 0..0 |-> <<>>] \in [0..0 -> Seq(Nat)]
    BY EmptySeq
  <2>2. Keeps(s, keep, 0, [i \in 0..0 |-> <<>>])
    BY <2>1 DEF Keeps, KeepStep
  <2> QED
    BY <1>3, <1>5, <2>2
<1>6. CASE m # 0
  <2>1. m - 1 \in 0..Len(s) /\ m - 1 \in Nat /\ (m - 1) + 1 = m /\ ~(m <= m - 1)
    BY <1>1, <1>4, <1>6
  <2>2. PICK kept : Keeps(s, keep, m - 1, kept)
    BY <1>3, <2>1
  <2>3. (m - 1) + 1 <= Len(s)
    BY <1>1, <1>4, <2>1
  <2>4. \E longer : Keeps(s, keep, (m - 1) + 1, longer)
    BY <2>1, <2>2, <2>3, KeepsNext
  <2> QED
    BY <1>3, <2>1, <2>4
<1> QED
  BY <1>5, <1>6

\* r is what is left of the first n elements of s: e says where in s its elements are.
Picks(s, keep, n, r, e) ==
    /\ r \in Seq(Nat) /\ e \in [1..Len(r) -> 1..n]
    /\ \A j \in 1..Len(r) : e[j] \in keep /\ r[j] = s[e[j]]
    /\ \A j, k \in 1..Len(r) : j < k => e[j] < e[k]
    /\ \A i \in 1..n : i \in keep => \E j \in 1..Len(r) : e[j] = i

\* One more element, which is left out or put at the end.
LEMMA PicksNext ==
    ASSUME NEW s \in Seq(Nat), NEW keep, NEW n \in Nat, n + 1 <= Len(s), NEW r, NEW e,
           Picks(s, keep, n, r, e)
    PROVE  \E f : Picks(s, keep, n + 1,
                        IF n + 1 \in keep THEN Append(r, s[n + 1]) ELSE r, f)
<1>1. /\ r \in Seq(Nat) /\ e \in [1..Len(r) -> 1..n] /\ Len(r) \in Nat
      /\ \A j \in 1..Len(r) : e[j] \in keep /\ r[j] = s[e[j]]
      /\ \A j, k \in 1..Len(r) : j < k => e[j] < e[k]
      /\ \A i \in 1..n : i \in keep => \E j \in 1..Len(r) : e[j] = i
  BY LenProperties DEF Picks
<1>2. CASE n + 1 \notin keep
  <2>1. e \in [1..Len(r) -> 1..(n + 1)]
    BY <1>1
  <2>2. \A i \in 1..(n + 1) : i \in keep => \E j \in 1..Len(r) : e[j] = i
    BY <1>1, <1>2
  <2>3. Picks(s, keep, n + 1, r, e)
    BY <1>1, <2>1, <2>2 DEF Picks
  <2> QED
    BY <1>2, <2>3
<1>3. CASE n + 1 \in keep
  <2> DEFINE t == Append(r, s[n + 1])
             f == [j \in 1..(Len(r) + 1) |-> IF j = Len(r) + 1 THEN n + 1 ELSE e[j]]
  <2>1. s[n + 1] \in Nat
    <3>1. n + 1 \in 1..Len(s)
      OBVIOUS
    <3> QED
      BY <3>1
  <2>2. /\ t \in Seq(Nat) /\ Len(t) = Len(r) + 1 /\ t[Len(r) + 1] = s[n + 1]
        /\ \A j \in 1..Len(r) : t[j] = r[j]
    BY <1>1, <2>1, AppendProperties
  <2>3. /\ f \in [1..(Len(r) + 1) -> 1..(n + 1)] /\ f[Len(r) + 1] = n + 1
        /\ \A j \in 1..Len(r) : f[j] = e[j]
    BY <1>1
  <2> HIDE DEF t, f
  <2>4. ASSUME NEW j \in 1..Len(t) PROVE f[j] \in keep /\ t[j] = s[f[j]]
    <3>1. CASE j = Len(r) + 1
      BY <1>3, <2>2, <2>3, <3>1
    <3>2. CASE j # Len(r) + 1
      <4>1. j \in 1..Len(r)
        BY <1>1, <2>2, <3>2
      <4> QED
        BY <1>1, <2>2, <2>3, <4>1
    <3> QED
      BY <3>1, <3>2
  <2>5. ASSUME NEW j \in 1..Len(t), NEW k \in 1..Len(t), j < k PROVE f[j] < f[k]
    <3>1. j \in 1..Len(r)
      BY <1>1, <2>2, <2>5
    <3>2. e[j] \in 1..n
      BY <1>1, <3>1
    <3>3. CASE k = Len(r) + 1
      BY <2>3, <3>1, <3>2, <3>3
    <3>4. CASE k # Len(r) + 1
      <4>1. k \in 1..Len(r)
        BY <1>1, <2>2, <3>4
      <4> QED
        BY <1>1, <2>3, <2>5, <3>1, <4>1
    <3> QED
      BY <3>3, <3>4
  <2>6. ASSUME NEW i \in 1..(n + 1), i \in keep PROVE \E j \in 1..Len(t) : f[j] = i
    <3>1. CASE i = n + 1
      <4>1. Len(r) + 1 \in 1..Len(t)
        BY <1>1, <2>2
      <4> QED
        BY <2>3, <3>1, <4>1
    <3>2. CASE i # n + 1
      <4>1. i \in 1..n
        BY <3>2
      <4>2. PICK j \in 1..Len(r) : e[j] = i
        BY <1>1, <2>6, <4>1
      <4>3. j \in 1..Len(t) /\ f[j] = i
        BY <1>1, <2>2, <2>3, <4>2
      <4> QED
        BY <4>3
    <3> QED
      BY <3>1, <3>2
  <2>7. Picks(s, keep, n + 1, t, f)
    BY <2>2, <2>3, <2>4, <2>5, <2>6 DEF Picks
  <2> QED
    BY <1>3, <2>7 DEF t
<1> QED
  BY <1>2, <1>3

\* KeepAt(s, keep) is the subsequence of s at the indices in keep.
LEMMA KeepAtPicks ==
    ASSUME NEW s \in Seq(Nat), NEW keep
    PROVE  \E e : Picks(s, keep, Len(s), KeepAt(s, keep), e)
<1> DEFINE kept == CHOOSE f : f = [i \in 0..Len(s) |-> KeepStep(s, keep, f, i)]
           Bad == {n \in 0..Len(s) : ~\E e : Picks(s, keep, n, kept[n], e)}
<1>1. Len(s) \in Nat /\ Len(s) \in 0..Len(s)
  BY LenProperties
<1>2. PICK f : Keeps(s, keep, Len(s), f)
  BY <1>1, KeepsExists
<1>3. f = [i \in 0..Len(s) |-> KeepStep(s, keep, f, i)]
  BY <1>2 DEF Keeps
<1>4. kept = [i \in 0..Len(s) |-> KeepStep(s, keep, kept, i)]
  BY <1>3
<1>5. KeepAt(s, keep) = kept[Len(s)]
  BY DEF KeepAt, KeepStep
<1> HIDE DEF kept
<1>6. \A i \in 0..Len(s) : kept[i] = KeepStep(s, keep, kept, i)
  BY <1>4
<1>7. ASSUME Bad # {} PROVE FALSE
  <2>1. Bad \in SUBSET Nat
    BY <1>1
  <2>2. PICK m \in Bad : \A n \in Bad : m <= n
    BY <1>7, <2>1, LeastNumber
  <2>3. m \in 0..Len(s) /\ m \in Nat /\ ~\E e : Picks(s, keep, m, kept[m], e)
    BY <1>1, <2>2
  <2>4. CASE m = 0
    <3>1. kept[0] = <<>>
      BY <1>6, <2>3, <2>4 DEF KeepStep
    <3>2. <<>> \in Seq(Nat) /\ Len(<<>>) = 0
      BY EmptySeq
    <3>3. Picks(s, keep, 0, <<>>, [j \in 1..0 |-> 1])
      BY <3>2 DEF Picks
    <3> QED
      BY <2>3, <2>4, <3>1, <3>3
  <2>5. CASE m # 0
    <3>1. m - 1 \in 0..Len(s) /\ m - 1 \in Nat /\ (m - 1) + 1 = m /\ ~(m <= m - 1)
          /\ (m - 1) + 1 <= Len(s)
      BY <1>1, <2>3, <2>5
    <3>2. PICK e : Picks(s, keep, m - 1, kept[m - 1], e)
      BY <2>2, <3>1
    <3>3. kept[m] = IF m \in keep THEN Append(kept[m - 1], s[m]) ELSE kept[m - 1]
      BY <1>6, <2>3, <2>5 DEF KeepStep
    <3>4. \E g : Picks(s, keep, (m - 1) + 1,
                       IF (m - 1) + 1 \in keep THEN Append(kept[m - 1], s[(m - 1) + 1])
                       ELSE kept[m - 1], g)
      BY <3>1, <3>2, PicksNext
    <3> QED
      BY <2>3, <3>1, <3>3, <3>4
  <2> QED
    BY <2>4, <2>5
<1> QED
  BY <1>1, <1>5, <1>7

\* What a pass returns is a sequence of positions its text had.
LEMMA KeepAtType ==
    ASSUME NEW s \in Seq(Nat), NEW keep
    PROVE  /\ KeepAt(s, keep) \in Seq(Nat)
           /\ \A S : s \in Seq(S) => KeepAt(s, keep) \in Seq(S)
<1> DEFINE r == KeepAt(s, keep)
<1>1. PICK e : Picks(s, keep, Len(s), r, e)
  BY KeepAtPicks
<1> HIDE DEF r
<1>2. /\ r \in Seq(Nat) /\ e \in [1..Len(r) -> 1..Len(s)]
      /\ \A j \in 1..Len(r) : r[j] = s[e[j]]
  BY <1>1 DEF Picks
<1>3. ASSUME NEW S, s \in Seq(S) PROVE r \in Seq(S)
  <2>1. ASSUME NEW j \in 1..Len(r) PROVE r[j] \in S
    <3>1. e[j] \in 1..Len(s) /\ r[j] = s[e[j]]
      BY <1>2
    <3> QED
      BY <1>3, <3>1, ElementOfSeq
  <2>2. Len(r) \in Nat /\ DOMAIN r = 1..Len(r) /\ r = [j \in 1..Len(r) |-> r[j]]
    BY <1>2, LenProperties
  <2>3. r \in [1..Len(r) -> S]
    BY <2>1, <2>2
  <2> QED
    BY SMTT(30), <2>2, <2>3, SeqDef
<1> QED
  BY <1>2, <1>3 DEF r

\* Between two elements that follow one another, before the first and behind the last,
\* nothing was kept.
LEMMA PicksNeighbours ==
    ASSUME NEW s \in Seq(Nat), NEW keep, NEW r, NEW e, Picks(s, keep, Len(s), r, e)
    PROVE  /\ \A j \in 1..Len(r), i \in 1..Len(s) :
                 j + 1 \in 1..Len(r) /\ e[j] < i /\ i < e[j + 1] => i \notin keep
           /\ \A j \in 1..Len(r) : j + 1 \in 1..Len(r) => e[j] < e[j + 1]
           /\ \A i \in 1..Len(s) : 1 \in 1..Len(r) /\ i < e[1] => i \notin keep
           /\ \A i \in 1..Len(s) :
                 Len(r) \in 1..Len(r) /\ e[Len(r)] < i => i \notin keep
<1>1. /\ e \in [1..Len(r) -> 1..Len(s)] /\ Len(r) \in Nat /\ Len(s) \in Nat
      /\ \A j, k \in 1..Len(r) : j < k => e[j] < e[k]
      /\ \A i \in 1..Len(s) : i \in keep => \E j \in 1..Len(r) : e[j] = i
  BY LenProperties DEF Picks
<1>2. ASSUME NEW j \in 1..Len(r), NEW k \in 1..Len(r), e[j] < e[k] PROVE j < k
  <2>1. CASE k < j
    <3>1. e[k] < e[j] /\ e[j] \in Nat /\ e[k] \in Nat
      BY <1>1, <2>1
    <3> QED
      BY <1>2, <3>1
  <2>2. CASE k = j
    <3>1. e[j] \in Nat
      BY <1>1
    <3> QED
      BY <1>2, <2>2, <3>1
  <2> QED
    BY <1>1, <2>1, <2>2
<1>3. ASSUME NEW j \in 1..Len(r), NEW i \in 1..Len(s), j + 1 \in 1..Len(r),
             e[j] < i, i < e[j + 1], i \in keep
      PROVE  FALSE
  <2>1. PICK k \in 1..Len(r) : e[k] = i
    BY <1>1, <1>3
  <2>2. j < k /\ k < j + 1
    BY <1>2, <1>3, <2>1
  <2> QED
    BY <2>2
<1>4. ASSUME NEW i \in 1..Len(s), 1 \in 1..Len(r), i < e[1], i \in keep PROVE FALSE
  <2>1. PICK k \in 1..Len(r) : e[k] = i
    BY <1>1, <1>4
  <2>2. k < 1
    BY <1>2, <1>4, <2>1
  <2> QED
    BY <2>2
<1>5. ASSUME NEW i \in 1..Len(s), Len(r) \in 1..Len(r), e[Len(r)] < i, i \in keep
      PROVE  FALSE
  <2>1. PICK k \in 1..Len(r) : e[k] = i
    BY <1>1, <1>5
  <2>2. Len(r) < k
    BY <1>2, <1>5, <2>1
  <2> QED
    BY <1>1, <2>2
<1>6. \A j \in 1..Len(r) : j + 1 \in 1..Len(r) => e[j] < e[j + 1]
  BY <1>1
<1> QED
  BY <1>3, <1>4, <1>5, <1>6

--------------------------------------------------------------------------------
(* The parts of what NeedsCompact asks. *)

\* No character of one of the classes.
Free(s, classes) == \A i \in DOMAIN s : text[s[i]] \notin classes
\* No blank before a newline or at the end.
NoBlankEnd(s) ==
    \A i \in DOMAIN s : text[s[i]] = "sp" => i # Len(s) /\ ~Is(s, i + 1, "nl")
\* No three newlines in a row.
NoLongBlank(s) ==
    \A i \in DOMAIN s : ~(Is(s, i, "nl") /\ Is(s, i + 1, "nl") /\ Is(s, i + 2, "nl"))

LEMMA CompactParts ==
    ASSUME NEW s
    PROVE  NeedsCompact(s) <=> ~(/\ Free(s, Control) /\ Free(s, {"cr"})
                                 /\ NoBlankEnd(s) /\ NoLongBlank(s) /\ ~Is(s, 1, "nl"))
BY DEF NeedsCompact, Free, NoBlankEnd, NoLongBlank, Is

\* A pass that keeps no character of a class leaves none, as does one whose text had none.
LEMMA FreePass ==
    ASSUME NEW s \in Seq(Nat), NEW keep, NEW classes,
           \A i \in DOMAIN s : i \in keep => text[s[i]] \notin classes
    PROVE  Free(KeepAt(s, keep), classes)
<1> DEFINE r == KeepAt(s, keep)
<1>1. PICK e : Picks(s, keep, Len(s), r, e)
  BY KeepAtPicks
<1> HIDE DEF r
<1>2. /\ DOMAIN r = 1..Len(r) /\ DOMAIN s = 1..Len(s)
      /\ e \in [1..Len(r) -> 1..Len(s)]
      /\ \A j \in 1..Len(r) : e[j] \in keep /\ r[j] = s[e[j]]
  BY <1>1, LenProperties DEF Picks
<1>3. Free(r, classes)
  BY <1>2 DEF Free
<1> QED
  BY <1>3 DEF r

\* Newlines that are dropped make no blank the last of a line.
LEMMA NoBlankEndPass ==
    ASSUME NEW s \in Seq(Nat), NEW keep, NoBlankEnd(s),
           \A i \in DOMAIN s : i \notin keep => text[s[i]] = "nl"
    PROVE  NoBlankEnd(KeepAt(s, keep))
<1> DEFINE r == KeepAt(s, keep)
<1>1. PICK e : Picks(s, keep, Len(s), r, e)
  BY KeepAtPicks
<1> HIDE DEF r
<1>2. /\ Len(r) \in Nat /\ Len(s) \in Nat /\ DOMAIN r = 1..Len(r) /\ DOMAIN s = 1..Len(s)
      /\ e \in [1..Len(r) -> 1..Len(s)]
      /\ \A j \in 1..Len(r) : e[j] \in keep /\ r[j] = s[e[j]]
  BY <1>1, LenProperties DEF Picks
<1>3. ASSUME NEW j \in 1..Len(r), text[r[j]] = "sp" PROVE j # Len(r) /\ ~Is(r, j + 1, "nl")
  <2>1. /\ e[j] \in 1..Len(s) /\ text[s[e[j]]] = "sp" /\ e[j] # Len(s)
        /\ ~Is(s, e[j] + 1, "nl")
    BY <1>2, <1>3 DEF NoBlankEnd
  <2>2. e[j] + 1 \in 1..Len(s)
    BY <1>2, <2>1
  <2>3. text[s[e[j] + 1]] # "nl" /\ e[j] + 1 \in keep
    BY <1>2, <2>1, <2>2 DEF Is
  <2>t. Len(r) \in Nat /\ e[j] < e[j] + 1
    BY <1>2, <2>1
  <2>4. ASSUME j = Len(r) PROVE FALSE
    <3>1. Len(r) \in 1..Len(r) /\ e[Len(r)] < e[j] + 1
      BY <2>4, <2>t
    <3> QED
      BY <1>1, <2>2, <2>3, <3>1, PicksNeighbours
  <2>5. j + 1 \in 1..Len(r)
    BY <2>4, <2>t
  <2>6. e[j + 1] = e[j] + 1
    <3>1. e[j] < e[j + 1] /\ ~(e[j] + 1 < e[j + 1])
      BY <1>1, <2>1, <2>2, <2>3, <2>5, PicksNeighbours
    <3>2. e[j + 1] \in 1..Len(s) /\ e[j] \in 1..Len(s) /\ Len(s) \in Nat
      BY <1>2, <2>5
    <3> QED
      BY <3>1, <3>2
  <2>7. ~Is(r, j + 1, "nl")
    BY <1>2, <2>3, <2>5, <2>6 DEF Is
  <2> QED
    BY <2>4, <2>7
<1>4. NoBlankEnd(r)
  BY <1>2, <1>3 DEF NoBlankEnd
<1> QED
  BY <1>4 DEF r

\* A part of the text without gaps has no more newlines in a row than the text.
LEMMA NoLongBlankPass ==
    ASSUME NEW s \in Seq(Nat), NEW keep, NoLongBlank(s),
           \A i, k \in keep \cap DOMAIN s : \A m \in i..k : m \in keep
    PROVE  NoLongBlank(KeepAt(s, keep))
<1> DEFINE r == KeepAt(s, keep)
<1>1. PICK e : Picks(s, keep, Len(s), r, e)
  BY KeepAtPicks
<1> HIDE DEF r
<1>2. /\ Len(r) \in Nat /\ Len(s) \in Nat /\ DOMAIN r = 1..Len(r) /\ DOMAIN s = 1..Len(s)
      /\ e \in [1..Len(r) -> 1..Len(s)]
      /\ \A j \in 1..Len(r) : e[j] \in keep /\ r[j] = s[e[j]]
  BY <1>1, LenProperties DEF Picks
<1>3. ASSUME NEW j \in 1..Len(r), j + 1 \in 1..Len(r) PROVE e[j + 1] = e[j] + 1
  <2>1. e[j] \in 1..Len(s) /\ e[j + 1] \in 1..Len(s) /\ e[j] < e[j + 1]
    BY <1>1, <1>2, <1>3, PicksNeighbours
  <2>2. e[j] + 1 \in e[j]..e[j + 1] /\ e[j] + 1 \in 1..Len(s)
    BY SMTT(30), <1>2, <2>1
  <2>3. e[j] + 1 \in keep
    BY <1>2, <1>3, <2>1, <2>2
  <2>4. ~(e[j] + 1 < e[j + 1])
    BY <1>1, <1>3, <2>1, <2>2, <2>3, PicksNeighbours
  <2> QED
    BY <2>1, <2>4
<1>4. ASSUME NEW j \in 1..Len(r), Is(r, j, "nl"), Is(r, j + 1, "nl"), Is(r, j + 2, "nl")
      PROVE  FALSE
  <2>1. j + 1 \in 1..Len(r) /\ j + 2 \in 1..Len(r) /\ (j + 1) + 1 = j + 2
    BY <1>2, <1>4 DEF Is
  <2>2. e[j + 1] = e[j] + 1 /\ e[j + 2] = e[j] + 2 /\ e[j] \in 1..Len(s)
    <3>1. e[j + 1] = e[j] + 1 /\ e[(j + 1) + 1] = e[j + 1] + 1 /\ e[j] \in 1..Len(s)
      BY <1>2, <1>3, <2>1
    <3> QED
      BY <2>1, <3>1
  <2>3. e[j] + 1 \in 1..Len(s) /\ e[j] + 2 \in 1..Len(s)
    BY <1>2, <2>1, <2>2
  <2>4. Is(s, e[j], "nl") /\ Is(s, e[j] + 1, "nl") /\ Is(s, e[j] + 2, "nl")
    BY <1>2, <1>4, <2>1, <2>2, <2>3 DEF Is
  <2> QED
    BY <1>2, <2>2, <2>4 DEF NoLongBlank
<1>5. NoLongBlank(r)
  BY <1>2, <1>4 DEF NoLongBlank
<1> QED
  BY <1>5 DEF r

--------------------------------------------------------------------------------
(* The passes, one by one. *)

\* No carriage return is left once every line is cut at its last one.
LEMMA CutLines ==
    ASSUME NEW s \in Seq(Nat)
    PROVE  Free(AfterLastCR(s), {"cr"})
<1> DEFINE keep == {i \in DOMAIN s : \A j \in i..Len(s) :
                       Is(s, j, "cr") => \E k \in i..j : Is(s, k, "nl")}
<1>1. ASSUME NEW i \in DOMAIN s, i \in keep PROVE text[s[i]] \notin {"cr"}
  <2>1. i \in 1..Len(s) /\ Len(s) \in Nat
    BY LenProperties
  <2>2. i \in i..Len(s) /\ i..i = {i}
    BY <2>1
  <2>3. Is(s, i, "cr") => Is(s, i, "nl")
    BY <1>1, <2>2
  <2> QED
    BY <2>3 DEF Is
<1> HIDE DEF keep
<1>2. Free(KeepAt(s, keep), {"cr"})
  BY <1>1, FreePass
<1> QED
  BY <1>2 DEF AfterLastCR, keep

\* No line ends in blanks once they are trimmed.
LEMMA TrimmedLines ==
    ASSUME NEW s \in Seq(Nat)
    PROVE  NoBlankEnd(TrimLines(s))
<1> DEFINE keep == {i \in DOMAIN s : ~(Is(s, i, "sp") /\ \E to \in i..Len(s) :
                       All(s, i, to, {"sp"}) /\ (to = Len(s) \/ Is(s, to + 1, "nl")))}
           r == KeepAt(s, keep)
<1>0. DOMAIN s = 1..Len(s) /\ Len(s) \in Nat
  BY LenProperties
<1>1. \A i \in 1..Len(s) : i \notin keep => text[s[i]] = "sp"
  BY <1>0 DEF Is
<1>2. ASSUME NEW i \in 1..Len(s), NEW to \in i..Len(s), i \in keep, All(s, i, to, {"sp"})
      PROVE  to # Len(s) /\ ~Is(s, to + 1, "nl")
  <2>1. i \in i..to
    BY <1>0
  <2>2. Is(s, i, "sp")
    BY <1>0, <1>2, <2>1 DEF All, Is
  <2> QED
    BY <1>2, <2>2
<1> HIDE DEF keep
<1>3. PICK e : Picks(s, keep, Len(s), r, e)
  BY KeepAtPicks
<1>r. TrimLines(s) = r
  BY DEF TrimLines, keep
<1> HIDE DEF r
<1>4. /\ Len(r) \in Nat /\ DOMAIN r = 1..Len(r) /\ e \in [1..Len(r) -> 1..Len(s)]
      /\ \A j \in 1..Len(r) : e[j] \in keep /\ r[j] = s[e[j]]
  BY <1>3, LenProperties DEF Picks
<1>5. ASSUME NEW j \in 1..Len(r), text[r[j]] = "sp" PROVE j # Len(r) /\ ~Is(r, j + 1, "nl")
  <2>1. e[j] \in 1..Len(s) /\ e[j] \in keep /\ text[s[e[j]]] = "sp"
    BY <1>4, <1>5
  <2>2. ASSUME j = Len(r) PROVE FALSE
    <3>1. Len(r) \in 1..Len(r)
      BY <2>2
    <3>2. \A i \in 1..Len(s) : e[j] < i => i \notin keep
      BY <1>3, <2>2, <3>1, PicksNeighbours
    <3>3. ASSUME NEW i \in e[j]..Len(s) PROVE text[s[i]] = "sp"
      <4>1. i \in 1..Len(s) /\ (i = e[j] \/ e[j] < i)
        BY <1>0, <2>1
      <4> QED
        BY <1>1, <2>1, <3>2, <4>1
    <3>4. All(s, e[j], Len(s), {"sp"})
      BY <3>3 DEF All
    <3>5. Len(s) \in e[j]..Len(s)
      BY <1>0, <2>1
    <3> QED
      BY <1>2, <2>1, <3>4, <3>5
  <2>3. ASSUME Is(r, j + 1, "nl") PROVE FALSE
    <3>1. j + 1 \in 1..Len(r) /\ text[r[j + 1]] = "nl"
      BY <1>4, <2>3 DEF Is
    <3>2. /\ e[j + 1] \in 1..Len(s) /\ e[j] < e[j + 1] /\ text[s[e[j + 1]]] = "nl"
      BY <1>3, <1>4, <3>1, PicksNeighbours
    <3>3. \A i \in 1..Len(s) : e[j] < i /\ i < e[j + 1] => i \notin keep
      BY <1>3, <3>1, PicksNeighbours
    <3>4. e[j + 1] - 1 \in e[j]..Len(s) /\ (e[j + 1] - 1) + 1 = e[j + 1]
      BY SMTT(30), <1>0, <2>1, <3>2
    <3>5. ASSUME NEW i \in e[j]..(e[j + 1] - 1) PROVE text[s[i]] = "sp"
      <4>1. i \in 1..Len(s) /\ (i = e[j] \/ (e[j] < i /\ i < e[j + 1]))
        BY SMTT(30), <1>0, <2>1, <3>2
      <4> QED
        BY <1>1, <2>1, <3>3, <4>1
    <3>6. All(s, e[j], e[j + 1] - 1, {"sp"})
      BY <3>5 DEF All
    <3>7. Is(s, (e[j + 1] - 1) + 1, "nl")
      BY <1>0, <3>2, <3>4 DEF Is
    <3> QED
      BY <1>2, <2>1, <3>4, <3>6, <3>7
  <2> QED
    BY <2>2, <2>3
<1> QED
  BY <1>4, <1>5, <1>r DEF NoBlankEnd

\* Of a run of newlines two are left; only newlines go.
LEMMA FoldedBlank ==
    ASSUME NEW s \in Seq(Nat)
    PROVE  /\ NoLongBlank(FoldBlank(s))
           /\ NoBlankEnd(s) => NoBlankEnd(FoldBlank(s))
<1> DEFINE keep == {i \in DOMAIN s : ~(i > 2 /\ All(s, i - 2, i, {"nl"}))}
           r == KeepAt(s, keep)
<1>0. DOMAIN s = 1..Len(s) /\ Len(s) \in Nat
  BY LenProperties
<1>1. ASSUME NEW i \in 1..Len(s), i \notin keep PROVE text[s[i]] = "nl"
  <2>1. i \in (i - 2)..i
    BY <1>0
  <2> QED
    BY <1>0, <1>1, <2>1 DEF All
<1>2. \A i \in 1..Len(s) : i \in keep /\ i > 2 => ~All(s, i - 2, i, {"nl"})
  OBVIOUS
<1> HIDE DEF keep
<1>3. PICK e : Picks(s, keep, Len(s), r, e)
  BY KeepAtPicks
<1>r. FoldBlank(s) = r
  BY DEF FoldBlank, keep
<1>b. NoBlankEnd(s) => NoBlankEnd(r)
  BY <1>0, <1>1, NoBlankEndPass
<1> HIDE DEF r
<1>4. /\ Len(r) \in Nat /\ DOMAIN r = 1..Len(r) /\ e \in [1..Len(r) -> 1..Len(s)]
      /\ \A j \in 1..Len(r) : e[j] \in keep /\ r[j] = s[e[j]]
  BY <1>3, LenProperties DEF Picks
<1>5. ASSUME NEW j \in 1..Len(r), Is(r, j, "nl"), Is(r, j + 1, "nl"), Is(r, j + 2, "nl")
      PROVE  FALSE
  <2>1. j + 1 \in 1..Len(r) /\ j + 2 \in 1..Len(r) /\ (j + 1) + 1 = j + 2
    BY <1>4, <1>5 DEF Is
  <2> DEFINE a == e[j]  b == e[j + 1]  c == e[j + 2]
  <2>2. a \in 1..Len(s) /\ b \in 1..Len(s) /\ c \in 1..Len(s) /\ c \in keep
    BY <1>4, <2>1
  <2>3. text[s[a]] = "nl" /\ text[s[b]] = "nl" /\ text[s[c]] = "nl"
    BY <1>4, <1>5, <2>1 DEF Is
  <2>4. a < b /\ \A i \in 1..Len(s) : a < i /\ i < b => i \notin keep
    BY <1>3, <2>1, PicksNeighbours
  <2>5. b < c /\ \A i \in 1..Len(s) : b < i /\ i < c => i \notin keep
    <3>1. \A k \in 1..Len(r) : k + 1 \in 1..Len(r) =>
             /\ e[k] < e[k + 1]
             /\ \A i \in 1..Len(s) : e[k] < i /\ i < e[k + 1] => i \notin keep
      BY <1>3, PicksNeighbours
    <3>2. /\ e[j + 1] < e[(j + 1) + 1]
          /\ \A i \in 1..Len(s) : e[j + 1] < i /\ i < e[(j + 1) + 1] => i \notin keep
      BY <2>1, <3>1
    <3> QED
      BY <2>1, <3>2
  <2> HIDE DEF a, b, c
  <2>6. c > 2 /\ c - 2 >= a /\ c - 2 \in 1..Len(s)
    BY <1>0, <2>2, <2>4, <2>5
  <2>7. ASSUME NEW i \in (c - 2)..c PROVE text[s[i]] = "nl"
    <3>1. i \in 1..Len(s)
          /\ (i = a \/ i = b \/ i = c \/ (a < i /\ i < b) \/ (b < i /\ i < c))
      BY <1>0, <2>2, <2>4, <2>5, <2>6
    <3> QED
      BY <1>1, <2>3, <2>4, <2>5, <3>1
  <2>8. All(s, c - 2, c, {"nl"})
    BY <2>7 DEF All
  <2> QED
    BY <1>2, <2>2, <2>6, <2>8
<1>6. NoLongBlank(r)
  BY <1>4, <1>5 DEF NoLongBlank
<1> QED
  BY <1>6, <1>b, <1>r

\* No newline is left at the beginning; only newlines go, and nothing between what stays.
LEMMA TrimmedLeft ==
    ASSUME NEW s \in Seq(Nat)
    PROVE  /\ ~Is(TrimLeft(s), 1, "nl")
           /\ NoBlankEnd(s) => NoBlankEnd(TrimLeft(s))
           /\ NoLongBlank(s) => NoLongBlank(TrimLeft(s))
<1> DEFINE keep == {i \in DOMAIN s : ~All(s, 1, i, {"nl"})}
           r == KeepAt(s, keep)
<1>0. DOMAIN s = 1..Len(s) /\ Len(s) \in Nat
  BY LenProperties
<1>1. ASSUME NEW i \in 1..Len(s), i \notin keep
      PROVE  text[s[i]] = "nl" /\ \A m \in 1..i : text[s[m]] = "nl"
  <2>1. i \in 1..i
    BY <1>0
  <2> QED
    BY <1>0, <1>1, <2>1 DEF All
<1>2. ASSUME NEW i \in keep \cap DOMAIN s, NEW k \in keep \cap DOMAIN s, NEW m \in i..k
      PROVE  m \in keep
  <2>1. m \in DOMAIN s /\ 1..i \subseteq 1..m
    BY <1>0
  <2> QED
    BY <2>1 DEF All
<1>3. ASSUME NEW i \in keep, text[s[i]] = "nl" PROVE i # 1 /\ i - 1 \in keep
  <2>1. PICK m \in 1..i : text[s[m]] # "nl"
    BY DEF All
  <2>2. i \in 1..Len(s) /\ m # i
    BY <1>0, <1>3, <2>1
  <2>3. m \in 1..(i - 1) /\ i - 1 \in 1..Len(s)
    BY <1>0, <2>1, <2>2
  <2> QED
    BY <1>0, <2>1, <2>2, <2>3 DEF All
<1> HIDE DEF keep
<1>r. TrimLeft(s) = r
  BY DEF TrimLeft, keep
<1>b. NoBlankEnd(s) => NoBlankEnd(r)
  BY <1>0, <1>1, NoBlankEndPass
<1>l. NoLongBlank(s) => NoLongBlank(r)
  BY <1>2, NoLongBlankPass
<1>4. PICK e : Picks(s, keep, Len(s), r, e)
  BY KeepAtPicks
<1> HIDE DEF r
<1>5. /\ DOMAIN r = 1..Len(r) /\ e \in [1..Len(r) -> 1..Len(s)]
      /\ \A j \in 1..Len(r) : e[j] \in keep /\ r[j] = s[e[j]]
  BY <1>4, LenProperties DEF Picks
<1>6. ASSUME Is(r, 1, "nl") PROVE FALSE
  <2>1. 1 \in 1..Len(r) /\ text[r[1]] = "nl"
    BY <1>5, <1>6 DEF Is
  <2>2. e[1] \in keep /\ e[1] \in 1..Len(s) /\ text[s[e[1]]] = "nl"
    BY <1>5, <2>1
  <2>3. e[1] # 1 /\ e[1] - 1 \in keep
    BY <1>3, <2>2
  <2>4. e[1] - 1 \in 1..Len(s) /\ e[1] - 1 < e[1]
    BY <1>0, <2>2, <2>3
  <2> QED
    BY <1>4, <2>1, <2>3, <2>4, PicksNeighbours
<1> QED
  BY <1>6, <1>b, <1>l, <1>r

\* The newlines at the end: only newlines go, nothing between what stays, and nothing
\* before it.
LEMMA TrimmedEnd ==
    ASSUME NEW s \in Seq(Nat)
    PROVE  /\ ~Is(s, 1, "nl") => ~Is(TrimEnd(s), 1, "nl")
           /\ NoBlankEnd(s) => NoBlankEnd(TrimEnd(s))
           /\ NoLongBlank(s) => NoLongBlank(TrimEnd(s))
           /\ \A classes : Free(s, classes) => Free(TrimEnd(s), classes)
           /\ \A S : s \in Seq(S) => TrimEnd(s) \in Seq(S)
<1> DEFINE keep == {i \in DOMAIN s : ~All(s, i, Len(s), {"nl"})}
           r == KeepAt(s, keep)
<1>0. DOMAIN s = 1..Len(s) /\ Len(s) \in Nat
  BY LenProperties
<1>1. ASSUME NEW i \in 1..Len(s), i \notin keep PROVE text[s[i]] = "nl"
  <2>1. i \in i..Len(s)
    BY <1>0
  <2> QED
    BY <1>0, <1>1, <2>1 DEF All
<1>2. ASSUME NEW i \in 1..Len(s), NEW k \in keep \cap DOMAIN s, i <= k PROVE i \in keep
  <2>1. k..Len(s) \subseteq i..Len(s)
    BY <1>0, <1>2
  <2> QED
    BY <1>0, <2>1 DEF All
<1> HIDE DEF keep
<1>s. TrimEnd(s) = s \/ TrimEnd(s) = r
  BY DEF TrimEnd, keep
<1>b. NoBlankEnd(s) => NoBlankEnd(r)
  BY <1>0, <1>1, NoBlankEndPass
<1>l. NoLongBlank(s) => NoLongBlank(r)
  <2>1. ASSUME NEW i \in keep \cap DOMAIN s, NEW k \in keep \cap DOMAIN s, NEW m \in i..k
        PROVE  m \in keep
    <3>1. m \in 1..Len(s) /\ m <= k
      BY <1>0
    <3> QED
      BY <1>2, <3>1
  <2> QED
    BY <2>1, NoLongBlankPass
<1>f. ASSUME NEW classes, Free(s, classes) PROVE Free(r, classes)
  <2>1. \A i \in DOMAIN s : i \in keep => text[s[i]] \notin classes
    BY <1>f DEF Free
  <2> QED
    BY <2>1, FreePass
<1>t. \A S : s \in Seq(S) => r \in Seq(S)
  BY KeepAtType
<1>4. PICK e : Picks(s, keep, Len(s), r, e)
  BY KeepAtPicks
<1> HIDE DEF r
<1>5. /\ DOMAIN r = 1..Len(r) /\ e \in [1..Len(r) -> 1..Len(s)]
      /\ \A j \in 1..Len(r) : e[j] \in keep /\ r[j] = s[e[j]]
  BY <1>4, LenProperties DEF Picks
<1>6. ASSUME ~Is(s, 1, "nl"), Is(r, 1, "nl") PROVE FALSE
  <2>1. 1 \in 1..Len(r) /\ text[r[1]] = "nl"
    BY <1>5, <1>6 DEF Is
  <2>2. e[1] \in keep /\ e[1] \in 1..Len(s) /\ text[s[e[1]]] = "nl"
    BY <1>5, <2>1
  <2>3. 1 \in 1..Len(s) /\ 1 <= e[1]
    BY <1>0, <2>2
  <2>4. 1 \in keep
    BY <1>0, <1>2, <2>2, <2>3
  <2>5. ~(1 < e[1])
    BY <1>4, <2>1, <2>3, <2>4, PicksNeighbours
  <2>6. e[1] = 1
    BY <1>0, <2>2, <2>3, <2>5
  <2> QED
    BY <1>0, <1>6, <2>2, <2>3, <2>6 DEF Is
<1>7. CASE TrimEnd(s) = s
  BY <1>7
<1>8. CASE TrimEnd(s) = r
  BY <1>6, <1>8, <1>b, <1>l, <1>f, <1>t
<1> QED
  BY <1>s, <1>7, <1>8

--------------------------------------------------------------------------------
(* Compact. *)

\* The first six passes, which are KeepAt of some indices, and what they establish.
LEMMA PassKeeps ==
    ASSUME NEW s \in Seq(Nat), NEW r,
           \/ r = DropControl(s) \/ r = NormalizeCRLF(s) \/ r = AfterLastCR(s)
           \/ r = TrimLines(s) \/ r = FoldBlank(s) \/ r = TrimLeft(s) \/ r = Strip(s)
    PROVE  /\ r \in Seq(Nat) /\ \A S : s \in Seq(S) => r \in Seq(S)
           /\ \A classes : Free(s, classes) => Free(r, classes)
<1>1. \E keep : r = KeepAt(s, keep)
  BY DEF DropControl, NormalizeCRLF, AfterLastCR, TrimLines, FoldBlank, TrimLeft, Strip
<1>2. PICK keep : r = KeepAt(s, keep)
  BY <1>1
<1>3. ASSUME NEW classes, Free(s, classes) PROVE Free(r, classes)
  <2>1. \A i \in DOMAIN s : i \in keep => text[s[i]] \notin classes
    BY <1>3 DEF Free
  <2> QED
    BY <1>2, <2>1, FreePass
<1> QED
  BY <1>2, <1>3, KeepAtType

\* What Compact returns needs no Compact, and is made of what its text was made of
\* (compact.go:14-58 against needsCompact, compact.go:61-99).
LEMMA CompactIsCompact ==
    ASSUME NEW s \in Seq(Nat)
    PROVE  /\ ~NeedsCompact(Compact(s)) /\ Compact(s) \in Seq(Nat)
           /\ \A S : s \in Seq(S) => Compact(s) \in Seq(S)
<1>1. CASE ~NeedsCompact(s)
  BY <1>1 DEF Compact
<1>2. CASE NeedsCompact(s)
  <2> DEFINE s1 == DropControl(s)  s2 == NormalizeCRLF(s1)  s3 == AfterLastCR(s2)
             s4 == TrimLines(s3)  s5 == FoldBlank(s4)  s6 == TrimLeft(s5)  s7 == TrimEnd(s6)
  <2>1. Compact(s) = s7
    BY <1>2 DEF Compact
  <2>c. Free(s1, Control)
    BY FreePass DEF DropControl
  <2>t1. /\ s1 \in Seq(Nat) /\ \A S : s \in Seq(S) => s1 \in Seq(S)
    BY PassKeeps
  <2> HIDE DEF s1
  <2>t2. /\ s2 \in Seq(Nat) /\ \A S : s1 \in Seq(S) => s2 \in Seq(S)
         /\ \A classes : Free(s1, classes) => Free(s2, classes)
    BY <2>t1, PassKeeps
  <2> HIDE DEF s2
  <2>t3. /\ s3 \in Seq(Nat) /\ \A S : s2 \in Seq(S) => s3 \in Seq(S)
         /\ \A classes : Free(s2, classes) => Free(s3, classes)
    BY <2>t2, PassKeeps
  <2>r. Free(s3, {"cr"})
    BY <2>t2, CutLines
  <2> HIDE DEF s3
  <2>t4. /\ s4 \in Seq(Nat) /\ \A S : s3 \in Seq(S) => s4 \in Seq(S)
         /\ \A classes : Free(s3, classes) => Free(s4, classes)
    BY <2>t3, PassKeeps
  <2>b. NoBlankEnd(s4)
    BY <2>t3, TrimmedLines
  <2> HIDE DEF s4
  <2>t5. /\ s5 \in Seq(Nat) /\ \A S : s4 \in Seq(S) => s5 \in Seq(S)
         /\ \A classes : Free(s4, classes) => Free(s5, classes)
    BY <2>t4, PassKeeps
  <2>l. NoLongBlank(s5) /\ NoBlankEnd(s5)
    BY <2>t4, <2>b, FoldedBlank
  <2> HIDE DEF s5
  <2>t6. /\ s6 \in Seq(Nat) /\ \A S : s5 \in Seq(S) => s6 \in Seq(S)
         /\ \A classes : Free(s5, classes) => Free(s6, classes)
    BY <2>t5, PassKeeps
  <2>e. NoLongBlank(s6) /\ NoBlankEnd(s6) /\ ~Is(s6, 1, "nl")
    BY <2>t5, <2>l, TrimmedLeft
  <2> HIDE DEF s6
  <2>t7. /\ \A S : s6 \in Seq(S) => s7 \in Seq(S)
         /\ \A classes : Free(s6, classes) => Free(s7, classes)
         /\ NoLongBlank(s7) /\ NoBlankEnd(s7) /\ ~Is(s7, 1, "nl")
    BY <2>t6, <2>e, TrimmedEnd
  <2> HIDE DEF s7
  <2>2. Free(s7, Control) /\ Free(s7, {"cr"})
    BY <2>c, <2>r, <2>t2, <2>t3, <2>t4, <2>t5, <2>t6, <2>t7
  <2>3. ~NeedsCompact(s7)
    BY <2>2, <2>t7, CompactParts
  <2>4. \A S : s \in Seq(S) => s7 \in Seq(S)
    BY <2>t1, <2>t2, <2>t3, <2>t4, <2>t5, <2>t6, <2>t7
  <2> QED
    BY <2>1, <2>3, <2>4
<1> QED
  BY <1>1, <1>2

\* Compact is idempotent: compacting what was compacted changes nothing.
THEOREM CompactOnce ==
    ASSUME NEW s \in Seq(Nat)
    PROVE  Compact(Compact(s)) = Compact(s)
<1> DEFINE r == Compact(s)
<1>1. ~NeedsCompact(r)
  BY CompactIsCompact
<1> HIDE DEF r
<1>2. Compact(r) = r
  BY <1>1 DEF Compact
<1> QED
  BY <1>2 DEF r

--------------------------------------------------------------------------------
(* The reads. *)

\* What was read, and what it became, are positions of the output.
TextInv ==
    /\ text \in Seq(Classes) /\ reads \in Seq(1..Len(text)) /\ ReadUpTo \in 0..Len(text)
    /\ last \in Seq(1..Len(text)) /\ shown \in Seq(1..Len(text))

\* The positions of a part of the output.
LEMMA PositionsType ==
    ASSUME NEW from \in Nat, NEW to \in Nat, from <= to
    PROVE  /\ Positions(from, to) \in Seq((from + 1)..to)
           /\ Len(Positions(from, to)) = to - from
           /\ \A i \in 1..(to - from) : Positions(from, to)[i] = from + i
<1>1. to - from \in Nat /\ \A i \in 1..(to - from) : from + i \in (from + 1)..to
  OBVIOUS
<1>2. Positions(from, to) \in [1..(to - from) -> (from + 1)..to]
  BY <1>1 DEF Positions
<1>3. Positions(from, to) \in Seq((from + 1)..to)
  BY <1>1, <1>2, SeqDef
<1>4. Len(Positions(from, to)) = to - from
  BY <1>1, <1>2, <1>3, LenProperties
<1> QED
  BY <1>3, <1>4 DEF Positions

\* A character that is written comes behind the others.
LEMMA Written ==
    ASSUME TextInv, NEW c \in Alphabet, Write(c)
    PROVE  /\ text' \in Seq(Classes) /\ Len(text') = Len(text) + 1 /\ Len(text) \in Nat
           /\ \A p \in 1..Len(text) : text'[p] = text[p]
           /\ UNCHANGED <<reads, last, shown>>
<1>1. c \in Classes /\ text \in Seq(Classes) /\ text' = Append(text, c)
  BY AlphabetAssumption DEF Write, TextInv
<1> QED
  BY <1>1, AppendProperties, LenProperties DEF Write

\* What a read returns.
LEMMA ReadText ==
    ASSUME TextInv, Read
    PROVE  LET piece == Positions(ReadUpTo, Len(text))
           IN  /\ ReadUpTo \in Nat /\ Len(text) \in Nat /\ ReadUpTo < Len(text)
               /\ piece \in Seq(Nat) /\ piece \in Seq(1..Len(text))
               /\ Strip(piece) \in Seq(Nat) /\ Strip(piece) \in Seq(1..Len(text))
               /\ last' = Compact(Strip(piece)) /\ last' \in Seq(1..Len(text))
               /\ shown' = shown \o last' /\ reads' = Append(reads, Len(text))
               /\ UNCHANGED text
<1> DEFINE piece == Positions(ReadUpTo, Len(text))
<1>1. ReadUpTo \in Nat /\ Len(text) \in Nat /\ ReadUpTo < Len(text)
  BY LenProperties DEF TextInv, Read
<1>2. piece \in Seq((ReadUpTo + 1)..Len(text))
  BY <1>1, PositionsType
<1>3. (ReadUpTo + 1)..Len(text) \subseteq 1..Len(text) /\ 1..Len(text) \subseteq Nat
  BY <1>1
<1>4. piece \in Seq(1..Len(text)) /\ piece \in Seq(Nat)
  BY <1>2, <1>3, SeqMonotonic
<1>5. last' = Compact(Strip(piece)) /\ shown' = shown \o last'
      /\ reads' = Append(reads, Len(text)) /\ UNCHANGED text
  BY DEF Read
<1> HIDE DEF piece
<1>6. Strip(piece) \in Seq(Nat) /\ Strip(piece) \in Seq(1..Len(text))
  BY <1>4, PassKeeps
<1>7. Compact(Strip(piece)) \in Seq(1..Len(text))
  BY <1>6, CompactIsCompact
<1> QED
  BY <1>1, <1>4, <1>5, <1>6, <1>7 DEF piece

\* Every step keeps the reads within the output.
LEMMA TextStep == TextInv /\ [Next]_vars => TextInv'
<1> SUFFICES ASSUME TextInv, [Next]_vars PROVE TextInv'
  OBVIOUS
<1>1. ASSUME NEW c \in Alphabet, Write(c) PROVE TextInv'
  <2>1. /\ text' \in Seq(Classes) /\ Len(text') = Len(text) + 1 /\ Len(text) \in Nat
        /\ UNCHANGED <<reads, last, shown>>
    BY <1>1, Written
  <2>2. 0..Len(text) \subseteq 0..Len(text') /\ 1..Len(text) \subseteq 1..Len(text')
    BY <2>1
  <2>3. /\ reads \in Seq(1..Len(text')) /\ last \in Seq(1..Len(text'))
        /\ shown \in Seq(1..Len(text'))
    BY <2>2, SeqMonotonic DEF TextInv
  <2>4. ReadUpTo' = ReadUpTo /\ ReadUpTo \in 0..Len(text')
    BY <2>1, <2>2 DEF TextInv, ReadUpTo
  <2> QED
    BY <2>1, <2>3, <2>4 DEF TextInv
<1>2. ASSUME Read PROVE TextInv'
  <2>1. /\ Len(text) \in Nat /\ last' \in Seq(1..Len(text)) /\ shown' = shown \o last'
        /\ reads' = Append(reads, Len(text)) /\ UNCHANGED text
    BY <1>2, ReadText
  <2>2. Len(text) \in 0..Len(text) /\ Len(text) \in 1..Len(text)
        /\ reads \in Seq(1..Len(text)) /\ shown \in Seq(1..Len(text))
    BY <1>2, <2>1, ReadText DEF TextInv
  <2>3. /\ reads' \in Seq(1..Len(text)) /\ Len(reads') = Len(reads) + 1
        /\ reads'[Len(reads) + 1] = Len(text) /\ Len(reads) \in Nat
    BY <2>1, <2>2, AppendProperties, LenProperties
  <2>4. shown' \in Seq(1..Len(text))
    BY <2>1, <2>2, ConcatProperties
  <2>5. ReadUpTo' = Len(text)
    <3>1. reads' # <<>>
      BY <2>3
    <3> QED
      BY <2>3, <3>1 DEF ReadUpTo, Last
  <2> QED
    BY <2>1, <2>2, <2>3, <2>4, <2>5 DEF TextInv
<1>3. ASSUME UNCHANGED vars PROVE TextInv'
  BY <1>3 DEF vars, TextInv, ReadUpTo
<1> QED
  BY <1>1, <1>2, <1>3 DEF Next

\* The types of all reachable states.
LEMMA TextInvariant == Spec => []TextInv
<1>1. Init => TextInv
  <2> SUFFICES ASSUME Init PROVE TextInv
    OBVIOUS
  <2>1. text = <<>> /\ reads = <<>> /\ last = <<>> /\ shown = <<>> /\ ReadUpTo = 0
    BY DEF Init, ReadUpTo
  <2>2. Len(<<>>) = 0 /\ \A S : <<>> \in Seq(S)
    BY EmptySeq
  <2> QED
    BY <2>1, <2>2 DEF TextInv
<1> QED
  BY <1>1, TextStep, PTL DEF Spec

\* A result has no noise left, whatever was written and wherever the reads cut it: a
\* second Compact would change nothing (compact.go:61-99).
THEOREM ResultsAreClean == Spec => []CompactedIsClean
<1>1. Init => CompactedIsClean
  <2>1. DOMAIN <<>> = {}
    OBVIOUS
  <2> QED
    BY <2>1 DEF Init, CompactedIsClean, NeedsCompact, Is
<1>2. TextInv /\ CompactedIsClean /\ [Next]_vars => CompactedIsClean'
  <2> SUFFICES ASSUME TextInv, CompactedIsClean, [Next]_vars PROVE CompactedIsClean'
    OBVIOUS
  <2>1. ASSUME NEW c \in Alphabet, Write(c) PROVE CompactedIsClean'
    <3>1. last' = last /\ \A p \in 1..Len(text) : text'[p] = text[p]
      BY <2>1, Written
    <3>2. \A i \in DOMAIN last : last[i] \in 1..Len(text)
      <4>1. last \in Seq(1..Len(text))
        BY DEF TextInv
      <4> QED
        BY <4>1, LenProperties, ElementOfSeq
    <3>3. \A i \in DOMAIN last : text'[last'[i]] = text[last[i]]
      BY <3>1, <3>2
    <3> QED
      BY <3>1, <3>3 DEF CompactedIsClean, NeedsCompact, Is
  <2>2. ASSUME Read PROVE CompactedIsClean'
    <3> DEFINE s == Strip(Positions(ReadUpTo, Len(text)))
    <3>1. s \in Seq(Nat) /\ last' = Compact(s) /\ UNCHANGED text
      BY <2>2, ReadText
    <3> HIDE DEF s
    <3>2. ~NeedsCompact(Compact(s))
      BY <3>1, CompactIsCompact
    <3>3. \A r : r = last' /\ ~NeedsCompact(r) => CompactedIsClean'
      BY <3>1 DEF CompactedIsClean, NeedsCompact, Is
    <3> QED
      BY <3>1, <3>2, <3>3
  <2>3. ASSUME UNCHANGED vars PROVE CompactedIsClean'
    BY <2>3 DEF vars, CompactedIsClean, NeedsCompact, Is
  <2> QED
    BY <2>1, <2>2, <2>3 DEF Next
<1> QED
  BY <1>1, <1>2, TextInvariant, PTL DEF Spec

--------------------------------------------------------------------------------
(* Sequences of positions in the order of the text: what a pass keeps, as a set. *)

Increasing(s) == \A i, j \in DOMAIN s : i < j => s[i] < s[j]

\* The order of the indices is that of the positions.
LEMMA SameOrder ==
    ASSUME NEW s \in Seq(Nat), Increasing(s), NEW i \in DOMAIN s, NEW j \in DOMAIN s
    PROVE  (i < j <=> s[i] < s[j]) /\ (i <= j <=> s[i] <= s[j]) /\ (i = j <=> s[i] = s[j])
<1>1. i \in Nat /\ j \in Nat /\ s[i] \in Nat /\ s[j] \in Nat
  <2>1. DOMAIN s = 1..Len(s) /\ Len(s) \in Nat
    BY LenProperties
  <2> QED
    BY <2>1, ElementOfSeq
<1>2. (i < j => s[i] < s[j]) /\ (j < i => s[j] < s[i])
  BY DEF Increasing
<1> QED
  BY <1>1, <1>2

\* A pass keeps the order, and of the positions those at the indices it keeps.
LEMMA KeepAtSet ==
    ASSUME NEW s \in Seq(Nat), Increasing(s), NEW keep
    PROVE  LET r == KeepAt(s, keep)
           IN  /\ r \in Seq(Nat) /\ Increasing(r) /\ ToSet(r) \subseteq ToSet(s)
               /\ \A i \in DOMAIN s : s[i] \in ToSet(r) <=> i \in keep
<1> DEFINE r == KeepAt(s, keep)
<1>1. PICK e : Picks(s, keep, Len(s), r, e)
  BY KeepAtPicks
<1> HIDE DEF r
<1>2. /\ r \in Seq(Nat) /\ e \in [1..Len(r) -> 1..Len(s)]
      /\ DOMAIN r = 1..Len(r) /\ DOMAIN s = 1..Len(s)
      /\ \A j \in 1..Len(r) : e[j] \in keep /\ r[j] = s[e[j]]
      /\ \A j, k \in 1..Len(r) : j < k => e[j] < e[k]
      /\ \A i \in 1..Len(s) : i \in keep => \E j \in 1..Len(r) : e[j] = i
  BY <1>1, LenProperties DEF Picks
<1>3. Increasing(r)
  BY <1>2 DEF Increasing
<1>4. ToSet(r) \subseteq ToSet(s)
  BY <1>2 DEF ToSet
<1>5. ASSUME NEW i \in DOMAIN s, s[i] \in ToSet(r) PROVE i \in keep
  <2>1. PICK j \in 1..Len(r) : r[j] = s[i]
    BY <1>2, <1>5 DEF ToSet
  <2>2. e[j] \in DOMAIN s /\ e[j] \in keep /\ s[e[j]] = s[i]
    BY <1>2, <2>1
  <2>3. e[j] = i
    BY <2>2, SameOrder
  <2> QED
    BY <2>2, <2>3
<1>6. ASSUME NEW i \in DOMAIN s, i \in keep PROVE s[i] \in ToSet(r)
  <2>1. PICK j \in 1..Len(r) : e[j] = i
    BY <1>2, <1>6
  <2>2. r[j] = s[i] /\ j \in DOMAIN r
    BY <1>2, <2>1
  <2> QED
    BY <2>2 DEF ToSet
<1> QED
  BY <1>2, <1>3, <1>4, <1>5, <1>6 DEF r

\* The set of its positions determines the sequence.
LEMMA SetDetermines ==
    ASSUME NEW s \in Seq(Nat), Increasing(s), NEW t \in Seq(Nat), Increasing(t),
           ToSet(s) = ToSet(t)
    PROVE  s = t
<1>0. /\ DOMAIN s = 1..Len(s) /\ Len(s) \in Nat /\ \A i \in 1..Len(s) : s[i] \in Nat
      /\ DOMAIN t = 1..Len(t) /\ Len(t) \in Nat /\ \A i \in 1..Len(t) : t[i] \in Nat
  BY LenProperties, ElementOfSeq
<1> DEFINE Agree(i) == i \in DOMAIN s /\ i \in DOMAIN t /\ s[i] = t[i]
           Bad == {i \in DOMAIN s \cup DOMAIN t : ~Agree(i)}
<1>1. ASSUME Bad # {} PROVE FALSE
  <2>1. Bad \in SUBSET Nat
    BY <1>0
  <2>2. PICK m \in Bad : \A i \in Bad : m <= i
    BY <1>1, <2>1, LeastNumber
  <2>3. m \in Nat /\ m >= 1 /\ (m \in DOMAIN s \/ m \in DOMAIN t) /\ ~Agree(m)
    BY <1>0, <2>2
  <2>4. \A i \in DOMAIN s \cup DOMAIN t : i < m => Agree(i)
    BY <1>0, <2>2, <2>3
  <2>5. ASSUME m \in DOMAIN s PROVE m \in DOMAIN t /\ t[m] <= s[m]
    <3>1. PICK k \in DOMAIN t : t[k] = s[m]
      BY <2>5 DEF ToSet
    <3>2. ~(k < m)
      <4>1. ASSUME k < m PROVE FALSE
        <5>1. k \in DOMAIN s /\ s[k] = s[m]
          BY <2>4, <3>1, <4>1
        <5>2. k = m
          BY <2>5, <5>1, SameOrder
        <5> QED
          BY <2>3, <4>1, <5>2
      <4> QED
        BY <4>1
    <3>3. m <= k /\ m \in DOMAIN t
      BY <1>0, <2>3, <3>1, <3>2
    <3> QED
      BY <3>1, <3>3, SameOrder
  <2>6. ASSUME m \in DOMAIN t PROVE m \in DOMAIN s /\ s[m] <= t[m]
    <3>1. PICK k \in DOMAIN s : s[k] = t[m]
      BY <2>6 DEF ToSet
    <3>2. ~(k < m)
      <4>1. ASSUME k < m PROVE FALSE
        <5>1. k \in DOMAIN t /\ t[k] = t[m]
          BY <2>4, <3>1, <4>1
        <5>2. k = m
          BY <2>6, <5>1, SameOrder
        <5> QED
          BY <2>3, <4>1, <5>2
      <4> QED
        BY <4>1
    <3>3. m <= k /\ m \in DOMAIN s
      BY <1>0, <2>3, <3>1, <3>2
    <3> QED
      BY <3>1, <3>3, SameOrder
  <2>7. m \in DOMAIN s /\ m \in DOMAIN t /\ t[m] <= s[m] /\ s[m] <= t[m]
    BY <2>3, <2>5, <2>6
  <2>8. s[m] = t[m]
    BY <1>0, <2>7
  <2> QED
    BY <2>3, <2>7, <2>8
<1>2. \A i \in DOMAIN s \cup DOMAIN t : Agree(i)
  BY <1>1
<1>3. DOMAIN s = DOMAIN t /\ \A i \in DOMAIN s : s[i] = t[i]
  BY <1>2
<1>4. s = [i \in DOMAIN s |-> s[i]] /\ t = [i \in DOMAIN t |-> t[i]]
  BY LenProperties
<1> QED
  BY <1>3, <1>4

\* Nothing of s lies between p and q.
Adjacent(s, p, q) == p < q /\ \A x \in ToSet(s) : ~(p < x /\ x < q)

\* The element after s[i] is the next position.
LEMMA NextPosition ==
    ASSUME NEW s \in Seq(Nat), Increasing(s), NEW i \in DOMAIN s, NEW class
    PROVE  Is(s, i + 1, class)
               <=> \E q \in ToSet(s) : Adjacent(s, s[i], q) /\ text[q] = class
<1>0. DOMAIN s = 1..Len(s) /\ Len(s) \in Nat /\ \A k \in 1..Len(s) : s[k] \in Nat
  BY LenProperties, ElementOfSeq
<1>1. ASSUME Is(s, i + 1, class)
      PROVE  \E q \in ToSet(s) : Adjacent(s, s[i], q) /\ text[q] = class
  <2>1. i + 1 \in DOMAIN s /\ text[s[i + 1]] = class /\ i < i + 1
    BY <1>0, <1>1 DEF Is
  <2>2. s[i + 1] \in ToSet(s) /\ s[i] < s[i + 1]
    BY <2>1, SameOrder DEF ToSet
  <2>3. ASSUME NEW x \in ToSet(s), s[i] < x, x < s[i + 1] PROVE FALSE
    <3>1. PICK k \in DOMAIN s : s[k] = x
      BY DEF ToSet
    <3>2. i < k /\ k < i + 1
      BY <2>1, <2>3, <3>1, SameOrder
    <3> QED
      BY <1>0, <3>2
  <2> QED
    BY <2>1, <2>2, <2>3 DEF Adjacent
<1>2. ASSUME NEW q \in ToSet(s), Adjacent(s, s[i], q), text[q] = class
      PROVE  Is(s, i + 1, class)
  <2>1. PICK k \in DOMAIN s : s[k] = q
    BY DEF ToSet
  <2>2. i < k
    BY <1>2, <2>1, SameOrder DEF Adjacent
  <2>3. i + 1 \in DOMAIN s /\ i < i + 1 /\ (i + 1 < k \/ i + 1 = k)
    BY <1>0, <2>1, <2>2
  <2>4. ASSUME i + 1 < k PROVE FALSE
    <3>1. s[i] < s[i + 1] /\ s[i + 1] < s[k] /\ s[i + 1] \in ToSet(s)
      BY <2>3, <2>4, SameOrder DEF ToSet
    <3> QED
      BY <1>2, <2>1, <3>1 DEF Adjacent
  <2>5. i + 1 = k
    BY <2>3, <2>4
  <2> QED
    BY <1>2, <2>1, <2>5 DEF Is
<1> QED
  BY <1>1, <1>2

\* Every pass keeps the order.
LEMMA PassOrder ==
    ASSUME NEW s \in Seq(Nat), Increasing(s), NEW r,
           \/ r = DropControl(s) \/ r = NormalizeCRLF(s) \/ r = AfterLastCR(s)
           \/ r = TrimLines(s) \/ r = FoldBlank(s) \/ r = TrimLeft(s) \/ r = TrimEnd(s)
           \/ r = Strip(s)
    PROVE  r \in Seq(Nat) /\ Increasing(r) /\ ToSet(r) \subseteq ToSet(s)
<1>1. (\E keep : r = KeepAt(s, keep)) \/ r = s
  BY DEF DropControl, NormalizeCRLF, AfterLastCR, TrimLines, FoldBlank, TrimLeft, TrimEnd,
         Strip
<1> QED
  BY <1>1, KeepAtSet

\* Strip keeps what is not part of an escape sequence.
LEMMA StripSet ==
    ASSUME NEW s \in Seq(Nat), Increasing(s), NEW i \in DOMAIN s
    PROVE  s[i] \in ToSet(Strip(s)) <=> ~InEscape(s, i)
<1> DEFINE keep == {k \in DOMAIN s : ~InEscape(s, k)}
<1>1. i \in keep <=> ~InEscape(s, i)
  OBVIOUS
<1> HIDE DEF keep
<1>2. s[i] \in ToSet(KeepAt(s, keep)) <=> i \in keep
  BY KeepAtSet
<1> QED
  BY <1>1, <1>2 DEF Strip, keep

\* Control characters are dropped, and what is left of an escape sequence.
LEMMA DropControlSet ==
    ASSUME NEW s \in Seq(Nat), Increasing(s), NEW q \in ToSet(s)
    PROVE  q \in ToSet(DropControl(s)) <=> text[q] \notin Control
<1> DEFINE keep == {k \in DOMAIN s : text[s[k]] \notin Control}
<1>1. PICK i \in DOMAIN s : s[i] = q
  BY DEF ToSet
<1>2. i \in keep <=> text[q] \notin Control
  BY <1>1
<1> HIDE DEF keep
<1>3. s[i] \in ToSet(KeepAt(s, keep)) <=> i \in keep
  BY KeepAtSet
<1> QED
  BY <1>1, <1>2, <1>3 DEF DropControl, keep

\* A carriage return goes with the newline behind it.
LEMMA NormalizeSet ==
    ASSUME NEW s \in Seq(Nat), Increasing(s), NEW q \in ToSet(s)
    PROVE  q \in ToSet(NormalizeCRLF(s))
              <=> ~(text[q] = "cr" /\ \E n \in ToSet(s) : Adjacent(s, q, n) /\ text[n] = "nl")
<1> DEFINE keep == {k \in DOMAIN s : ~(Is(s, k, "cr") /\ Is(s, k + 1, "nl"))}
<1>1. PICK i \in DOMAIN s : s[i] = q
  BY DEF ToSet
<1>2. i \in keep <=> ~(text[q] = "cr" /\ Is(s, i + 1, "nl"))
  BY <1>1 DEF Is
<1>3. Is(s, i + 1, "nl") <=> \E n \in ToSet(s) : Adjacent(s, q, n) /\ text[n] = "nl"
  BY <1>1, NextPosition
<1> HIDE DEF keep
<1>4. s[i] \in ToSet(KeepAt(s, keep)) <=> i \in keep
  BY KeepAtSet
<1> QED
  BY <1>1, <1>2, <1>3, <1>4 DEF NormalizeCRLF, keep

\* What stays ends a line before the next carriage return.
LEMMA CutSet ==
    ASSUME NEW s \in Seq(Nat), Increasing(s), NEW q \in ToSet(s)
    PROVE  q \in ToSet(AfterLastCR(s))
              <=> \A c \in ToSet(s) : q <= c /\ text[c] = "cr" =>
                     \E n \in ToSet(s) : q <= n /\ n <= c /\ text[n] = "nl"
<1>0. DOMAIN s = 1..Len(s) /\ Len(s) \in Nat
  BY LenProperties
<1> DEFINE Good(k) == \A j \in k..Len(s) :
                         Is(s, j, "cr") => \E m \in k..j : Is(s, m, "nl")
           keep == {k \in DOMAIN s : Good(k)}
<1>1. PICK i \in DOMAIN s : s[i] = q
  BY DEF ToSet
<1>2. ASSUME Good(i), NEW c \in ToSet(s), q <= c, text[c] = "cr"
      PROVE  \E n \in ToSet(s) : q <= n /\ n <= c /\ text[n] = "nl"
  <2>1. PICK j \in DOMAIN s : s[j] = c
    BY DEF ToSet
  <2>2. i <= j
    BY <1>1, <1>2, <2>1, SameOrder
  <2>3. j \in i..Len(s) /\ Is(s, j, "cr")
    BY <1>0, <1>2, <2>1, <2>2 DEF Is
  <2>4. PICK m \in i..j : Is(s, m, "nl")
    BY <1>2, <2>3
  <2>5. m \in DOMAIN s /\ i <= m /\ m <= j /\ text[s[m]] = "nl"
    BY <1>0, <2>4 DEF Is
  <2>6. q <= s[m] /\ s[m] <= c /\ s[m] \in ToSet(s)
    BY <1>1, <2>1, <2>5, SameOrder DEF ToSet
  <2> QED
    BY <2>5, <2>6
<1>3. ASSUME \A c \in ToSet(s) : q <= c /\ text[c] = "cr" =>
                \E n \in ToSet(s) : q <= n /\ n <= c /\ text[n] = "nl"
      PROVE  Good(i)
  <2> SUFFICES ASSUME NEW j \in i..Len(s), Is(s, j, "cr")
               PROVE  \E m \in i..j : Is(s, m, "nl")
    OBVIOUS
  <2>1. j \in DOMAIN s /\ text[s[j]] = "cr" /\ i <= j
    BY <1>0, <1>1 DEF Is
  <2>2. s[j] \in ToSet(s) /\ q <= s[j]
    BY <1>1, <2>1, SameOrder DEF ToSet
  <2>3. PICK n \in ToSet(s) : q <= n /\ n <= s[j] /\ text[n] = "nl"
    BY <1>3, <2>1, <2>2
  <2>4. PICK m \in DOMAIN s : s[m] = n
    BY DEF ToSet
  <2>5. i <= m /\ m <= j
    BY <1>1, <2>1, <2>3, <2>4, SameOrder
  <2>6. m \in i..j
    BY <1>0, <2>1, <2>4, <2>5
  <2> QED
    BY <2>3, <2>4, <2>6 DEF Is
<1>4. i \in keep <=> Good(i)
  OBVIOUS
<1> HIDE DEF Good
<1>5. s[i] \in ToSet(KeepAt(s, keep)) <=> i \in keep
  BY KeepAtSet
<1> QED
  BY <1>1, <1>2, <1>3, <1>4, <1>5 DEF AfterLastCR, Good

\* The last passes drop nothing but blanks and newlines.
LEMMA TrimSets ==
    ASSUME NEW s \in Seq(Nat), Increasing(s), NEW q \in ToSet(s)
    PROVE  /\ text[q] # "sp" => q \in ToSet(TrimLines(s))
           /\ text[q] # "nl" => /\ q \in ToSet(FoldBlank(s)) /\ q \in ToSet(TrimLeft(s))
                                /\ q \in ToSet(TrimEnd(s))
<1>0. DOMAIN s = 1..Len(s) /\ Len(s) \in Nat
  BY LenProperties
<1>1. PICK i \in DOMAIN s : s[i] = q
  BY DEF ToSet
<1>k. ASSUME NEW keep, i \in keep PROVE q \in ToSet(KeepAt(s, keep))
  BY <1>1, <1>k, KeepAtSet
<1>2. ASSUME text[q] # "sp" PROVE q \in ToSet(TrimLines(s))
  <2>1. ~Is(s, i, "sp")
    BY <1>1, <1>2 DEF Is
  <2> QED
    BY <1>k, <2>1 DEF TrimLines
<1>3. ASSUME text[q] # "nl" PROVE q \in ToSet(FoldBlank(s))
  <2>1. i \in (i - 2)..i
    BY <1>0, <1>1
  <2>2. ~All(s, i - 2, i, {"nl"})
    BY <1>1, <1>3, <2>1 DEF All
  <2> QED
    BY <1>k, <2>2 DEF FoldBlank
<1>4. ASSUME text[q] # "nl" PROVE q \in ToSet(TrimLeft(s))
  <2>1. i \in 1..i
    BY <1>0, <1>1
  <2>2. ~All(s, 1, i, {"nl"})
    BY <1>1, <1>4, <2>1 DEF All
  <2> QED
    BY <1>k, <2>2 DEF TrimLeft
<1>5. ASSUME text[q] # "nl" PROVE q \in ToSet(TrimEnd(s))
  <2>1. i \in i..Len(s)
    BY <1>0, <1>1
  <2>2. ~All(s, i, Len(s), {"nl"})
    BY <1>1, <1>5, <2>1 DEF All
  <2> QED
    BY <1>k, <2>2 DEF TrimEnd
<1> QED
  BY <1>2, <1>3, <1>4, <1>5

\* Escape sequences have no newlines.
LEMMA SequenceClasses ==
    ASSUME NEW s \in Seq(Nat), NEW from \in DOMAIN s, NEW to \in DOMAIN s, from < to,
           Sequence(s, from, to), NEW i \in from..to
    PROVE  text[s[i]] # "nl"
<1>0. DOMAIN s = 1..Len(s) /\ Len(s) \in Nat
  BY LenProperties
<1>1. CASE i = from
  BY <1>1 DEF Sequence, Is
<1>2. CASE i # from /\ CSI(s, from, to)
  <2>1. PICK mid \in (from + 2)..to :
           All(s, from + 2, mid - 1, {"dig"}) /\ All(s, mid, to - 1, Marks \cup {"sp"})
    BY <1>2 DEF CSI
  <2>2. text[s[to]] # "nl" /\ text[s[from + 1]] # "nl"
    BY <1>2 DEF CSI, Is, Finals
  <2>3. /\ from \in Int /\ to \in Int /\ i \in Int /\ mid \in Int
        /\ from <= i /\ i <= to /\ i # from
    BY <1>0, <1>2, <2>1
  <2>4. i = from + 1 \/ i \in (from + 2)..(mid - 1) \/ i \in mid..(to - 1) \/ i = to
    BY SMTT(30), <2>3
  <2> QED
    BY <2>1, <2>2, <2>4 DEF All, Marks
<1>3. CASE i # from /\ OSC(s, from, to)
  <2>1. text[s[to]] # "nl" /\ text[s[from + 1]] # "nl"
    BY <1>3 DEF OSC, EndsOSC, Is
  <2>2. i = from + 1 \/ i \in (from + 2)..(to - 1) \/ i = to
    BY SMTT(30), <1>0, <1>3
  <2> QED
    BY <1>3, <2>1, <2>2 DEF OSC
<1>4. CASE i # from /\ TwoBytes(s, from, to)
  <2>1. text[s[to]] # "nl"
    BY <1>4 DEF TwoBytes, Finals
  <2>2. i \in (from + 1)..(to - 1) \/ i = to
    BY SMTT(30), <1>0, <1>4
  <2> QED
    BY <1>4, <2>1, <2>2 DEF TwoBytes, All, Marks
<1> QED
  BY <1>1, <1>2, <1>3, <1>4 DEF Sequence

LEMMA EscapeClasses ==
    ASSUME NEW s \in Seq(Nat), NEW i \in DOMAIN s, InEscape(s, i)
    PROVE  text[s[i]] # "nl"
<1>0. DOMAIN s = 1..Len(s) /\ Len(s) \in Nat
  BY LenProperties
<1>1. PICK from \in 1..i, to \in i..Len(s) : from < to /\ Sequence(s, from, to)
  BY DEF InEscape
<1>2. from \in DOMAIN s /\ to \in DOMAIN s /\ i \in from..to
  BY <1>0
<1> QED
  BY <1>1, <1>2, SequenceClasses

--------------------------------------------------------------------------------
(* What a read shows. *)

\* What of s is neither a control character nor part of an escape sequence.
Plain(s) == DropControl(Strip(s))

LEMMA PlainSet ==
    ASSUME NEW s \in Seq(Nat), Increasing(s)
    PROVE  /\ Plain(s) \in Seq(Nat) /\ Increasing(Plain(s)) /\ ToSet(Plain(s)) \subseteq ToSet(s)
           /\ \A i \in DOMAIN s : s[i] \in ToSet(Plain(s))
                                     <=> ~(text[s[i]] \in Control \/ InEscape(s, i))
           /\ \A q \in ToSet(s) : text[q] = "nl" => q \in ToSet(Plain(s))
<1>1. Strip(s) \in Seq(Nat) /\ Increasing(Strip(s)) /\ ToSet(Strip(s)) \subseteq ToSet(s)
  BY PassOrder
<1>2. /\ Plain(s) \in Seq(Nat) /\ Increasing(Plain(s))
      /\ ToSet(Plain(s)) \subseteq ToSet(Strip(s))
  BY <1>1, PassOrder DEF Plain
<1>3. ASSUME NEW i \in DOMAIN s
      PROVE  s[i] \in ToSet(Plain(s)) <=> ~(text[s[i]] \in Control \/ InEscape(s, i))
  <2>1. s[i] \in ToSet(Strip(s)) <=> ~InEscape(s, i)
    BY StripSet
  <2>2. s[i] \in ToSet(Strip(s)) =>
           (s[i] \in ToSet(Plain(s)) <=> text[s[i]] \notin Control)
    BY <1>1, DropControlSet DEF Plain
  <2> QED
    BY <1>2, <2>1, <2>2
<1>4. ASSUME NEW q \in ToSet(s), text[q] = "nl" PROVE q \in ToSet(Plain(s))
  <2>1. PICK i \in DOMAIN s : s[i] = q
    BY DEF ToSet
  <2>2. ~InEscape(s, i) /\ text[s[i]] \notin Control
    BY <1>4, <2>1, EscapeClasses DEF Control
  <2> QED
    BY <1>3, <2>1, <2>2
<1> QED
  BY <1>1, <1>2, <1>3, <1>4

\* A carriage return at c leaves alone what is at q: q's line ended, or c is, but for
\* control characters and escape sequences, followed by a newline.
Harmless(s, q, c) ==
    \/ \E n \in ToSet(s) : q <= n /\ n <= c /\ text[n] = "nl"
    \/ \E n \in ToSet(s) : Adjacent(Plain(s), c, n) /\ text[n] = "nl"

\* s[i] is visible, and its line is not returned to.
Final(s, i) ==
    text[s[i]] \in Visible /\ ~InEscape(s, i) /\ NotReturnedTo(s, i)

\* Final, said of positions.
LEMMA FinalPositions ==
    ASSUME NEW s \in Seq(Nat), Increasing(s), NEW i \in DOMAIN s
    PROVE  Final(s, i) <=>
              /\ text[s[i]] \in Visible /\ ~InEscape(s, i)
              /\ \A c \in ToSet(s) : c \in ToSet(Plain(s)) /\ s[i] < c /\ text[c] = "cr" => Harmless(s, s[i], c)
<1>0. DOMAIN s = 1..Len(s) /\ Len(s) \in Nat
  BY LenProperties
<1>1. ASSUME NEW j \in (i + 1)..Len(s), Returns(s, j)
      PROVE  \/ ~SameLine(s, i, j)
             \/ \E k \in (j + 1)..Len(s) : Is(s, k, "nl")
                   /\ \A m \in (j + 1)..(k - 1) : text[s[m]] \in Control \/ InEscape(s, m)
             <=> Harmless(s, s[i], s[j])
  <2>1. j \in DOMAIN s /\ i < j
    BY <1>0
  <2>2. (\E k \in i..j : Is(s, k, "nl"))
           <=> \E n \in ToSet(s) : s[i] <= n /\ n <= s[j] /\ text[n] = "nl"
    <3>1. ASSUME NEW k \in i..j, Is(s, k, "nl")
          PROVE  \E n \in ToSet(s) : s[i] <= n /\ n <= s[j] /\ text[n] = "nl"
      <4>1. k \in DOMAIN s /\ text[s[k]] = "nl" /\ i <= k /\ k <= j
        BY <1>0, <3>1 DEF Is
      <4>2. s[i] <= s[k] /\ s[k] <= s[j] /\ s[k] \in ToSet(s)
        BY <2>1, <4>1, SameOrder DEF ToSet
      <4> QED
        BY <4>1, <4>2
    <3>2. ASSUME NEW n \in ToSet(s), s[i] <= n, n <= s[j], text[n] = "nl"
          PROVE  \E k \in i..j : Is(s, k, "nl")
      <4>1. PICK k \in DOMAIN s : s[k] = n
        BY DEF ToSet
      <4>2. i <= k /\ k <= j
        BY <2>1, <3>2, <4>1, SameOrder
      <4>3. k \in i..j
        BY <1>0, <4>1, <4>2
      <4> QED
        BY <3>2, <4>1, <4>3 DEF Is
    <3> QED
      BY <3>1, <3>2
  <2>3. ASSUME NEW k \in (j + 1)..Len(s), Is(s, k, "nl"),
               \A m \in (j + 1)..(k - 1) : text[s[m]] \in Control \/ InEscape(s, m)
        PROVE  \E n \in ToSet(s) : Adjacent(Plain(s), s[j], n) /\ text[n] = "nl"
    <3>1. k \in DOMAIN s /\ text[s[k]] = "nl" /\ j < k
      BY <1>0, <2>1, <2>3 DEF Is
    <3>2. s[j] < s[k] /\ s[k] \in ToSet(s)
      BY <2>1, <3>1, SameOrder DEF ToSet
    <3>3. ASSUME NEW x \in ToSet(Plain(s)), s[j] < x, x < s[k] PROVE FALSE
      <4>1. PICK m \in DOMAIN s : s[m] = x
        BY ZenonT(30), PlainSet DEF ToSet
      <4>2. j < m /\ m < k
        BY <2>1, <3>1, <3>3, <4>1, SameOrder
      <4>3. m \in (j + 1)..(k - 1)
        BY <1>0, <2>1, <3>1, <4>1, <4>2
      <4>4. text[s[m]] \in Control \/ InEscape(s, m)
        BY <2>3, <4>3
      <4> QED
        BY <3>3, <4>1, <4>4, PlainSet
    <3> QED
      BY <3>1, <3>2, <3>3 DEF Adjacent
  <2>4. ASSUME NEW n \in ToSet(s), Adjacent(Plain(s), s[j], n), text[n] = "nl"
        PROVE  \E k \in (j + 1)..Len(s) : Is(s, k, "nl")
                  /\ \A m \in (j + 1)..(k - 1) : text[s[m]] \in Control \/ InEscape(s, m)
    <3>1. PICK k \in DOMAIN s : s[k] = n
      BY DEF ToSet
    <3>2. j < k
      BY <2>1, <2>4, <3>1, SameOrder DEF Adjacent
    <3>3. k \in (j + 1)..Len(s) /\ Is(s, k, "nl")
      BY <1>0, <2>1, <2>4, <3>1, <3>2 DEF Is
    <3>4. ASSUME NEW m \in (j + 1)..(k - 1) PROVE text[s[m]] \in Control \/ InEscape(s, m)
      <4>1. m \in DOMAIN s /\ j < m /\ m < k
        BY SMTT(30), <1>0, <2>1, <3>1
      <4>2. s[j] < s[m] /\ s[m] < s[k]
        BY <2>1, <3>1, <4>1, SameOrder
      <4>3. s[m] \notin ToSet(Plain(s))
        BY <2>4, <3>1, <4>2 DEF Adjacent
      <4> QED
        BY <4>1, <4>3, PlainSet
    <3> QED
      BY <3>3, <3>4
  <2> QED
    BY <2>2, <2>3, <2>4 DEF Harmless, SameLine
<1>2. (\A j \in (i + 1)..Len(s) : Returns(s, j) => Harmless(s, s[i], s[j]))
         <=> \A c \in ToSet(s) : c \in ToSet(Plain(s)) /\ s[i] < c /\ text[c] = "cr" => Harmless(s, s[i], c)
  <2>1. ASSUME NEW j \in (i + 1)..Len(s), Returns(s, j)
        PROVE  s[j] \in ToSet(s) /\ s[j] \in ToSet(Plain(s)) /\ s[i] < s[j] /\ text[s[j]] = "cr"
    <3>1. j \in DOMAIN s /\ i < j
      BY <1>0
    <3> QED
      BY <2>1, <3>1, SameOrder, PlainSet DEF Returns, Is, Control, ToSet
  <2>2. ASSUME NEW c \in ToSet(s), c \in ToSet(Plain(s)), s[i] < c, text[c] = "cr"
        PROVE  \E j \in (i + 1)..Len(s) : s[j] = c /\ Returns(s, j)
    <3>1. PICK j \in DOMAIN s : s[j] = c
      BY DEF ToSet
    <3>2. i < j
      BY <2>2, <3>1, SameOrder
    <3> QED
      <4>1. ~InEscape(s, j)
        BY <2>2, <3>1, PlainSet
      <4>2. j \in (i + 1)..Len(s)
        BY <1>0, <3>1, <3>2
      <4> QED
        BY <2>2, <3>1, <4>1, <4>2 DEF Returns, Is
  <2> QED
    BY <2>1, <2>2
<1> QED
  BY <1>1, <1>2 DEF Final, NotReturnedTo

\* Of the letters and digits of a read Compact and Strip keep those that are final.
LEMMA FinalSet ==
    ASSUME NEW s \in Seq(Nat), Increasing(s), NEW i \in DOMAIN s, text[s[i]] \in Visible
    PROVE  s[i] \in ToSet(Compact(Strip(s))) <=> Final(s, i)
<1> DEFINE p == s[i]  s0 == Strip(s)
<1>p. p \in ToSet(s) /\ p \in Nat /\ text[p] \in Visible
  BY LenProperties, ElementOfSeq DEF ToSet
<1>c. \A c \in ToSet(s) : c \in Nat
  BY LenProperties, ElementOfSeq DEF ToSet
<1>0. s0 \in Seq(Nat) /\ Increasing(s0) /\ ToSet(s0) \subseteq ToSet(s)
  BY PassOrder
<1>1. p \in ToSet(s0) <=> ~InEscape(s, i)
  BY StripSet
<1>2. CASE ~NeedsCompact(s0)
  <2>1. Compact(s0) = s0
    BY <1>2 DEF Compact
  <2>2. ASSUME NEW c \in ToSet(Plain(s)), text[c] = "cr" PROVE FALSE
    <3>3. c \in ToSet(s0)
      BY <1>0, PassOrder DEF Plain
    <3>4. Free(s0, {"cr"})
      BY <1>2, CompactParts
    <3> QED
      BY <2>2, <3>3, <3>4 DEF Free, ToSet
  <2> QED
    BY <1>1, <2>1, <2>2, FinalPositions
<1>3. CASE NeedsCompact(s0)
  <2> DEFINE s1 == Plain(s)  s2 == NormalizeCRLF(s1)  s3 == AfterLastCR(s2)
             s4 == TrimLines(s3)  s5 == FoldBlank(s4)  s6 == TrimLeft(s5)  s7 == TrimEnd(s6)
  <2>1. Compact(s0) = s7
    BY <1>3 DEF Compact, Plain
  <2>2. /\ s1 \in Seq(Nat) /\ Increasing(s1) /\ ToSet(s1) \subseteq ToSet(s)
        /\ p \in ToSet(s1) <=> ~InEscape(s, i)
        /\ \A q \in ToSet(s) : text[q] = "nl" => q \in ToSet(s1)
    BY PlainSet DEF Visible, Finals, Marks, Control
  <2>h. \A c : Harmless(s, p, c) <=>
           \/ \E n \in ToSet(s) : p <= n /\ n <= c /\ text[n] = "nl"
           \/ \E n \in ToSet(s) : Adjacent(s1, c, n) /\ text[n] = "nl"
    BY DEF Harmless
  <2> HIDE DEF s1
  <2>3. /\ s2 \in Seq(Nat) /\ Increasing(s2) /\ ToSet(s2) \subseteq ToSet(s1)
        /\ \A q \in ToSet(s1) : q \in ToSet(s2) <=>
              ~(text[q] = "cr"
                   /\ \E n \in ToSet(s1) : Adjacent(s1, q, n) /\ text[n] = "nl")
    BY <2>2, PassOrder, NormalizeSet
  <2> HIDE DEF s2
  <2>4. /\ s3 \in Seq(Nat) /\ Increasing(s3) /\ ToSet(s3) \subseteq ToSet(s2)
        /\ \A q \in ToSet(s2) : q \in ToSet(s3) <=>
              \A c \in ToSet(s2) : q <= c /\ text[c] = "cr" =>
                 \E n \in ToSet(s2) : q <= n /\ n <= c /\ text[n] = "nl"
    BY <2>3, PassOrder, CutSet
  <2> HIDE DEF s3
  <2>5. s4 \in Seq(Nat) /\ Increasing(s4) /\ ToSet(s4) \subseteq ToSet(s3)
        /\ (p \in ToSet(s3) => p \in ToSet(s4))
    BY <1>p, <2>4, PassOrder, TrimSets DEF Visible, Finals, Marks
  <2> HIDE DEF s4
  <2>6. s5 \in Seq(Nat) /\ Increasing(s5) /\ ToSet(s5) \subseteq ToSet(s4)
        /\ (p \in ToSet(s4) => p \in ToSet(s5))
    BY <1>p, <2>5, PassOrder, TrimSets DEF Visible, Finals, Marks
  <2> HIDE DEF s5
  <2>7. s6 \in Seq(Nat) /\ Increasing(s6) /\ ToSet(s6) \subseteq ToSet(s5)
        /\ (p \in ToSet(s5) => p \in ToSet(s6))
    BY <1>p, <2>6, PassOrder, TrimSets DEF Visible, Finals, Marks
  <2> HIDE DEF s6
  <2>8. ToSet(s7) \subseteq ToSet(s6) /\ (p \in ToSet(s6) => p \in ToSet(s7))
    BY <1>p, <2>7, PassOrder, TrimSets DEF Visible, Finals, Marks
  <2> HIDE DEF s7
  <2>9. p \in ToSet(s7) <=> p \in ToSet(s3)
    BY <2>5, <2>6, <2>7, <2>8
  <2>10. p \in ToSet(s2) <=> ~InEscape(s, i)
    BY <1>p, <2>2, <2>3 DEF Visible, Finals, Marks
  <2>11. ASSUME \A c \in ToSet(s2) : p <= c /\ text[c] = "cr" =>
                   \E n \in ToSet(s2) : p <= n /\ n <= c /\ text[n] = "nl",
                NEW c \in ToSet(s), c \in ToSet(s1), p < c, text[c] = "cr"
         PROVE  Harmless(s, p, c)
    <3>1. c \in ToSet(s1) /\ p <= c
      BY <1>c, <1>p, <2>2, <2>11
    <3>2. CASE c \in ToSet(s2)
      BY <2>2, <2>3, <2>11, <2>h, <3>1, <3>2
    <3>3. CASE c \notin ToSet(s2)
      BY <2>2, <2>3, <2>h, <3>1, <3>3
    <3> QED
      BY <3>2, <3>3
  <2>12. ASSUME \A c \in ToSet(s) : c \in ToSet(s1) /\ p < c /\ text[c] = "cr" => Harmless(s, p, c),
                NEW c \in ToSet(s2), p <= c, text[c] = "cr"
         PROVE  \E n \in ToSet(s2) : p <= n /\ n <= c /\ text[n] = "nl"
    <3>1. c \in ToSet(s1) /\ c \in ToSet(s) /\ c # p
      BY <1>p, <2>2, <2>3, <2>12 DEF Visible, Finals, Marks
    <3>2. p < c
      BY <1>c, <1>p, <2>12, <3>1
    <3>3. Harmless(s, p, c)
      BY <2>12, <3>1, <3>2
    <3>4. ~\E n \in ToSet(s) : Adjacent(s1, c, n) /\ text[n] = "nl"
      BY <2>2, <2>3, <2>12, <3>1
    <3>5. PICK n \in ToSet(s) : p <= n /\ n <= c /\ text[n] = "nl"
      BY <2>h, <3>3, <3>4
    <3>6. n \in ToSet(s2)
      BY <2>2, <2>3, <3>5
    <3> QED
      BY <3>5, <3>6
  <2>13. p \in ToSet(s3) <=>
            ~InEscape(s, i) /\ \A c \in ToSet(s) : c \in ToSet(s1) /\ p < c /\ text[c] = "cr" => Harmless(s, p, c)
    BY <2>4, <2>10, <2>11, <2>12
  <2> QED
    BY <1>p, <2>1, <2>9, <2>13, FinalPositions DEF s1
<1> QED
  BY <1>2, <1>3

\* A read shows, of its text, exactly what is final, in order.
LEMMA FinalShown ==
    ASSUME NEW s \in Seq(Nat), Increasing(s)
    PROVE  /\ VisibleOf(Compact(Strip(s))) = KeepAt(s, {i \in DOMAIN s : Final(s, i)})
           /\ Compact(Strip(s)) \in Seq(Nat) /\ Increasing(Compact(Strip(s)))
           /\ ToSet(Compact(Strip(s))) \subseteq ToSet(s)
<1> DEFINE r == Compact(Strip(s))
           keep == {i \in DOMAIN s : Final(s, i)}
           seen == {i \in DOMAIN r : text[r[i]] \in Visible}
<1>0. Strip(s) \in Seq(Nat) /\ Increasing(Strip(s)) /\ ToSet(Strip(s)) \subseteq ToSet(s)
  BY PassOrder
<1>1. r \in Seq(Nat) /\ Increasing(r) /\ ToSet(r) \subseteq ToSet(s)
  <2>1. CASE ~NeedsCompact(Strip(s))
    BY <1>0, <2>1 DEF Compact
  <2>2. CASE NeedsCompact(Strip(s))
    <3> DEFINE s1 == DropControl(Strip(s))  s2 == NormalizeCRLF(s1)  s3 == AfterLastCR(s2)
               s4 == TrimLines(s3)  s5 == FoldBlank(s4)  s6 == TrimLeft(s5)
    <3>0. r = TrimEnd(s6)
      BY <2>2 DEF Compact
    <3>1. s1 \in Seq(Nat) /\ Increasing(s1) /\ ToSet(s1) \subseteq ToSet(s)
      BY <1>0, PassOrder
    <3> HIDE DEF s1
    <3>2. s2 \in Seq(Nat) /\ Increasing(s2) /\ ToSet(s2) \subseteq ToSet(s)
      BY <3>1, PassOrder
    <3> HIDE DEF s2
    <3>3. s3 \in Seq(Nat) /\ Increasing(s3) /\ ToSet(s3) \subseteq ToSet(s)
      BY <3>2, PassOrder
    <3> HIDE DEF s3
    <3>4. s4 \in Seq(Nat) /\ Increasing(s4) /\ ToSet(s4) \subseteq ToSet(s)
      BY <3>3, PassOrder
    <3> HIDE DEF s4
    <3>5. s5 \in Seq(Nat) /\ Increasing(s5) /\ ToSet(s5) \subseteq ToSet(s)
      BY <3>4, PassOrder
    <3> HIDE DEF s5
    <3>6. s6 \in Seq(Nat) /\ Increasing(s6) /\ ToSet(s6) \subseteq ToSet(s)
      BY <3>5, PassOrder
    <3> HIDE DEF s6
    <3>7. TrimEnd(s6) \in Seq(Nat) /\ Increasing(TrimEnd(s6))
          /\ ToSet(TrimEnd(s6)) \subseteq ToSet(s)
      BY <3>6, PassOrder
    <3> QED
      BY <3>0, <3>7
  <2> QED
    BY <2>1, <2>2
<1>2. ASSUME NEW i \in DOMAIN s
      PROVE  i \in keep <=> s[i] \in ToSet(r) /\ text[s[i]] \in Visible
  BY FinalSet DEF Final
<1>3. ASSUME NEW j \in DOMAIN r PROVE j \in seen <=> text[r[j]] \in Visible
  OBVIOUS
<1>v. VisibleOf(r) = KeepAt(r, seen)
  BY DEF VisibleOf
<1> HIDE DEF r, keep, seen
<1>4. /\ KeepAt(s, keep) \in Seq(Nat) /\ Increasing(KeepAt(s, keep))
      /\ ToSet(KeepAt(s, keep)) \subseteq ToSet(s)
      /\ \A i \in DOMAIN s : s[i] \in ToSet(KeepAt(s, keep)) <=> i \in keep
  BY KeepAtSet
<1>5. /\ KeepAt(r, seen) \in Seq(Nat) /\ Increasing(KeepAt(r, seen))
      /\ ToSet(KeepAt(r, seen)) \subseteq ToSet(r)
      /\ \A j \in DOMAIN r : r[j] \in ToSet(KeepAt(r, seen)) <=> j \in seen
  BY <1>1, KeepAtSet
<1>6. ASSUME NEW q \in ToSet(s)
      PROVE  q \in ToSet(KeepAt(s, keep)) <=> q \in ToSet(KeepAt(r, seen))
  <2>1. PICK i \in DOMAIN s : s[i] = q
    BY DEF ToSet
  <2>2. q \in ToSet(KeepAt(s, keep)) <=> q \in ToSet(r) /\ text[q] \in Visible
    BY <1>2, <1>4, <2>1
  <2>3. q \in ToSet(r) => (q \in ToSet(KeepAt(r, seen)) <=> text[q] \in Visible)
    BY <1>3, <1>5 DEF ToSet
  <2> QED
    BY <1>5, <2>2, <2>3
<1>7. ToSet(KeepAt(s, keep)) = ToSet(KeepAt(r, seen))
  BY <1>1, <1>4, <1>5, <1>6
<1>8. KeepAt(s, keep) = KeepAt(r, seen)
  BY <1>4, <1>5, <1>7, SetDetermines
<1> QED
  BY <1>1, <1>8, <1>v DEF r, keep

--------------------------------------------------------------------------------
(* The lines a read shows. *)

\* One step less from i back towards from.
LEMMA OneCloser ==
    ASSUME NEW i \in Nat, NEW from \in Nat, NEW d \in Nat, 1 <= from, d >= 1, d <= i - from - 1
    PROVE  /\ d - 1 \in 0..(i - from - 1) /\ ~(d <= d - 1) /\ i - (d - 1) = (i - d) + 1
           /\ \A n \in Nat : i \in 1..n => (i - d) + 1 \in 1..n
OBVIOUS

\* Where no line ends in blanks the newlines between two words come first.
LEMMA NewlinesFirst ==
    ASSUME NEW b \in Seq(Nat), \A k \in DOMAIN b : text[b[k]] \in Classes,
           Free(b, Control), Free(b, {"cr"}), NoBlankEnd(b),
           NEW from \in DOMAIN b, NEW i \in DOMAIN b, from < i, text[b[i]] = "nl",
           \A k \in DOMAIN b : from < k /\ k <= i => text[b[k]] \notin Visible
    PROVE  \A k \in (from + 1)..i : text[b[k]] = "nl"
<1>0. DOMAIN b = 1..Len(b) /\ Len(b) \in Nat
  BY LenProperties
<1> DEFINE Bad == {d \in 0..(i - from - 1) : text[b[i - d]] # "nl"}
<1>1. ASSUME Bad # {} PROVE FALSE
  <2>1. Bad \in SUBSET Nat
    BY <1>0
  <2>2. PICK d \in Bad : \A other \in Bad : d <= other
    BY <1>1, <2>1, LeastNumber
  <2>3. d \in 0..(i - from - 1) /\ text[b[i - d]] # "nl"
    BY <2>2
  <2> DEFINE m == i - d
  <2>4. m \in DOMAIN b /\ from < m /\ m <= i /\ d \in Nat
    BY <1>0, <2>3
  <2>5. d # 0
    <3>1. d = 0 => i - d = i
      BY <1>0
    <3> QED
      BY <2>3, <3>1
  <2>a. d \in Nat /\ d <= i - from - 1 /\ i \in Nat /\ from \in Nat /\ 1 <= from /\ d >= 1
    <3>1. i \in Nat /\ from \in Nat /\ 1 <= from
      BY <1>0
    <3>2. d \in 0..(i - from - 1)
      BY <2>3
    <3> QED
      BY <2>5, <3>1, <3>2
  <2>b. i \in 1..Len(b)
    BY <1>0
  <2>6. d - 1 \in 0..(i - from - 1) /\ ~(d <= d - 1) /\ i - (d - 1) = m + 1
        /\ m + 1 \in DOMAIN b
    <3>1. d - 1 \in 0..(i - from - 1) /\ ~(d <= d - 1) /\ i - (d - 1) = (i - d) + 1
      BY <2>a, OneCloser
    <3>2. (i - d) + 1 \in 1..Len(b)
      BY <1>0, <2>a, <2>b, OneCloser
    <3> QED
      BY <1>0, <3>1, <3>2
  <2>7. text[b[m + 1]] = "nl"
    BY <2>2, <2>6
  <2>8. text[b[m]] = "sp"
    BY <2>3, <2>4 DEF Free, Classes, Control, Visible, Finals, Marks
  <2> QED
    BY <2>4, <2>6, <2>7, <2>8 DEF NoBlankEnd, Is
<1>2. ASSUME NEW k \in (from + 1)..i PROVE text[b[k]] = "nl"
  <2>1. i - k \in 0..(i - from - 1) /\ i - (i - k) = k
    BY <1>0
  <2> QED
    BY <1>1, <2>1
<1> QED
  BY <1>2

\* The text between two words before FoldBlank: all newlines of the read are there, and
\* of those FoldBlank keeps, which are among the first two, none is lost later.
Base(s, b, p, q) ==
    /\ b \in Seq(Nat) /\ Increasing(b) /\ ToSet(b) \subseteq ToSet(s)
    /\ ToSet(Compact(Strip(s))) \subseteq ToSet(b)
    /\ Free(b, Control) /\ Free(b, {"cr"}) /\ NoBlankEnd(b)
    /\ \A x \in ToSet(s) : text[x] = "nl" => x \in ToSet(b)
    /\ \A x \in ToSet(b) : text[x] \in Visible => x \in ToSet(Compact(Strip(s)))
    /\ \A i \in DOMAIN b : p < b[i] /\ b[i] < q /\ text[b[i]] = "nl" =>
          (b[i] \in ToSet(Compact(Strip(s))) <=> ~(i > 2 /\ All(b, i - 2, i, {"nl"})))

\* A text that Compact leaves as it is.
LEMMA BaseOfClean ==
    ASSUME NEW s \in Seq(Nat), Increasing(s), ~NeedsCompact(Strip(s)), NEW p, NEW q
    PROVE  Base(s, Strip(s), p, q)
<1> DEFINE b == Strip(s)
<1>1. b \in Seq(Nat) /\ Increasing(b) /\ ToSet(b) \subseteq ToSet(s)
  BY PassOrder
<1>2. Compact(b) = b
  BY DEF Compact
<1>3. /\ Free(b, Control) /\ Free(b, {"cr"}) /\ NoBlankEnd(b) /\ NoLongBlank(b)
  BY CompactParts
<1>4. ASSUME NEW x \in ToSet(s), text[x] = "nl" PROVE x \in ToSet(b)
  <2>1. PICK i \in DOMAIN s : s[i] = x
    BY DEF ToSet
  <2>2. ~InEscape(s, i)
    BY <1>4, <2>1, EscapeClasses
  <2> QED
    BY <2>1, <2>2, StripSet
<1> HIDE DEF b
<1>0. DOMAIN b = 1..Len(b) /\ Len(b) \in Nat
  BY <1>1, LenProperties
<1>5. ASSUME NEW i \in DOMAIN b, i > 2, All(b, i - 2, i, {"nl"}) PROVE FALSE
  <2>1. /\ i - 2 \in (i - 2)..i /\ i - 1 \in (i - 2)..i /\ i \in (i - 2)..i
        /\ i - 2 \in DOMAIN b /\ i - 1 \in DOMAIN b
        /\ (i - 2) + 1 = i - 1 /\ (i - 2) + 2 = i
    BY <1>0, <1>5
  <2>2. text[b[i - 2]] = "nl" /\ text[b[i - 1]] = "nl" /\ text[b[i]] = "nl"
    BY <1>5, <2>1 DEF All
  <2>3. Is(b, i - 2, "nl") /\ Is(b, (i - 2) + 1, "nl") /\ Is(b, (i - 2) + 2, "nl")
    BY <2>1, <2>2 DEF Is
  <2> QED
    BY <1>3, <2>1, <2>3 DEF NoLongBlank
<1>6. \A i \in DOMAIN b : b[i] \in ToSet(b)
  BY DEF ToSet
<1> QED
  BY <1>1, <1>2, <1>3, <1>4, <1>5, <1>6 DEF Base, b

\* A text that is compacted.
LEMMA BaseOfNoisy ==
    ASSUME NEW s \in Seq(Nat), Increasing(s), NeedsCompact(Strip(s)),
           NEW p \in ToSet(Compact(Strip(s))), text[p] \in Visible,
           NEW q \in ToSet(Compact(Strip(s))), text[q] \in Visible
    PROVE  \E b : Base(s, b, p, q)
<1> DEFINE s1 == Plain(s)  s2 == NormalizeCRLF(s1)  s3 == AfterLastCR(s2)
           s4 == TrimLines(s3)  s5 == FoldBlank(s4)  s6 == TrimLeft(s5)  s7 == TrimEnd(s6)
<1>0. Compact(Strip(s)) = s7
  BY DEF Compact, Plain
<1>1. /\ s1 \in Seq(Nat) /\ Increasing(s1) /\ ToSet(s1) \subseteq ToSet(s)
      /\ \A x \in ToSet(s) : text[x] = "nl" => x \in ToSet(s1)
  BY PlainSet
<1>c1. Free(s1, Control)
  <2>1. Strip(s) \in Seq(Nat)
    BY PassOrder
  <2> QED
    BY <2>1, FreePass DEF Plain, DropControl
<1> HIDE DEF s1
<1>2. /\ s2 \in Seq(Nat) /\ Increasing(s2) /\ ToSet(s2) \subseteq ToSet(s1)
      /\ \A x \in ToSet(s1) : text[x] = "nl" => x \in ToSet(s2)
  BY <1>1, PassOrder, NormalizeSet
<1>c2. Free(s2, Control)
  BY <1>1, <1>c1, PassKeeps
<1> HIDE DEF s2
<1>3. /\ s3 \in Seq(Nat) /\ Increasing(s3) /\ ToSet(s3) \subseteq ToSet(s2)
      /\ \A x \in ToSet(s2) : text[x] = "nl" => x \in ToSet(s3)
  <2>1. ASSUME NEW x \in ToSet(s2), text[x] = "nl" PROVE x \in ToSet(s3)
    <3>1. x <= x
      BY <1>2, LenProperties, ElementOfSeq DEF ToSet
    <3> QED
      BY <1>2, <2>1, <3>1, CutSet
  <2> QED
    BY <1>2, <2>1, PassOrder
<1>c3. Free(s3, Control) /\ Free(s3, {"cr"})
  BY <1>2, <1>c2, PassKeeps, CutLines
<1> HIDE DEF s3
<1>4. /\ s4 \in Seq(Nat) /\ Increasing(s4) /\ ToSet(s4) \subseteq ToSet(s3)
      /\ \A x \in ToSet(s3) : text[x] = "nl" => x \in ToSet(s4)
  BY <1>3, PassOrder, TrimSets
<1>c4. Free(s4, Control) /\ Free(s4, {"cr"}) /\ NoBlankEnd(s4)
  BY <1>3, <1>c3, PassKeeps, TrimmedLines
<1> HIDE DEF s4
<1>5. /\ s5 \in Seq(Nat) /\ Increasing(s5) /\ ToSet(s5) \subseteq ToSet(s4)
      /\ \A x \in ToSet(s4) : text[x] # "nl" => x \in ToSet(s5)
  BY <1>4, PassOrder, TrimSets
<1>k5. \A i \in DOMAIN s4 : s4[i] \in ToSet(s5) <=> ~(i > 2 /\ All(s4, i - 2, i, {"nl"}))
  <2> DEFINE keep == {i \in DOMAIN s4 : ~(i > 2 /\ All(s4, i - 2, i, {"nl"}))}
  <2>1. \A i \in DOMAIN s4 : i \in keep <=> ~(i > 2 /\ All(s4, i - 2, i, {"nl"}))
    OBVIOUS
  <2>2. s5 = KeepAt(s4, keep)
    BY DEF FoldBlank
  <2> HIDE DEF keep, s5
  <2>3. \A i \in DOMAIN s4 : s4[i] \in ToSet(s5) <=> i \in keep
    BY <1>4, <2>2, KeepAtSet
  <2> QED
    BY <2>1, <2>3
<1> HIDE DEF s5
<1>6. /\ s6 \in Seq(Nat) /\ Increasing(s6) /\ ToSet(s6) \subseteq ToSet(s5)
      /\ \A x \in ToSet(s5) : text[x] # "nl" => x \in ToSet(s6)
  BY <1>5, PassOrder, TrimSets
<1>k6. ASSUME NEW x \in ToSet(s5), p < x, p \in ToSet(s5) PROVE x \in ToSet(s6)
  <2> DEFINE keep == {i \in DOMAIN s5 : ~All(s5, 1, i, {"nl"})}
  <2>1. PICK i \in DOMAIN s5, k \in DOMAIN s5 : s5[i] = x /\ s5[k] = p
    BY <1>k6 DEF ToSet
  <2>2. k < i
    BY <1>5, <1>k6, <2>1, SameOrder
  <2>3. k \in 1..i
    <3>1. DOMAIN s5 = 1..Len(s5) /\ Len(s5) \in Nat
      BY <1>5, LenProperties
    <3> QED
      BY <2>1, <2>2, <3>1
  <2>4. i \in keep
    BY <2>1, <2>3 DEF All, Visible, Finals, Marks
  <2>5. s6 = KeepAt(s5, keep)
    BY DEF TrimLeft
  <2> HIDE DEF keep, s6
  <2> QED
    BY <1>5, <2>1, <2>4, <2>5, KeepAtSet
<1> HIDE DEF s6
<1>7. /\ s7 \in Seq(Nat) /\ ToSet(s7) \subseteq ToSet(s6)
      /\ \A x \in ToSet(s6) : text[x] # "nl" => x \in ToSet(s7)
  BY <1>6, PassOrder, TrimSets
<1>k7. ASSUME NEW x \in ToSet(s6), x < q, q \in ToSet(s6) PROVE x \in ToSet(s7)
  <2> DEFINE keep == {i \in DOMAIN s6 : ~All(s6, i, Len(s6), {"nl"})}
  <2>1. PICK i \in DOMAIN s6, k \in DOMAIN s6 : s6[i] = x /\ s6[k] = q
    BY <1>k7 DEF ToSet
  <2>2. i < k
    BY <1>6, <1>k7, <2>1, SameOrder
  <2>3. k \in i..Len(s6)
    <3>1. DOMAIN s6 = 1..Len(s6) /\ Len(s6) \in Nat
      BY <1>6, LenProperties
    <3> QED
      BY <2>1, <2>2, <3>1
  <2>4. i \in keep
    BY <2>1, <2>3 DEF All, Visible, Finals, Marks
  <2>5. s7 = s6 \/ s7 = KeepAt(s6, keep)
    BY DEF TrimEnd
  <2> HIDE DEF keep, s7
  <2>6. x \in ToSet(KeepAt(s6, keep))
    BY <1>6, <2>1, <2>4, KeepAtSet
  <2> QED
    BY <2>5, <2>6
<1> HIDE DEF s7
<1>8. p \in ToSet(s5) /\ q \in ToSet(s6)
  BY <1>0, <1>6, <1>7
<1>9. ASSUME NEW i \in DOMAIN s4, p < s4[i], s4[i] < q
      PROVE  s4[i] \in ToSet(s7) <=> ~(i > 2 /\ All(s4, i - 2, i, {"nl"}))
  BY <1>6, <1>7, <1>8, <1>9, <1>k5, <1>k6, <1>k7
<1>10. \A x \in ToSet(s4) : text[x] \in Visible => x \in ToSet(s7)
  BY <1>5, <1>6, <1>7 DEF Visible, Finals, Marks
<1>11. ToSet(s7) \subseteq ToSet(s4) /\ ToSet(s4) \subseteq ToSet(s)
  BY <1>1, <1>2, <1>3, <1>4, <1>5, <1>6, <1>7
<1>12. \A x \in ToSet(s) : text[x] = "nl" => x \in ToSet(s4)
  BY <1>1, <1>2, <1>3, <1>4
<1>13. Base(s, s4, p, q)
  BY <1>0, <1>4, <1>9, <1>10, <1>11, <1>12, <1>c4 DEF Base
<1> QED
  BY <1>13

\* Of the newlines between two words that follow one another two at most are shown, and
\* all if they are not more.
LEMMA NewlinesShown ==
    ASSUME NEW s \in Seq(Nat), Increasing(s), \A x \in ToSet(s) : text[x] \in Classes,
           NEW p \in ToSet(Compact(Strip(s))), text[p] \in Visible,
           NEW q \in ToSet(Compact(Strip(s))), text[q] \in Visible, p < q,
           \A x \in ToSet(Compact(Strip(s))) : p < x /\ x < q => text[x] \notin Visible
    PROVE  Newlines(Compact(Strip(s)), p, q)
              = IF Newlines(s, p, q) > 2 THEN 2 ELSE Newlines(s, p, q)
<1> DEFINE r == Compact(Strip(s))
           all == {x \in ToSet(s) : p < x /\ x < q /\ text[x] = "nl"}
           kept == {x \in ToSet(r) : p < x /\ x < q /\ text[x] = "nl"}
<1>1. PICK b : Base(s, b, p, q)
  BY BaseOfClean, BaseOfNoisy
<1> HIDE DEF r
<1>2. /\ b \in Seq(Nat) /\ Increasing(b) /\ ToSet(b) \subseteq ToSet(s)
      /\ ToSet(r) \subseteq ToSet(b)
      /\ Free(b, Control) /\ Free(b, {"cr"}) /\ NoBlankEnd(b)
      /\ \A x \in ToSet(s) : text[x] = "nl" => x \in ToSet(b)
      /\ \A x \in ToSet(b) : text[x] \in Visible => x \in ToSet(r)
      /\ \A i \in DOMAIN b : p < b[i] /\ b[i] < q /\ text[b[i]] = "nl" =>
            (b[i] \in ToSet(r) <=> ~(i > 2 /\ All(b, i - 2, i, {"nl"})))
  BY <1>1 DEF Base, r
<1>0. DOMAIN b = 1..Len(b) /\ Len(b) \in Nat /\ \A i \in DOMAIN b : b[i] \in ToSet(b)
  BY <1>2, LenProperties DEF ToSet
<1>n. p \in Nat /\ q \in Nat /\ ToSet(s) \subseteq Nat
  <2>1. ToSet(s) \subseteq Nat
    BY LenProperties, ElementOfSeq DEF ToSet
  <2>2. p \in ToSet(b) /\ q \in ToSet(b)
    BY <1>2 DEF r
  <2> QED
    BY <1>2, <2>1, <2>2
<1>3. PICK from \in DOMAIN b, to \in DOMAIN b : b[from] = p /\ b[to] = q
  <2>1. p \in ToSet(b) /\ q \in ToSet(b)
    BY <1>2 DEF r
  <2> QED
    BY <2>1 DEF ToSet
<1>4. ASSUME NEW i \in DOMAIN b, from < i, i < to, text[b[i]] = "nl"
      PROVE  \A k \in (from + 1)..i : text[b[k]] = "nl"
  <2>1. \A k \in DOMAIN b : text[b[k]] \in Classes
    BY <1>0, <1>2
  <2>2. ASSUME NEW k \in DOMAIN b, from < k, k <= i PROVE text[b[k]] \notin Visible
    <3>1. k < to
      BY <1>0, <1>3, <1>4, <2>2
    <3>2. p < b[k] /\ b[k] < q
      BY <1>2, <1>3, <2>2, <3>1, SameOrder
    <3>3. b[k] \in ToSet(r) => text[b[k]] \notin Visible
      BY <3>2 DEF r
    <3> QED
      BY <1>0, <1>2, <3>3
  <2> QED
    BY <1>2, <1>4, <2>1, <2>2, NewlinesFirst
\* Where the newlines are, and which are kept.
<1>5. ASSUME NEW x \in all
      PROVE  \E i \in DOMAIN b : /\ b[i] = x /\ from < i /\ i < to /\ text[b[i]] = "nl"
                                 /\ x \in kept <=> i <= from + 2
  <2>1. x \in ToSet(b) /\ p < x /\ x < q /\ text[x] = "nl"
    BY <1>2
  <2>2. PICK i \in DOMAIN b : b[i] = x
    BY <2>1 DEF ToSet
  <2>3. from < i /\ i < to
    BY <1>2, <1>3, <2>1, <2>2, SameOrder
  <2>4. x \in kept <=> ~(i > 2 /\ All(b, i - 2, i, {"nl"}))
    BY <1>2, <2>1, <2>2
  <2>5. ASSUME i <= from + 2, i > 2, All(b, i - 2, i, {"nl"}) PROVE FALSE
    <3>1. from \in (i - 2)..i
      BY <1>0, <1>3, <2>2, <2>3, <2>5
    <3>2. text[b[from]] = "nl"
      BY <2>5, <3>1 DEF All
    <3> QED
      BY <1>3, <3>2 DEF Visible, Finals, Marks
  <2>6. ASSUME ~(i <= from + 2) PROVE i > 2 /\ All(b, i - 2, i, {"nl"})
    <3>1. i > 2 /\ (i - 2)..i \subseteq (from + 1)..i
      BY <1>0, <1>3, <2>2, <2>6
    <3>2. \A k \in (from + 1)..i : text[b[k]] = "nl"
      BY <1>4, <2>1, <2>2, <2>3
    <3> QED
      BY <3>1, <3>2 DEF All
  <2> QED
    BY <2>1, <2>2, <2>3, <2>4, <2>5, <2>6
\* The first k positions after p are newlines if there are k.
<1>6. ASSUME NEW k \in {1, 2}, NEW i \in DOMAIN b, from + k <= i, i < to, text[b[i]] = "nl"
      PROVE  from + k \in DOMAIN b /\ b[from + k] \in all /\ b[from + k] \in kept
  <2>1. from + k \in DOMAIN b /\ from < from + k /\ from + k < to /\ from < i
        /\ from + k \in (from + 1)..i /\ from + k <= from + 2
    BY <1>0, <1>3, <1>6
  <2>2. text[b[from + k]] = "nl"
    BY <1>4, <1>6, <2>1
  <2>3. p < b[from + k] /\ b[from + k] < q
    BY <1>2, <1>3, <2>1, SameOrder
  <2>4. b[from + k] \in all
    BY <1>0, <1>2, <2>1, <2>2, <2>3
  <2>5. PICK m \in DOMAIN b : b[m] = b[from + k] /\ (b[from + k] \in kept <=> m <= from + 2)
    BY <1>5, <2>4
  <2>6. m = from + k
    BY <1>2, <2>1, <2>5, SameOrder
  <2> QED
    BY <2>1, <2>4, <2>5, <2>6
<1>7. kept \subseteq all
  BY <1>2
<1>8. IsFiniteSet(all) /\ Cardinality(all) \in Nat
  <2>1. all \in SUBSET Nat /\ \A x \in all : x <= q
    BY <1>n
  <2> HIDE DEF all
  <2>2. IsFiniteSet(all)
    BY <1>n, <2>1, FS_BoundedSetOfNaturals
  <2> QED
    BY <2>2, FS_CardinalityType
<1>9. Newlines(s, p, q) = Cardinality(all) /\ Newlines(r, p, q) = Cardinality(kept)
  BY DEF Newlines
<1> HIDE DEF all, kept
<1>10. CASE all = {}
  <2>1. kept = {}
    BY <1>7, <1>10
  <2> QED
    BY <1>9, <1>10, <2>1, FS_EmptySet DEF r
<1>11. CASE all # {}
  <2>1. PICK x \in all : TRUE
    BY <1>11
  <2>2. PICK i \in DOMAIN b : b[i] = x /\ from < i /\ i < to /\ text[b[i]] = "nl"
    BY <1>5, <2>1
  <2>3. from + 1 <= i
    BY <1>0, <1>3, <2>2
  <2> DEFINE x1 == b[from + 1]
  <2>4. x1 \in all /\ x1 \in kept /\ from + 1 \in DOMAIN b
    BY <1>6, <2>2, <2>3
  <2>5. CASE all = {x1}
    <3>1. kept = {x1}
      BY <1>7, <2>4, <2>5
    <3>2. Cardinality({x1}) = 1
      BY FS_Singleton
    <3> QED
      BY <1>9, <2>5, <3>1, <3>2 DEF r
  <2>6. CASE all # {x1}
    <3>1. PICK y \in all : y # x1
      BY <2>4, <2>6
    <3>2. PICK j \in DOMAIN b : b[j] = y /\ from < j /\ j < to /\ text[b[j]] = "nl"
      BY <1>5, <3>1
    <3>3. j # from + 1
      BY <3>1, <3>2
    <3>4. from + 2 <= j
      BY <1>0, <1>3, <3>2, <3>3
    <3> DEFINE x2 == b[from + 2]
    <3>5. x2 \in all /\ x2 \in kept /\ from + 2 \in DOMAIN b
      BY <1>6, <3>2, <3>4
    <3>6. x1 # x2
      <4>1. from + 1 # from + 2
        BY <1>0, <1>3
      <4> QED
        BY <1>2, <2>4, <3>5, <4>1, SameOrder
    <3>7. kept = {x1, x2}
      <4>1. ASSUME NEW z \in kept PROVE z \in {x1, x2}
        <5>1. PICK m \in DOMAIN b :
                 b[m] = z /\ from < m /\ m < to /\ (z \in kept <=> m <= from + 2)
          BY <1>5, <1>7, <4>1
        <5>2. m = from + 1 \/ m = from + 2
          BY <1>0, <1>3, <4>1, <5>1
        <5> QED
          BY <5>1, <5>2
      <4> QED
        BY <2>4, <3>5, <4>1
    <3> HIDE DEF x1, x2
    <3>8. Cardinality({x1, x2}) = 2
      <4>1. IsFiniteSet({x1}) /\ Cardinality({x1}) = 1 /\ x2 \notin {x1}
        BY <3>6, FS_Singleton
      <4>2. Cardinality({x1} \cup {x2}) = 1 + 1
        BY <4>1, FS_AddElement
      <4>3. {x1} \cup {x2} = {x1, x2}
        OBVIOUS
      <4>4. 1 + 1 = 2
        OBVIOUS
      <4> HIDE DEF x1, x2
      <4> QED
        BY <4>2, <4>3, <4>4
    <3>9. Cardinality({x1, x2}) <= Cardinality(all)
      <4>1. {x1, x2} \in SUBSET all
        BY <2>4, <3>5
      <4> QED
        BY <1>8, <4>1, FS_Subset
    <3> QED
      BY <1>8, <1>9, <3>7, <3>8, <3>9 DEF r
  <2> QED
    BY <2>5, <2>6
<1> QED
  BY <1>10, <1>11

--------------------------------------------------------------------------------
(* Later output does not change what was read. *)

\* Of s what stays on the screen.
FinalOf(s) == KeepAt(s, {i \in DOMAIN s : Final(s, i)})

\* What is said of the first n positions stays true when more is written.
LEMMA SameText ==
    ASSUME NEW n, NEW s \in Seq(1..n), \A p \in 1..n : text'[p] = text[p]
    PROVE  /\ FinalOf(s)' = FinalOf(s) /\ VisibleOf(s)' = VisibleOf(s)
           /\ \A p, q : Newlines(s, p, q)' = Newlines(s, p, q)
<1>0. DOMAIN s = 1..Len(s) /\ Len(s) \in Nat /\ \A i \in DOMAIN s : s[i] \in 1..n
  BY LenProperties, ElementOfSeq
<1>1. \A i \in DOMAIN s : text'[s[i]] = text[s[i]]
  BY <1>0
<1>2. \A i, class : Is(s, i, class)' <=> Is(s, i, class)
  BY <1>1 DEF Is
<1>3. ASSUME NEW from \in Nat, NEW to \in Int, 1 <= from, to <= Len(s), NEW classes
      PROVE  All(s, from, to, classes)' <=> All(s, from, to, classes)
  <2>1. \A i \in from..to : i \in DOMAIN s
    BY <1>0, <1>3
  <2> QED
    BY <1>1, <2>1 DEF All
<1>s. ASSUME NEW from \in DOMAIN s, NEW to \in DOMAIN s, from < to
      PROVE  Sequence(s, from, to)' <=> Sequence(s, from, to)
  <2>1. CSI(s, from, to)' <=> CSI(s, from, to)
    <3>1. ASSUME NEW mid \in (from + 2)..to, NEW d, NEW i
          PROVE  /\ All(s, from + 2, mid - 1, d)' <=> All(s, from + 2, mid - 1, d)
                 /\ All(s, mid, to - 1, i)' <=> All(s, mid, to - 1, i)
      <4>1. /\ from + 2 \in Nat /\ mid - 1 \in Int /\ 1 <= from + 2 /\ mid - 1 <= Len(s)
            /\ mid \in Nat /\ to - 1 \in Int /\ 1 <= mid /\ to - 1 <= Len(s)
        BY <1>0
      <4> QED
        BY <1>3, <4>1
    <3>2. /\ All(s, from + 2, to, {})' <=> All(s, from + 2, to, {})
          /\ text'[s[to]] = text[s[to]]
      <4>1. from + 2 \in Nat /\ 1 <= from + 2 /\ to \in Int /\ to <= Len(s)
        BY <1>0
      <4> QED
        BY <1>1, <1>3, <4>1
    <3> QED
      BY <1>2, <3>1, <3>2 DEF CSI
  <2>2. \A m : EndsOSC(s, from, m)' <=> EndsOSC(s, from, m)
    BY <1>2 DEF EndsOSC
  <2>3. \A m \in (from + 2)..(to - 1) : text'[s[m]] = text[s[m]]
    <3>1. \A m \in (from + 2)..(to - 1) : m \in DOMAIN s
      BY <1>0
    <3> QED
      BY <1>1, <3>1
  <2>4. OSC(s, from, to)' <=> OSC(s, from, to)
    BY <1>2, <2>2, <2>3 DEF OSC
  <2>5. TwoBytes(s, from, to)' <=> TwoBytes(s, from, to)
    <3>1. from + 1 \in Nat /\ 1 <= from + 1 /\ to - 1 \in Int /\ to - 1 <= Len(s)
      BY <1>0, <1>s
    <3>2. \A i : All(s, from + 1, to - 1, i)' <=> All(s, from + 1, to - 1, i)
      BY <1>3, <3>1
    <3> QED
      BY <1>1, <3>2 DEF TwoBytes
  <2> QED
    BY <1>2, <2>1, <2>4, <2>5 DEF Sequence
<1>4. ASSUME NEW i \in DOMAIN s PROVE InEscape(s, i)' <=> InEscape(s, i)
  <2>1. \A from \in 1..i, to \in i..Len(s) : from \in DOMAIN s /\ to \in DOMAIN s
    BY <1>0
  <2> QED
    BY <1>s, <2>1 DEF InEscape
<1>5. ASSUME NEW i \in DOMAIN s PROVE Final(s, i)' <=> Final(s, i)
  <2>1. ASSUME NEW j \in (i + 1)..Len(s), NEW k \in (j + 1)..Len(s)
        PROVE  (\A m \in (j + 1)..(k - 1) : text[s[m]] \in Control \/ InEscape(s, m))'
                  <=> \A m \in (j + 1)..(k - 1) : text[s[m]] \in Control \/ InEscape(s, m)
    <3>1. \A m \in (j + 1)..(k - 1) : m \in DOMAIN s
      BY <1>0
    <3> QED
      BY <1>1, <1>4, <3>1
  <2>2. \A j \in (i + 1)..Len(s) : Returns(s, j)' <=> Returns(s, j)
    <3>1. \A j \in (i + 1)..Len(s) : j \in DOMAIN s
      BY <1>0
    <3> QED
      BY <1>2, <1>4, <3>1 DEF Returns
  <2>3. \A j : SameLine(s, i, j)' <=> SameLine(s, i, j)
    BY <1>2 DEF SameLine
  <2>4. NotReturnedTo(s, i)' <=> NotReturnedTo(s, i)
    BY <1>2, <2>1, <2>2, <2>3 DEF NotReturnedTo
  <2> QED
    BY <1>1, <1>4, <2>4 DEF Final
<1>6. VisibleOf(s)' = VisibleOf(s)
  <2>1. {i \in DOMAIN s : text[s[i]] \in Visible}' = {i \in DOMAIN s : text[s[i]] \in Visible}
    BY <1>1
  <2> QED
    BY <2>1 DEF VisibleOf
<1>7. ASSUME NEW p, NEW q PROVE Newlines(s, p, q)' = Newlines(s, p, q)
  <2>1. \A x \in ToSet(s) : text'[x] = text[x]
    BY <1>1 DEF ToSet
  <2>2. {x \in ToSet(s) : p < x /\ x < q /\ text[x] = "nl"}'
           = {x \in ToSet(s) : p < x /\ x < q /\ text[x] = "nl"}
    BY <2>1
  <2> QED
    BY <2>2 DEF Newlines
<1>8. FinalOf(s)' = FinalOf(s)
  <2>1. {i \in DOMAIN s : Final(s, i)}' = {i \in DOMAIN s : Final(s, i)}
    BY <1>5
  <2> QED
    BY <2>1 DEF FinalOf
<1> QED
  BY <1>6, <1>7, <1>8

--------------------------------------------------------------------------------
(* FinalContentIsShown. *)

\* The lines of piece, as result has them, when seen is what is visible.
ShowsLines(seen, piece, result) ==
    \A i \in 1..(Len(seen) - 1) :
        LET written == Newlines(piece, seen[i], seen[i + 1]) IN
        Newlines(result, seen[i], seen[i + 1]) = IF written > 2 THEN 2 ELSE written

\* What FinalContentIsShown says of a text and what it became.
ShowsFinal(piece, result) ==
    /\ VisibleOf(result) = FinalOf(piece)
    /\ ShowsLines(VisibleOf(result), piece, result)

\* Strip and Compact show of any text what is final.
LEMMA CompactShowsFinal ==
    ASSUME NEW s \in Seq(Nat), Increasing(s), \A x \in ToSet(s) : text[x] \in Classes
    PROVE  ShowsFinal(s, Compact(Strip(s)))
<1> DEFINE r == Compact(Strip(s))
           keep == {i \in DOMAIN r : text[r[i]] \in Visible}
           seen == KeepAt(r, keep)
<1>1. /\ VisibleOf(r) = KeepAt(s, {i \in DOMAIN s : Final(s, i)})
      /\ r \in Seq(Nat) /\ Increasing(r)
  BY FinalShown
<1>v. VisibleOf(r) = seen
  BY DEF VisibleOf
<1>k. \A i \in DOMAIN r : i \in keep <=> text[r[i]] \in Visible
  OBVIOUS
<1> HIDE DEF keep
<1>2. /\ seen \in Seq(Nat) /\ Increasing(seen) /\ ToSet(seen) \subseteq ToSet(r)
      /\ \A i \in DOMAIN r : r[i] \in ToSet(seen) <=> i \in keep
  BY <1>1, KeepAtSet
<1> HIDE DEF seen
<1>3. DOMAIN seen = 1..Len(seen) /\ Len(seen) \in Nat
  BY <1>2, LenProperties
<1>4. ASSUME NEW x \in ToSet(r) PROVE x \in ToSet(seen) <=> text[x] \in Visible
  <2>1. PICK i \in DOMAIN r : r[i] = x
    BY DEF ToSet
  <2> QED
    BY <1>2, <1>k, <2>1
<1>5. ASSUME NEW i \in 1..(Len(seen) - 1)
      PROVE  Newlines(r, seen[i], seen[i + 1])
                = IF Newlines(s, seen[i], seen[i + 1]) > 2 THEN 2
                  ELSE Newlines(s, seen[i], seen[i + 1])
  <2> DEFINE p == seen[i]  q == seen[i + 1]
  <2>1. i \in DOMAIN seen /\ i + 1 \in DOMAIN seen /\ i < i + 1
    BY <1>3
  <2>2. p \in ToSet(seen) /\ q \in ToSet(seen) /\ p < q
    BY <1>2, <2>1, SameOrder DEF ToSet
  <2>3. ASSUME NEW x \in ToSet(r), p < x, x < q PROVE text[x] \notin Visible
    <3>1. ASSUME x \in ToSet(seen) PROVE FALSE
      <4>1. PICK m \in DOMAIN seen : seen[m] = x
        BY <3>1 DEF ToSet
      <4>2. i < m /\ m < i + 1
        BY <1>2, <2>1, <2>3, <4>1, SameOrder
      <4> QED
        BY <1>3, <2>1, <4>1, <4>2
    <3> QED
      BY <1>4, <3>1
  <2>4. p \in ToSet(r) /\ q \in ToSet(r) /\ text[p] \in Visible /\ text[q] \in Visible
    BY <1>2, <1>4, <2>2
  <2> HIDE DEF p, q
  <2>5. Newlines(r, p, q) = IF Newlines(s, p, q) > 2 THEN 2 ELSE Newlines(s, p, q)
    BY <2>2, <2>3, <2>4, NewlinesShown
  <2> QED
    BY <2>5 DEF p, q
<1> HIDE DEF r
<1> QED
  BY <1>1, <1>5, <1>v DEF ShowsFinal, ShowsLines, FinalOf, r

\* Later output does not change that.
LEMMA SameShown ==
    ASSUME NEW n, NEW piece \in Seq(1..n), NEW result \in Seq(1..n),
           \A p \in 1..n : text'[p] = text[p]
    PROVE  ShowsFinal(piece, result)' <=> ShowsFinal(piece, result)
<1>1. /\ FinalOf(piece)' = FinalOf(piece)
      /\ \A p, q : Newlines(piece, p, q)' = Newlines(piece, p, q)
  BY SameText
<1>2. /\ VisibleOf(result)' = VisibleOf(result)
      /\ \A p, q : Newlines(result, p, q)' = Newlines(result, p, q)
  BY SameText
<1>3. ASSUME NEW seen PROVE ShowsLines(seen, piece, result)' <=> ShowsLines(seen, piece, result)
  <2>1. ASSUME NEW i
        PROVE  /\ Newlines(piece, seen[i], seen[i + 1])' = Newlines(piece, seen[i], seen[i + 1])
               /\ Newlines(result, seen[i], seen[i + 1])' = Newlines(result, seen[i], seen[i + 1])
    BY <1>1, <1>2
  <2> QED
    BY <2>1 DEF ShowsLines
<1>4. PICK seen : seen = VisibleOf(result)
  OBVIOUS
<1>5. ShowsLines(VisibleOf(result), piece, result)' <=> ShowsLines(seen, piece, result)'
  BY <1>2, <1>4
<1> QED
  BY <1>1, <1>2, <1>3, <1>4, <1>5 DEF ShowsFinal

\* The text of the last read is part of the output, and last shows what of it is final.
FinalInv == Piece \in Seq(1..Len(text)) /\ ShowsFinal(Piece, last)

\* A part of the output.
LEMMA PositionsText ==
    ASSUME text \in Seq(Classes), NEW from \in Nat, NEW to \in Nat, from <= to, to <= Len(text)
    PROVE  LET s == Positions(from, to)
           IN  /\ s \in Seq(Nat) /\ s \in Seq(1..Len(text)) /\ Increasing(s)
               /\ DOMAIN s = 1..(to - from) /\ Len(s) = to - from
               /\ \A i \in 1..(to - from) : s[i] = from + i
               /\ \A x \in ToSet(s) : text[x] \in Classes
               /\ \A x : x \in ToSet(s) <=> x \in (from + 1)..to
<1> DEFINE s == Positions(from, to)
<1>0. Len(text) \in Nat
  BY LenProperties
<1>1. /\ s \in Seq((from + 1)..to) /\ Len(s) = to - from
      /\ \A i \in 1..(to - from) : s[i] = from + i
  BY PositionsType
<1>2. (from + 1)..to \subseteq Nat /\ (from + 1)..to \subseteq 1..Len(text)
  BY <1>0
<1>3. s \in Seq(Nat) /\ s \in Seq(1..Len(text))
  BY <1>1, <1>2, SeqMonotonic
<1>4. DOMAIN s = 1..(to - from)
  BY <1>1, <1>3, LenProperties
<1> HIDE DEF s
<1>5. Increasing(s)
  BY <1>1, <1>4 DEF Increasing
<1>6. \A x : x \in ToSet(s) <=> x \in (from + 1)..to
  <2>1. ASSUME NEW x \in (from + 1)..to PROVE x \in ToSet(s)
    <3>1. x - from \in 1..(to - from) /\ from + (x - from) = x
      OBVIOUS
    <3>2. s[x - from] = x
      BY <1>1, <3>1
    <3> QED
      BY <1>4, <3>1, <3>2 DEF ToSet
  <2>2. ASSUME NEW x \in ToSet(s) PROVE x \in (from + 1)..to
    <3>1. PICK i \in 1..(to - from) : s[i] = x
      BY <1>4 DEF ToSet
    <3> QED
      BY <1>1, <3>1
  <2> QED
    BY <2>1, <2>2
<1>7. \A x \in 1..Len(text) : text[x] \in Classes
  BY ElementOfSeq
<1>8. \A x \in ToSet(s) : text[x] \in Classes
  BY <1>2, <1>6, <1>7
<1> QED
  BY <1>1, <1>3, <1>4, <1>5, <1>6, <1>8 DEF s

\* The last read is that of what was written since the one before.
LEMMA PieceRead ==
    ASSUME TextInv, Read
    PROVE  Piece' = Positions(ReadUpTo, Len(text))
<1>1. reads' = Append(reads, Len(text)) /\ reads \in Seq(1..Len(text))
      /\ Len(text) \in 1..Len(text)
  BY ReadText DEF Read, TextInv
<1>2. /\ Len(reads') = Len(reads) + 1 /\ Len(reads) \in Nat
      /\ reads'[Len(reads) + 1] = Len(text)
      /\ \A i \in 1..Len(reads) : reads'[i] = reads[i]
  BY <1>1, AppendProperties, LenProperties
<1>3. CASE reads = <<>>
  <2>1. Len(reads) = 0 /\ ReadUpTo = 0
    BY <1>3 DEF ReadUpTo
  <2> QED
    BY <1>2, <2>1 DEF Piece
<1>4. CASE reads # <<>>
  <2>1. Len(reads) # 0
    BY <1>1, <1>4, EmptySeq
  <2>2. ReadUpTo = reads[Len(reads)] /\ Len(reads) \in 1..Len(reads)
    BY <1>2, <1>4, <2>1 DEF ReadUpTo, Last
  <2>3. Len(reads') # 0 /\ Len(reads') # 1 /\ Len(reads') - 1 = Len(reads)
        /\ reads'[Len(reads')] = Len(text) /\ reads'[Len(reads') - 1] = ReadUpTo
    BY <1>2, <2>1, <2>2
  <2> QED
    BY <2>3 DEF Piece
<1> QED
  BY <1>3, <1>4

LEMMA FinalInvariant == Spec => []FinalInv
<1>1. Init => FinalInv
  <2> SUFFICES ASSUME Init PROVE FinalInv
    OBVIOUS
  <2>1. Piece = <<>> /\ last = <<>> /\ Compact(Strip(<<>>)) = <<>>
    <3>1. Len(<<>>) = 0 /\ DOMAIN <<>> = {} /\ <<>> \in Seq(Nat) /\ Increasing(<<>>)
      BY EmptySeq DEF Increasing
    <3>2. \A k : KeepAt(<<>>, k) \in Seq(Nat) /\ ToSet(KeepAt(<<>>, k)) \subseteq ToSet(<<>>)
      BY <3>1, KeepAtSet
    <3>3. ToSet(<<>>) = {}
      BY DEF ToSet
    <3>4. \A r \in Seq(Nat) : ToSet(r) = {} => r = <<>>
      BY ZenonT(30), <3>1, <3>3, SetDetermines DEF Increasing, ToSet
    <3>5. Strip(<<>>) = <<>>
      BY <3>2, <3>3, <3>4 DEF Strip
    <3>6. ~NeedsCompact(<<>>)
      BY <3>1 DEF NeedsCompact, Is
    <3> QED
      BY <3>1, <3>5, <3>6 DEF Init, Piece, Compact
  <2>2. <<>> \in Seq(Nat) /\ Increasing(<<>>) /\ ToSet(<<>>) = {}
    BY EmptySeq DEF Increasing, ToSet
  <2>3. ShowsFinal(<<>>, Compact(Strip(<<>>)))
    BY <2>2, CompactShowsFinal
  <2> QED
    BY <2>1, <2>3, EmptySeq DEF FinalInv
<1>2. TextInv /\ FinalInv /\ [Next]_vars => FinalInv'
  <2> SUFFICES ASSUME TextInv, FinalInv, [Next]_vars PROVE FinalInv'
    OBVIOUS
  <2>1. ASSUME NEW c \in Alphabet, Write(c) PROVE FinalInv'
    <3>1. /\ Len(text') = Len(text) + 1 /\ Len(text) \in Nat /\ last' = last
          /\ \A p \in 1..Len(text) : text'[p] = text[p]
      BY <2>1, Written
    <3>2. Piece' = Piece
      BY <2>1 DEF Write, Piece
    <3>3. 1..Len(text) \subseteq 1..Len(text')
      BY <3>1
    <3>4. Piece' \in Seq(1..Len(text'))
      BY <3>2, <3>3, SeqMonotonic DEF FinalInv
    <3>5. PICK piece \in Seq(1..Len(text)), result \in Seq(1..Len(text)), n \in {Len(text)} :
             piece = Piece /\ result = last /\ n = Len(text)
      BY DEF FinalInv, TextInv
    <3>6. ShowsFinal(piece, result)' <=> ShowsFinal(piece, result)
      BY <3>1, <3>5, SameShown
    <3>7. Piece' = piece /\ last' = result
      BY <3>1, <3>2, <3>5
    <3>8. ShowsFinal(Piece, last)' = ShowsFinal(piece, result)'
      BY <3>7
    <3> QED
      BY <3>4, <3>5, <3>6, <3>8 DEF FinalInv
  <2>2. ASSUME Read PROVE FinalInv'
    <3>1. /\ ReadUpTo \in Nat /\ Len(text) \in Nat /\ ReadUpTo < Len(text)
          /\ last' = Compact(Strip(Positions(ReadUpTo, Len(text)))) /\ UNCHANGED text
          /\ last' \in Seq(1..Len(text))
      BY <2>2, ReadText
    <3>2. Piece' = Positions(ReadUpTo, Len(text))
      BY <2>2, PieceRead
    <3>3. PICK piece, n : piece = Positions(ReadUpTo, Len(text)) /\ n = Len(text)
      OBVIOUS
    <3>4. /\ piece \in Seq(Nat) /\ piece \in Seq(1..Len(text)) /\ Increasing(piece)
          /\ \A x \in ToSet(piece) : text[x] \in Classes
      <4>1. text \in Seq(Classes) /\ ReadUpTo <= Len(text) /\ Len(text) <= Len(text)
        BY <3>1 DEF TextInv
      <4> QED
        BY <3>1, <3>3, <4>1, PositionsText
    <3>5. ShowsFinal(piece, Compact(Strip(piece)))
      BY <3>4, CompactShowsFinal
    <3>6. PICK result \in Seq(1..Len(text)) : result = last'
      BY <3>1
    <3>7. ShowsFinal(piece, result)
      BY <3>1, <3>3, <3>5, <3>6
    <3>8. ShowsFinal(piece, result)' <=> ShowsFinal(piece, result)
      <4>1. \A p \in 1..n : text'[p] = text[p]
        BY <3>1
      <4> QED
        BY <3>3, <3>4, <3>6, <4>1, SameShown
    <3>9. Piece' = piece /\ last' = result
      BY <3>2, <3>3, <3>6
    <3>10. ShowsFinal(Piece, last)'
      BY <3>7, <3>8, <3>9
    <3>11. Piece' \in Seq(1..Len(text'))
      BY <3>1, <3>4, <3>9 DEF FinalInv
    <3> QED
      BY <3>10, <3>11 DEF FinalInv
  <2>3. ASSUME UNCHANGED vars PROVE FinalInv'
    <3>1. text' = text /\ reads' = reads /\ last' = last /\ Piece' = Piece
      BY <2>3 DEF vars, Piece
    <3>2. PICK piece \in Seq(1..Len(text)), result \in Seq(1..Len(text)), n \in {Len(text)} :
             piece = Piece /\ result = last /\ n = Len(text)
      BY DEF FinalInv, TextInv
    <3>3. ShowsFinal(piece, result)' <=> ShowsFinal(piece, result)
      <4>1. \A p \in 1..n : text'[p] = text[p]
        BY <3>1
      <4> QED
        BY <3>2, <4>1, SameShown
    <3>4. ShowsFinal(Piece, last)' <=> ShowsFinal(piece, result)'
      BY <3>1, <3>2
    <3>5. Piece' \in Seq(1..Len(text'))
      BY <3>1 DEF FinalInv
    <3> QED
      BY <3>2, <3>3, <3>4, <3>5 DEF FinalInv
  <2> QED
    BY <2>1, <2>2, <2>3 DEF Next
<1> QED
  BY <1>1, <1>2, TextInvariant, PTL DEF Spec

--------------------------------------------------------------------------------
(* Final, said of positions only: nothing in it crosses the end of a line but *)
(* the carriage returns of the lines after it.                                *)

\* An escape sequence goes by the classes of its characters.
LEMMA SequenceMoves ==
    ASSUME NEW s \in Seq(Nat), NEW t \in Seq(Nat), NEW d \in Nat, NEW from \in Nat,
           NEW to \in Nat, 1 <= from, from < to, to <= Len(s), to + d <= Len(t),
           \A m \in from..to : text[s[m]] = text[t[m + d]]
    PROVE  Sequence(s, from, to) <=> Sequence(t, from + d, to + d)
<1>0. from \in Int /\ to \in Int /\ d \in Int /\ from < to
  OBVIOUS
<1>d. \A m \in from..to : m \in DOMAIN s /\ m + d \in DOMAIN t
  <2>1. DOMAIN s = 1..Len(s) /\ Len(s) \in Nat /\ DOMAIN t = 1..Len(t) /\ Len(t) \in Nat
    BY LenProperties
  <2> QED
    BY <2>1
<1>t. text[s[to]] = text[t[to + d]]
  <2>1. to \in from..to
    BY <1>0
  <2> QED
    BY <2>1
<1>1. ASSUME NEW m \in from..to, NEW class PROVE Is(s, m, class) <=> Is(t, m + d, class)
  BY <1>d DEF Is
<1>2. ASSUME NEW f \in Int, NEW l \in Int, from <= f, l <= to, NEW classes
      PROVE  All(s, f, l, classes) <=> All(t, f + d, l + d, classes)
  <2>1. ASSUME NEW m \in f..l PROVE m \in from..to /\ m + d \in (f + d)..(l + d)
    BY <1>0, <1>2
  <2>2. ASSUME NEW m \in (f + d)..(l + d) PROVE m - d \in f..l /\ (m - d) + d = m
    BY <1>2
  <2> QED
    BY ZenonT(30), <2>1, <2>2 DEF All
<1>3. CSI(s, from, to) <=> CSI(t, from + d, to + d)
  <2>1. \A class : Is(s, from + 1, class) <=> Is(t, (from + d) + 1, class)
    <3>1. from + 1 \in from..to /\ (from + 1) + d = (from + d) + 1
      BY SMTT(30), <1>0
    <3> QED
      BY <1>1, <3>1
  <2>2. text[s[to]] = text[t[to + d]]
    BY <1>t
  <2>3. ASSUME NEW mid \in (from + 2)..to, NEW classes
        PROVE  /\ All(s, from + 2, mid - 1, classes)
                     <=> All(t, (from + d) + 2, (mid + d) - 1, classes)
               /\ All(s, mid, to - 1, classes) <=> All(t, mid + d, (to + d) - 1, classes)
    <3>1. /\ (from + 2) + d = (from + d) + 2 /\ (mid - 1) + d = (mid + d) - 1
          /\ (to - 1) + d = (to + d) - 1 /\ from + 2 \in Int /\ mid - 1 \in Int /\ mid \in Int
          /\ to - 1 \in Int /\ from <= from + 2 /\ from <= mid /\ mid - 1 <= to /\ to - 1 <= to
      BY <1>0
    <3>2. All(s, from + 2, mid - 1, classes)
             <=> All(t, (from + 2) + d, (mid - 1) + d, classes)
      BY <1>2, <3>1
    <3>3. All(s, mid, to - 1, classes) <=> All(t, mid + d, (to - 1) + d, classes)
      BY <1>2, <3>1
    <3> QED
      BY <3>1, <3>2, <3>3
  <2>4. ASSUME NEW mid \in (from + 2)..to PROVE mid + d \in ((from + d) + 2)..(to + d)
    BY <1>0
  <2>5. ASSUME NEW mid \in ((from + d) + 2)..(to + d)
        PROVE  mid - d \in (from + 2)..to /\ (mid - d) + d = mid
    BY <1>0
  <2> DEFINE Params == {"dig"}  Inter == Marks \cup {"sp"}
             Left(mid) == All(s, from + 2, mid - 1, Params) /\ All(s, mid, to - 1, Inter)
             Right(mid) == /\ All(t, (from + d) + 2, mid - 1, Params)
                           /\ All(t, mid, (to + d) - 1, Inter)
  <2>6. \A mid \in (from + 2)..to : Left(mid) <=> Right(mid + d)
    BY <2>3
  <2>7. /\ CSI(s, from, to) <=> /\ Is(s, from + 1, "csi") \/ Is(s, from + 1, "par")
                                /\ text[s[to]] \in Finals
                                /\ \E mid \in (from + 2)..to : Left(mid)
        /\ CSI(t, from + d, to + d)
              <=> /\ Is(t, (from + d) + 1, "csi") \/ Is(t, (from + d) + 1, "par")
                  /\ text[t[to + d]] \in Finals
                  /\ \E mid \in ((from + d) + 2)..(to + d) : Right(mid)
    BY DEF CSI
  <2> HIDE DEF Left, Right
  <2>8. (\E mid \in (from + 2)..to : Left(mid))
           => \E mid \in ((from + d) + 2)..(to + d) : Right(mid)
    BY <2>4, <2>6
  <2>9. (\E mid \in ((from + d) + 2)..(to + d) : Right(mid))
           => \E mid \in (from + 2)..to : Left(mid)
    <3> SUFFICES ASSUME NEW mid \in ((from + d) + 2)..(to + d), Right(mid)
                 PROVE  \E i \in (from + 2)..to : Left(i)
      OBVIOUS
    <3>1. Right((mid - d) + d)
      BY <2>5
    <3> QED
      BY <2>5, <2>6, <3>1
  <2> QED
    BY <2>1, <2>2, <2>7, <2>8, <2>9
<1>4. OSC(s, from, to) <=> OSC(t, from + d, to + d)
  <2>1. ASSUME NEW m \in (from + 2)..to
        PROVE  EndsOSC(s, from, m) <=> EndsOSC(t, from + d, m + d)
    <3>1. /\ m \in from..to /\ m - 1 \in from..to /\ (m - 1) + d = (m + d) - 1
          /\ m > from + 1 <=> m + d > (from + d) + 1
          /\ m > from + 2 <=> m + d > (from + d) + 2
      BY <1>0
    <3>2. Is(s, m, "bel") <=> Is(t, m + d, "bel")
      BY <1>1, <3>1
    <3>3. Is(s, m, "st") <=> Is(t, m + d, "st")
      BY <1>1, <3>1
    <3>4. Is(s, m - 1, "esc") <=> Is(t, (m - 1) + d, "esc")
      BY <1>1, <3>1
    <3> QED
      BY <3>1, <3>2, <3>3, <3>4 DEF EndsOSC
  <2>2. Is(s, from + 1, "osc") <=> Is(t, (from + d) + 1, "osc")
    <3>1. from + 1 \in from..to /\ (from + 1) + d = (from + d) + 1
      BY SMTT(30), <1>0
    <3> QED
      BY <1>1, <3>1
  <2>3. CASE to < from + 2
    <3>1. to + d < (from + d) + 2
      BY <1>0, <2>3
    <3> QED
      BY <1>0, <2>3, <3>1 DEF OSC, EndsOSC
  <2>4. CASE ~(to < from + 2)
    <3>1. to \in (from + 2)..to
      BY <1>0, <2>4
    <3>2. ASSUME NEW m \in (from + 2)..(to - 1)
          PROVE  m + d \in ((from + d) + 2)..((to + d) - 1) /\ m \in (from + 2)..to
                 /\ m \in from..to
      BY <1>0
    <3>3. ASSUME NEW m \in ((from + d) + 2)..((to + d) - 1)
          PROVE  m - d \in (from + 2)..(to - 1) /\ (m - d) + d = m
      BY <1>0
    <3> DEFINE Left(m) == ~EndsOSC(s, from, m) /\ text[s[m]] # "nl"
               Right(m) == ~EndsOSC(t, from + d, m) /\ text[t[m]] # "nl"
    <3>4. \A m \in (from + 2)..(to - 1) : Left(m) <=> Right(m + d)
      BY <2>1, <3>2
    <3> HIDE DEF Left, Right
    <3>5. (\A m \in (from + 2)..(to - 1) : Left(m))
             <=> \A m \in ((from + d) + 2)..((to + d) - 1) : Right(m)
      BY <3>2, <3>3, <3>4
    <3>6. EndsOSC(s, from, to) <=> EndsOSC(t, from + d, to + d)
      BY <2>1, <3>1
    <3> QED
      BY <2>2, <3>5, <3>6 DEF OSC, Left, Right
  <2> QED
    BY <2>3, <2>4
<1>5. TwoBytes(s, from, to) <=> TwoBytes(t, from + d, to + d)
  <2>1. /\ from + 1 \in Int /\ to - 1 \in Int /\ from <= from + 1 /\ to - 1 <= to
        /\ (from + 1) + d = (from + d) + 1 /\ (to - 1) + d = (to + d) - 1
    BY <1>0
  <2>2. \A classes : All(s, from + 1, to - 1, classes)
                        <=> All(t, (from + 1) + d, (to - 1) + d, classes)
    BY <1>2, <2>1
  <2>3. text[s[to]] = text[t[to + d]]
    BY <1>t
  <2> QED
    BY <2>1, <2>2, <2>3 DEF TwoBytes
<1>6. Is(s, from, "esc") <=> Is(t, from + d, "esc")
  <2>1. from \in from..to
    BY SMTT(30), <1>0
  <2> QED
    BY <1>1, <2>1
<1> QED
  BY <1>3, <1>4, <1>5, <1>6 DEF Sequence

\* The positions from to to of the output are an escape sequence.
SequenceAt(from, to) == Sequence(Positions(0, Len(text)), from, to)

\* The position p of the output belongs to an escape sequence within a+1..b.
EscapeAt(a, b, p) ==
    \E from \in (a + 1)..p, to \in p..b : from < to /\ SequenceAt(from, to)

\* A carriage return at c leaves alone what is at p.
Spares(a, b, p, c) ==
    \/ \E k \in p..c : text[k] = "nl"
    \/ \E k \in (c + 1)..b : /\ text[k] = "nl"
                             /\ \A m \in (c + 1)..(k - 1) : text[m] \in Control \/ EscapeAt(a, b, m)

FinalAt(a, b, p) ==
    /\ text[p] \in Visible /\ ~EscapeAt(a, b, p)
    /\ \A c \in (p + 1)..b : text[c] = "cr" /\ ~EscapeAt(a, b, c) => Spares(a, b, p, c)

LEMMA EscapeOfPositions ==
    ASSUME text \in Seq(Classes), NEW a \in Nat, NEW b \in Nat, a <= b, b <= Len(text),
           NEW i \in 1..(b - a)
    PROVE  InEscape(Positions(a, b), i) <=> EscapeAt(a, b, a + i)
<1> DEFINE s == Positions(a, b)  t == Positions(0, Len(text))
<1>1. /\ s \in Seq(Nat) /\ DOMAIN s = 1..(b - a) /\ Len(s) = b - a
      /\ \A k \in 1..(b - a) : s[k] = a + k
  BY PositionsText
<1>2. /\ t \in Seq(Nat) /\ DOMAIN t = 1..Len(text) /\ Len(text) \in Nat
      /\ \A k \in 1..Len(text) : t[k] = k
  <2>1. 0 \in Nat /\ Len(text) \in Nat /\ 0 <= Len(text) /\ Len(text) <= Len(text)
    BY LenProperties
  <2>2. /\ t \in Seq(Nat) /\ DOMAIN t = 1..(Len(text) - 0)
        /\ \A k \in 1..(Len(text) - 0) : t[k] = 0 + k
    BY <2>1, PositionsText
  <2> QED
    BY <2>1, <2>2
<1>t. \A from, to : SequenceAt(from, to) <=> Sequence(t, from, to)
  BY DEF SequenceAt
<1> HIDE DEF s, t
<1>3. ASSUME NEW from \in 1..(b - a), NEW to \in 1..(b - a), from < to
      PROVE  Sequence(s, from, to) <=> SequenceAt(a + from, a + to)
  <2>0. Len(t) = Len(text)
    BY <1>2, LenProperties
  <2>1. /\ to + a <= Len(t) /\ to <= Len(s) /\ 1 <= from /\ from \in Nat /\ to \in Nat
        /\ from + a = a + from /\ to + a = a + to
    BY <1>1, <1>2, <2>0
  <2>2. ASSUME NEW m \in from..to PROVE text[s[m]] = text[t[m + a]]
    <3>1. m \in 1..(b - a) /\ m + a \in 1..Len(text) /\ m + a = a + m
      BY <1>2
    <3> QED
      BY <1>1, <1>2, <3>1
  <2>3. Sequence(s, from, to) <=> Sequence(t, from + a, to + a)
    BY <1>1, <1>2, <1>3, <2>1, <2>2, SequenceMoves
  <2> QED
    BY <1>t, <2>1, <2>3
<1>4. ASSUME InEscape(s, i) PROVE EscapeAt(a, b, a + i)
  <2>1. PICK from \in 1..i, to \in i..(b - a) : from < to /\ Sequence(s, from, to)
    BY <1>1, <1>4 DEF InEscape
  <2>2. from \in 1..(b - a) /\ to \in 1..(b - a) /\ a + from \in (a + 1)..(a + i)
        /\ a + to \in (a + i)..b /\ a + from < a + to
    BY <2>1
  <2>3. SequenceAt(a + from, a + to)
    BY <1>3, <2>1, <2>2
  <2> QED
    BY <2>2, <2>3 DEF EscapeAt
<1>5. ASSUME EscapeAt(a, b, a + i) PROVE InEscape(s, i)
  <2>1. PICK from \in (a + 1)..(a + i), to \in (a + i)..b : from < to /\ SequenceAt(from, to)
    BY <1>5 DEF EscapeAt
  <2>2. /\ from - a \in 1..i /\ to - a \in i..(b - a) /\ from - a < to - a
        /\ from - a \in 1..(b - a) /\ to - a \in 1..(b - a)
        /\ a + (from - a) = from /\ a + (to - a) = to
    BY <2>1
  <2>3. Sequence(s, from - a, to - a)
    BY <1>3, <2>1, <2>2
  <2> QED
    BY <1>1, <2>2, <2>3 DEF InEscape
<1> QED
  BY <1>4, <1>5 DEF s

LEMMA FinalOfPositions ==
    ASSUME text \in Seq(Classes), NEW a \in Nat, NEW b \in Nat, a <= b, b <= Len(text),
           NEW i \in 1..(b - a)
    PROVE  Final(Positions(a, b), i) <=> FinalAt(a, b, a + i)
<1> DEFINE s == Positions(a, b)
<1>1. DOMAIN s = 1..(b - a) /\ Len(s) = b - a /\ \A k \in 1..(b - a) : s[k] = a + k
  BY PositionsText
<1>e. \A k \in 1..(b - a) : InEscape(s, k) <=> EscapeAt(a, b, a + k)
  BY EscapeOfPositions
<1> HIDE DEF s
<1>2. \A class : \A k \in 1..(b - a) : Is(s, k, class) <=> text[a + k] = class
  BY <1>1 DEF Is
<1> DEFINE SparesIn(j) ==
             \/ \E k \in i..j : Is(s, k, "nl")
             \/ \E k \in (j + 1)..Len(s) : Is(s, k, "nl")
                   /\ \A m \in (j + 1)..(k - 1) : text[s[m]] \in Control \/ InEscape(s, m)
<1>3. ASSUME NEW j \in (i + 1)..(b - a) PROVE SparesIn(j) <=> Spares(a, b, a + i, a + j)
  <2>1. (\E k \in i..j : Is(s, k, "nl")) => \E x \in (a + i)..(a + j) : text[x] = "nl"
    <3> SUFFICES ASSUME NEW k \in i..j, Is(s, k, "nl")
                 PROVE  \E x \in (a + i)..(a + j) : text[x] = "nl"
      OBVIOUS
    <3>1. k \in 1..(b - a) /\ a + k \in (a + i)..(a + j)
      OBVIOUS
    <3> QED
      BY <1>2, <3>1
  <2>2. (\E x \in (a + i)..(a + j) : text[x] = "nl") => \E k \in i..j : Is(s, k, "nl")
    <3> SUFFICES ASSUME NEW x \in (a + i)..(a + j), text[x] = "nl"
                 PROVE  \E k \in i..j : Is(s, k, "nl")
      OBVIOUS
    <3>1. x - a \in 1..(b - a) /\ x - a \in i..j /\ a + (x - a) = x
      OBVIOUS
    <3> QED
      BY <1>2, <3>1
  <2>3. ASSUME NEW k \in (j + 1)..Len(s), Is(s, k, "nl"),
               \A m \in (j + 1)..(k - 1) : text[s[m]] \in Control \/ InEscape(s, m)
        PROVE  Spares(a, b, a + i, a + j)
    <3>1. k \in 1..(b - a) /\ a + k \in ((a + j) + 1)..b
      BY <1>1
    <3>2. ASSUME NEW x \in ((a + j) + 1)..((a + k) - 1)
          PROVE  text[x] \in Control \/ EscapeAt(a, b, x)
      <4>1. x - a \in 1..(b - a) /\ x - a \in (j + 1)..(k - 1) /\ a + (x - a) = x
        BY <1>1
      <4>2. text[s[x - a]] \in Control \/ InEscape(s, x - a)
        BY <2>3, <4>1
      <4> QED
        BY <1>1, <1>e, <4>1, <4>2
    <3>3. text[a + k] = "nl"
      BY <1>2, <2>3, <3>1
    <3> QED
      BY <3>1, <3>2, <3>3 DEF Spares
  <2>4. ASSUME NEW y \in ((a + j) + 1)..b, text[y] = "nl",
               \A m \in ((a + j) + 1)..(y - 1) : text[m] \in Control \/ EscapeAt(a, b, m)
        PROVE  SparesIn(j)
    <3>1. y - a \in (j + 1)..Len(s) /\ y - a \in 1..(b - a) /\ a + (y - a) = y
      BY <1>1
    <3>2. Is(s, y - a, "nl")
      BY <1>2, <2>4, <3>1
    <3>3. ASSUME NEW m \in (j + 1)..((y - a) - 1) PROVE text[s[m]] \in Control \/ InEscape(s, m)
      <4>1. m \in 1..(b - a) /\ a + m \in ((a + j) + 1)..(y - 1)
        BY <1>1
      <4>2. text[a + m] \in Control \/ EscapeAt(a, b, a + m)
        BY <2>4, <4>1
      <4> QED
        BY <1>1, <1>e, <4>1, <4>2
    <3> QED
      BY <3>1, <3>2, <3>3
  <2> QED
    BY <2>1, <2>2, <2>3, <2>4 DEF Spares
<1>4. Final(s, i) <=> /\ text[a + i] \in Visible /\ ~EscapeAt(a, b, a + i)
                      /\ \A j \in (i + 1)..(b - a) : text[a + j] = "cr" /\ ~EscapeAt(a, b, a + j) => SparesIn(j)
  <2>1. \A j \in (i + 1)..(b - a) :
           Returns(s, j) <=> text[a + j] = "cr" /\ ~EscapeAt(a, b, a + j)
    <3>1. \A j \in (i + 1)..(b - a) : j \in 1..(b - a)
      OBVIOUS
    <3> QED
      BY <1>2, <1>e, <3>1 DEF Returns
  <2>2. \A j : ~SameLine(s, i, j) <=> \E k \in i..j : Is(s, k, "nl")
    BY DEF SameLine
  <2>3. NotReturnedTo(s, i) <=> \A j \in (i + 1)..(b - a) : Returns(s, j) => SparesIn(j)
    BY <1>1, <2>2 DEF NotReturnedTo
  <2> HIDE DEF SparesIn
  <2> QED
    BY <1>1, <1>e, <2>1, <2>3 DEF Final
<1> HIDE DEF SparesIn
<1>5. (\A j \in (i + 1)..(b - a) : text[a + j] = "cr" /\ ~EscapeAt(a, b, a + j) => SparesIn(j))
         <=> \A c \in ((a + i) + 1)..b : text[c] = "cr" /\ ~EscapeAt(a, b, c) => Spares(a, b, a + i, c)
  <2>1. ASSUME \A j \in (i + 1)..(b - a) : text[a + j] = "cr" /\ ~EscapeAt(a, b, a + j) => SparesIn(j),
               NEW c \in ((a + i) + 1)..b, text[c] = "cr", ~EscapeAt(a, b, c)
        PROVE  Spares(a, b, a + i, c)
    <3>1. c - a \in (i + 1)..(b - a) /\ a + (c - a) = c
      OBVIOUS
    <3>2. SparesIn(c - a)
      BY <2>1, <3>1
    <3>3. Spares(a, b, a + i, a + (c - a))
      BY <1>3, <3>1, <3>2
    <3> QED
      BY <3>1, <3>3
  <2>2. ASSUME \A c \in ((a + i) + 1)..b : text[c] = "cr" /\ ~EscapeAt(a, b, c) => Spares(a, b, a + i, c),
               NEW j \in (i + 1)..(b - a), text[a + j] = "cr", ~EscapeAt(a, b, a + j)
        PROVE  SparesIn(j)
    <3>1. a + j \in ((a + i) + 1)..b
      OBVIOUS
    <3> QED
      BY <1>3, <2>2, <3>1
  <2> QED
    BY <2>1, <2>2
<1> QED
  BY <1>4, <1>5 DEF FinalAt, s

\* A newline is in no escape sequence, and ends those before it.
LEMMA EscapesWithinLines ==
    ASSUME text \in Seq(Classes), NEW r \in Nat, NEW b \in Nat, 0 < r, r <= b, b <= Len(text),
           text[r] = "nl"
    PROVE  /\ \A p \in 1..r : EscapeAt(0, b, p) <=> EscapeAt(0, r, p)
           /\ \A p \in (r + 1)..b : EscapeAt(0, b, p) <=> EscapeAt(r, b, p)
           /\ ~EscapeAt(0, b, r)
<1>1. ASSUME NEW from \in 1..b, NEW to \in 1..b, from < to, SequenceAt(from, to),
             from <= r, r <= to
      PROVE  FALSE
  <2> DEFINE t == Positions(0, Len(text))
  <2>1. 0 \in Nat /\ Len(text) \in Nat /\ 0 <= Len(text) /\ Len(text) <= Len(text)
    BY LenProperties
  <2>2. /\ t \in Seq(Nat) /\ DOMAIN t = 1..(Len(text) - 0)
        /\ \A k \in 1..(Len(text) - 0) : t[k] = 0 + k
    BY <2>1, PositionsText
  <2>3. Sequence(t, from, to)
    BY <1>1 DEF SequenceAt
  <2> HIDE DEF t
  <2>4. from \in DOMAIN t /\ to \in DOMAIN t /\ r \in from..to /\ r \in 1..(Len(text) - 0)
    BY <1>1, <2>1, <2>2
  <2>5. text[t[r]] # "nl"
    BY <1>1, <2>2, <2>3, <2>4, SequenceClasses
  <2> QED
    BY <2>2, <2>4, <2>5
<1>3. ASSUME NEW p \in 1..r PROVE EscapeAt(0, b, p) <=> EscapeAt(0, r, p)
  <2>1. ASSUME NEW from \in (0 + 1)..p, NEW to \in p..b, from < to, SequenceAt(from, to)
        PROVE  to \in p..r
    <3>1. from \in 1..b /\ to \in 1..b /\ from <= r
      OBVIOUS
    <3>2. ~(r <= to)
      BY <1>1, <2>1, <3>1
    <3> QED
      BY <3>1, <3>2
  <2>2. p..r \subseteq p..b
    OBVIOUS
  <2> QED
    BY <2>1, <2>2 DEF EscapeAt
<1>4. ASSUME NEW p \in (r + 1)..b PROVE EscapeAt(0, b, p) <=> EscapeAt(r, b, p)
  <2>1. ASSUME NEW from \in (0 + 1)..p, NEW to \in p..b, from < to, SequenceAt(from, to)
        PROVE  from \in (r + 1)..p
    <3>1. from \in 1..b /\ to \in 1..b /\ r <= to
      OBVIOUS
    <3>2. ~(from <= r)
      BY <1>1, <2>1, <3>1
    <3> QED
      BY <3>1, <3>2
  <2>2. (r + 1)..p \subseteq (0 + 1)..p
    OBVIOUS
  <2> QED
    BY <2>1, <2>2 DEF EscapeAt
<1>5. ~EscapeAt(0, b, r)
  <2>1. ASSUME NEW from \in (0 + 1)..r, NEW to \in r..b, from < to, SequenceAt(from, to)
        PROVE  FALSE
    <3>1. from \in 1..b /\ to \in 1..b /\ from <= r /\ r <= to
      OBVIOUS
    <3> QED
      BY <1>1, <2>1, <3>1
  <2> QED
    BY <2>1 DEF EscapeAt
<1> QED
  BY <1>3, <1>4, <1>5

\* What stays of two texts, of which the first ends a line, is what stays of each.
LEMMA FinalWithinLines ==
    ASSUME text \in Seq(Classes), NEW r \in Nat, NEW b \in Nat, 0 < r, r <= b, b <= Len(text),
           text[r] = "nl"
    PROVE  /\ \A p \in 1..r : FinalAt(0, b, p) <=> FinalAt(0, r, p)
           /\ \A p \in (r + 1)..b : FinalAt(0, b, p) <=> FinalAt(r, b, p)
<1>e. /\ \A p \in 1..r : EscapeAt(0, b, p) <=> EscapeAt(0, r, p)
      /\ \A p \in (r + 1)..b : EscapeAt(0, b, p) <=> EscapeAt(r, b, p)
      /\ ~EscapeAt(0, b, r)
  BY EscapesWithinLines
<1>1. ASSUME NEW p \in 1..r, NEW c \in (p + 1)..r, Spares(0, b, p, c)
      PROVE  Spares(0, r, p, c)
  <2>1. CASE \E k \in p..c : text[k] = "nl"
    BY <2>1 DEF Spares
  <2>2. CASE ~\E k \in p..c : text[k] = "nl"
    <3>1. PICK k \in (c + 1)..b :
             /\ text[k] = "nl"
             /\ \A m \in (c + 1)..(k - 1) : text[m] \in Control \/ EscapeAt(0, b, m)
      BY <1>1, <2>2 DEF Spares
    <3>2. c < r
      BY <2>2
    <3>3. k <= r
      <4>1. ASSUME r < k PROVE FALSE
        <5>1. r \in (c + 1)..(k - 1)
          BY <3>2, <4>1
        <5>2. text[r] \in Control
          BY <1>e, <3>1, <5>1
        <5> QED
          BY <5>2 DEF Control
      <4> QED
        BY <4>1
    <3>4. k \in (c + 1)..r /\ \A m \in (c + 1)..(k - 1) : m \in 1..r
      BY <3>3
    <3>5. \A m \in (c + 1)..(k - 1) : text[m] \in Control \/ EscapeAt(0, r, m)
      BY <1>e, <3>1, <3>4
    <3> QED
      BY <3>1, <3>4, <3>5 DEF Spares
  <2> QED
    BY <2>1, <2>2
<1>2. ASSUME NEW p \in 1..r, NEW c \in (p + 1)..r, Spares(0, r, p, c)
      PROVE  Spares(0, b, p, c)
  <2>1. ASSUME NEW k \in (c + 1)..r, text[k] = "nl",
               \A m \in (c + 1)..(k - 1) : text[m] \in Control \/ EscapeAt(0, r, m)
        PROVE  Spares(0, b, p, c)
    <3>1. k \in (c + 1)..b /\ \A m \in (c + 1)..(k - 1) : m \in 1..r
      OBVIOUS
    <3>2. \A m \in (c + 1)..(k - 1) : text[m] \in Control \/ EscapeAt(0, b, m)
      BY <1>e, <2>1, <3>1
    <3> QED
      BY <2>1, <3>1, <3>2 DEF Spares
  <2> QED
    BY <1>2, <2>1 DEF Spares
<1>3. ASSUME NEW p \in 1..r, NEW c \in (r + 1)..b PROVE Spares(0, b, p, c)
  <2>1. r \in p..c
    OBVIOUS
  <2> QED
    BY <2>1 DEF Spares
<1>4. ASSUME NEW p \in 1..r PROVE FinalAt(0, b, p) <=> FinalAt(0, r, p)
  <2>1. \A c \in (p + 1)..b : c \in (p + 1)..r \/ c \in (r + 1)..b
    OBVIOUS
  <2>2. (p + 1)..r \subseteq (p + 1)..b
    OBVIOUS
  <2> QED
    BY <1>1, <1>2, <1>3, <1>e, <2>1, <2>2 DEF FinalAt
<1>5. ASSUME NEW p \in (r + 1)..b, NEW c \in (p + 1)..b
      PROVE  Spares(0, b, p, c) <=> Spares(r, b, p, c)
  <2>1. ASSUME NEW k \in (c + 1)..b, NEW m \in (c + 1)..(k - 1)
        PROVE  EscapeAt(0, b, m) <=> EscapeAt(r, b, m)
    <3>1. m \in (r + 1)..b
      OBVIOUS
    <3> QED
      BY <1>e, <3>1
  <2> QED
    BY <2>1 DEF Spares
<1>6. \A p \in (r + 1)..b : FinalAt(0, b, p) <=> FinalAt(r, b, p)
  BY <1>5, <1>e DEF FinalAt
<1> QED
  BY <1>4, <1>6

\* What stays of a text from its start, as a set.
LEMMA FinalOfOutput ==
    ASSUME text \in Seq(Classes), NEW a \in Nat, NEW b \in Nat, a <= b, b <= Len(text)
    PROVE  LET f == FinalOf(Positions(a, b))
           IN  /\ f \in Seq(Nat) /\ Increasing(f)
               /\ \A x : x \in ToSet(f) <=> x \in (a + 1)..b /\ FinalAt(a, b, x)
<1> DEFINE s == Positions(a, b)
           keep == {i \in DOMAIN s : Final(s, i)}
<1>1. /\ s \in Seq(Nat) /\ Increasing(s) /\ DOMAIN s = 1..(b - a)
      /\ \A i \in 1..(b - a) : s[i] = a + i
      /\ \A x : x \in ToSet(s) <=> x \in (a + 1)..b
  BY PositionsText
<1>2. \A i \in 1..(b - a) : Final(s, i) <=> FinalAt(a, b, a + i)
  BY FinalOfPositions
<1>3. \A i \in DOMAIN s : i \in keep <=> Final(s, i)
  OBVIOUS
<1>4. FinalOf(s) = KeepAt(s, keep)
  BY DEF FinalOf
<1> HIDE DEF s, keep
<1>5. /\ FinalOf(s) \in Seq(Nat) /\ Increasing(FinalOf(s)) /\ ToSet(FinalOf(s)) \subseteq ToSet(s)
      /\ \A i \in DOMAIN s : s[i] \in ToSet(FinalOf(s)) <=> i \in keep
  BY <1>1, <1>4, KeepAtSet
<1>6. ASSUME NEW x \in (a + 1)..b PROVE x \in ToSet(FinalOf(s)) <=> FinalAt(a, b, x)
  <2>1. x - a \in 1..(b - a) /\ a + (x - a) = x
    OBVIOUS
  <2>2. s[x - a] = x /\ x - a \in DOMAIN s
    BY <1>1, <2>1
  <2> QED
    BY <1>2, <1>3, <1>5, <2>1, <2>2
<1> QED
  BY <1>1, <1>5, <1>6 DEF s

--------------------------------------------------------------------------------
(* FinalContentIsShown. *)

\* What a line is not returned to for, nothing takes the place of, wherever the line
\* began: the columns grow from it on.
LEMMA FinalStays ==
    ASSUME text \in Seq(Classes), NEW a \in Nat, NEW b \in Nat, a <= b, b <= Len(text),
           NEW p \in (a + 1)..b, FinalAt(a, b, p)
    PROVE  ~Overwritten(Positions(0, b), p)
<1> DEFINE s == Positions(0, b)
<1>0. 0 \in Nat /\ 0 <= b /\ b - 0 = b /\ \A k \in 1..b : 0 + k = k
  OBVIOUS
<1>1. /\ DOMAIN s = 1..(b - 0) /\ Len(s) = b - 0 /\ \A k \in 1..(b - 0) : s[k] = 0 + k
      /\ \A k \in 1..(b - 0) : InEscape(s, k) <=> EscapeAt(0, b, 0 + k)
  BY <1>0, PositionsText, EscapeOfPositions
<1> HIDE DEF s
<1>2. /\ DOMAIN s = 1..b /\ Len(s) = b /\ \A k \in 1..b : s[k] = k
      /\ \A k \in 1..b : InEscape(s, k) <=> EscapeAt(0, b, k)
  BY <1>0, <1>1
<1>3. \A k : EscapeAt(a, b, k) => EscapeAt(0, b, k)
  <2>1. \A k : (a + 1)..k \subseteq (0 + 1)..k
    OBVIOUS
  <2> QED
    BY <2>1 DEF EscapeAt
<1> SUFFICES ASSUME Overwritten(s, p) PROVE FALSE
  BY DEF s
<1>4. PICK j \in (p + 1)..b : /\ Printed(s, j) /\ SameLine(s, p, j)
                              /\ Column(s, p) = Column(s, j)
  BY <1>2 DEF Overwritten
<1>5. Printed(s, p) /\ p \in 1..b /\ j \in 1..b /\ p < j
  BY DEF Overwritten
<1>6. \A k \in p..j : text[k] # "nl"
  <2>1. \A k \in p..j : k \in 1..b
    BY <1>5
  <2> QED
    BY <1>2, <1>4, <2>1 DEF SameLine, Is
<1>7. text[j] \notin Control /\ text[j] # "cr" /\ ~EscapeAt(a, b, j)
  BY <1>2, <1>3, <1>4, <1>5 DEF Printed, Visible, Finals, Marks, Control
<1>8. ASSUME NEW c \in p..j, Returns(s, c) PROVE FALSE
  <2>1. c \in 1..b /\ text[c] = "cr" /\ ~EscapeAt(a, b, c)
    <3>1. c \in 1..b
      BY <1>5
    <3> QED
      BY <1>2, <1>3, <1>8, <3>1 DEF Returns, Is
  <2>2. c # p /\ c # j
    BY <1>7, <2>1 DEF FinalAt, Visible, Finals, Marks
  <2>3. c \in (p + 1)..b /\ c < j
    BY <1>5, <2>1, <2>2
  <2>4. Spares(a, b, p, c)
    BY <2>1, <2>3 DEF FinalAt
  <2>5. ~\E k \in p..c : text[k] = "nl"
    <3>1. p..c \subseteq p..j
      BY <1>5, <2>3
    <3> QED
      BY <1>6, <3>1
  <2>6. PICK k \in (c + 1)..b :
           text[k] = "nl" /\ \A m \in (c + 1)..(k - 1) : text[m] \in Control \/ EscapeAt(a, b, m)
    BY <2>4, <2>5 DEF Spares
  <2>7. CASE k <= j
    <3>1. k \in p..j
      BY <2>3, <2>7
    <3> QED
      BY <1>6, <2>6, <3>1
  <2>8. CASE ~(k <= j)
    <3>1. j \in (c + 1)..(k - 1)
      BY <2>3, <2>8
    <3> QED
      BY <1>7, <2>6, <3>1
  <2> QED
    BY <2>7, <2>8
<1> DEFINE Before(i) == {k \in 1..(i - 1) :
               Printed(s, k) /\ SameLine(s, k, i) /\ \A c \in k..i : ~Returns(s, c)}
<1>9. Column(s, p) = Cardinality(Before(p)) /\ Column(s, j) = Cardinality(Before(j))
  BY DEF Column
<1>10. p \in Before(j) /\ p \notin Before(p)
  BY <1>4, <1>5, <1>8
<1>11. ASSUME NEW k \in Before(p) PROVE k \in Before(j)
  <2>1. k \in 1..(j - 1) /\ k..j \subseteq (k..p) \cup (p..j)
    BY <1>5
  <2> QED
    BY <1>4, <1>8, <2>1 DEF SameLine
<1>12. IsFiniteSet(Before(j))
  <2>1. Before(j) \in SUBSET (1..(j - 1)) /\ IsFiniteSet(1..(j - 1))
    <3>1. 1 \in Int /\ j - 1 \in Int
      BY <1>5
    <3> QED
      BY <3>1, FS_Interval
  <2> HIDE DEF Before
  <2> QED
    BY <2>1, FS_Subset
<1> HIDE DEF Before
<1>13. Cardinality(Before(p)) = Cardinality(Before(j)) => Before(p) = Before(j)
  <2>1. Before(p) \in SUBSET Before(j)
    BY <1>11
  <2> QED
    BY <1>12, <2>1, FS_Subset
<1> QED
  BY <1>4, <1>9, <1>10, <1>13

\* Nothing that a read returns is overwritten on the screen, or belongs to an escape
\* sequence that the read has whole; all that is visible in lines the read does not
\* return to is returned; and that in order, in lines as they were written, with one
\* blank line at most between two of them (compact.go:14-97).
THEOREM FinalIsShown == Spec => []FinalContentIsShown
<1>1. TextInv /\ FinalInv => FinalContentIsShown
  <2> SUFFICES ASSUME TextInv, FinalInv PROVE FinalContentIsShown
    OBVIOUS
  <2> DEFINE seen == VisibleOf(last)
             full == {i \in DOMAIN Piece : text[Piece[i]] \in Visible /\ ~InEscape(Piece, i)}
             keep == {i \in DOMAIN Piece : Final(Piece, i)}
  <2>1. /\ seen = KeepAt(Piece, keep) /\ keep \in SUBSET full
        /\ \A i \in full : NotReturnedTo(Piece, i) => i \in keep
    BY DEF FinalInv, ShowsFinal, FinalOf, Final
  <2>2. ShowsLines(seen, Piece, last)
    BY DEF FinalInv, ShowsFinal
  <2>3. ASSUME NEW i \in DOMAIN seen PROVE ~Overwritten(Positions(0, ReadUpTo), seen[i])
    <3>1. text \in Seq(Classes) /\ Len(text) \in Nat /\ reads \in Seq(1..Len(text))
          /\ DOMAIN reads = 1..Len(reads) /\ Len(reads) \in Nat
      BY LenProperties DEF TextInv
    <3>2. \A k \in 1..Len(reads) : reads[k] \in 1..Len(text)
      BY <3>1, ElementOfSeq
    <3>3. Piece \in Seq(Nat) /\ seen = FinalOf(Piece)
      <4>1. 1..Len(text) \subseteq Nat
        BY <3>1
      <4> QED
        BY <4>1, SeqMonotonic DEF FinalInv, ShowsFinal
    <3>4. seen[i] \in ToSet(seen)
      BY DEF ToSet
    <3>5. Len(reads) # 0 /\ \E a \in Nat : Piece = Positions(a, ReadUpTo) /\ ReadUpTo \in 1..Len(text)
      <4>1. ASSUME Len(reads) = 0 PROVE FALSE
        <5>1. Piece = <<>> /\ Increasing(<<>>) /\ ToSet(<<>>) = {} /\ <<>> \in Seq(Nat)
          BY <4>1, EmptySeq DEF Piece, Increasing, ToSet
        <5>2. ToSet(seen) \subseteq ToSet(Piece)
          BY <2>1, <5>1, KeepAtSet
        <5> QED
          BY <3>4, <5>1, <5>2
      <4>2. reads # <<>>
        BY <3>1, <4>1
      <4>3. ReadUpTo = reads[Len(reads)] /\ Len(reads) \in 1..Len(reads)
        BY <3>1, <4>1, <4>2 DEF ReadUpTo, Last
      <4>4. Piece = Positions(IF Len(reads) = 1 THEN 0 ELSE reads[Len(reads) - 1], ReadUpTo)
        BY <4>1, <4>3 DEF Piece
      <4>5. Len(reads) # 1 => Len(reads) - 1 \in 1..Len(reads)
        BY <3>1, <4>1
      <4>6. (IF Len(reads) = 1 THEN 0 ELSE reads[Len(reads) - 1]) \in Nat
        BY <3>1, <3>2, <4>5
      <4> QED
        BY <3>2, <4>1, <4>3, <4>4, <4>6
    <3>6. PICK a \in Nat, b \in 1..Len(text) : Piece = Positions(a, b) /\ b = ReadUpTo
      BY <3>5
    <3> HIDE DEF seen
    <3>7. CASE a <= b
      <4>1. b \in Nat /\ b <= Len(text)
        BY <3>1
      <4>2. \A x : x \in ToSet(FinalOf(Positions(a, b))) <=> x \in (a + 1)..b /\ FinalAt(a, b, x)
        BY <3>1, <3>7, <4>1, FinalOfOutput
      <4>3. seen[i] \in (a + 1)..b /\ FinalAt(a, b, seen[i])
        BY <3>3, <3>4, <3>6, <4>2
      <4> QED
        BY <3>1, <3>6, <3>7, <4>1, <4>3, FinalStays
    <3>8. CASE ~(a <= b)
      <4>1. DOMAIN Piece = {}
        BY <3>6, <3>8 DEF Positions
      <4>2. ToSet(Piece) = {} /\ Increasing(Piece)
        BY <4>1 DEF ToSet, Increasing
      <4>3. ToSet(seen) \subseteq ToSet(Piece)
        BY <2>1, <3>3, <4>2, KeepAtSet DEF seen
      <4> QED
        BY <3>4, <4>2, <4>3
    <3> QED
      BY <3>7, <3>8
  <2>4. \A i \in 1..(Len(seen) - 1) :
           LET written == Newlines(Piece, seen[i], seen[i + 1]) IN
           Newlines(last, seen[i], seen[i + 1]) = IF written > 2 THEN 2 ELSE written
    BY <2>2 DEF ShowsLines
  <2> QED
    BY <2>1, <2>3, <2>4 DEF FinalContentIsShown
<1> QED
  BY <1>1, FinalInvariant, TextInvariant, PTL DEF Spec

--------------------------------------------------------------------------------
(* WholeLinesCompose. *)

\* What is visible of a text, as a set.
LEMMA VisibleSet ==
    ASSUME NEW s \in Seq(Nat), Increasing(s)
    PROVE  /\ VisibleOf(s) \in Seq(Nat) /\ Increasing(VisibleOf(s))
           /\ \A x : x \in ToSet(VisibleOf(s)) <=> x \in ToSet(s) /\ text[x] \in Visible
<1> DEFINE keep == {i \in DOMAIN s : text[s[i]] \in Visible}
<1>1. \A i \in DOMAIN s : i \in keep <=> text[s[i]] \in Visible
  OBVIOUS
<1>2. VisibleOf(s) = KeepAt(s, keep)
  BY DEF VisibleOf
<1> HIDE DEF keep
<1>3. /\ VisibleOf(s) \in Seq(Nat) /\ Increasing(VisibleOf(s))
      /\ ToSet(VisibleOf(s)) \subseteq ToSet(s)
      /\ \A i \in DOMAIN s : s[i] \in ToSet(VisibleOf(s)) <=> i \in keep
  BY <1>2, KeepAtSet
<1>4. ASSUME NEW x \in ToSet(s) PROVE x \in ToSet(VisibleOf(s)) <=> text[x] \in Visible
  <2>1. PICK i \in DOMAIN s : s[i] = x
    BY DEF ToSet
  <2> QED
    BY <1>1, <1>3, <2>1
<1> QED
  BY <1>3, <1>4

\* Two texts, one behind the other.
LEMMA ConcatSet ==
    ASSUME NEW r \in Nat, NEW b \in Nat, r <= b,
           NEW s \in Seq(1..r), Increasing(s), NEW t \in Seq((r + 1)..b), Increasing(t)
    PROVE  /\ s \o t \in Seq(Nat) /\ s \o t \in Seq(1..b) /\ Increasing(s \o t)
           /\ ToSet(s \o t) = ToSet(s) \cup ToSet(t)
<1> DEFINE u == s \o t
<1>0. 1..r \subseteq 1..b /\ (r + 1)..b \subseteq 1..b /\ 1..b \subseteq Nat
  OBVIOUS
<1>1. s \in Seq(1..b) /\ t \in Seq(1..b)
  BY <1>0, SeqMonotonic
<1>2. /\ u \in Seq(1..b) /\ Len(u) = Len(s) + Len(t)
      /\ \A i \in 1..(Len(s) + Len(t)) : u[i] = IF i <= Len(s) THEN s[i] ELSE t[i - Len(s)]
  BY <1>1, ConcatProperties
<1>3. u \in Seq(Nat)
  BY <1>0, <1>2, SeqMonotonic
<1>4. /\ DOMAIN s = 1..Len(s) /\ Len(s) \in Nat /\ \A i \in 1..Len(s) : s[i] \in 1..r
      /\ DOMAIN t = 1..Len(t) /\ Len(t) \in Nat /\ \A i \in 1..Len(t) : t[i] \in (r + 1)..b
      /\ DOMAIN u = 1..(Len(s) + Len(t))
  BY <1>2, LenProperties, ElementOfSeq
<1> HIDE DEF u
<1>5. ASSUME NEW i \in DOMAIN u, NEW j \in DOMAIN u, i < j PROVE u[i] < u[j]
  <2>1. CASE j <= Len(s)
    BY <1>2, <1>4, <1>5, <2>1 DEF Increasing
  <2>2. CASE i <= Len(s) /\ ~(j <= Len(s))
    <3>1. i \in 1..Len(s) /\ j - Len(s) \in 1..Len(t)
      BY SMTT(30), <1>4, <2>2
    <3>2. u[i] = s[i] /\ u[j] = t[j - Len(s)] /\ s[i] \in 1..r /\ t[j - Len(s)] \in (r + 1)..b
      BY <1>2, <1>4, <2>2, <3>1
    <3> QED
      BY <3>2
  <2>3. CASE ~(i <= Len(s))
    <3>1. /\ i - Len(s) \in 1..Len(t) /\ j - Len(s) \in 1..Len(t) /\ i - Len(s) < j - Len(s)
          /\ ~(j <= Len(s))
      BY SMTT(30), <1>4, <1>5, <2>3
    <3>2. u[i] = t[i - Len(s)] /\ u[j] = t[j - Len(s)]
      BY <1>2, <1>4, <2>3, <3>1
    <3> QED
      BY <1>4, <3>1, <3>2 DEF Increasing
  <2> QED
    BY <1>4, <2>1, <2>2, <2>3
<1>6. ASSUME NEW x \in ToSet(u) PROVE x \in ToSet(s) \cup ToSet(t)
  <2>1. PICK i \in DOMAIN u : u[i] = x
    BY DEF ToSet
  <2>2. CASE i <= Len(s)
    <3>1. i \in DOMAIN s /\ s[i] = x
      BY <1>2, <1>4, <2>1, <2>2
    <3> QED
      BY <3>1 DEF ToSet
  <2>3. CASE ~(i <= Len(s))
    <3>1. i - Len(s) \in DOMAIN t /\ t[i - Len(s)] = x
      BY SMTT(30), <1>2, <1>4, <2>1, <2>3
    <3> QED
      BY <3>1 DEF ToSet
  <2> QED
    BY <2>2, <2>3
<1>7. ASSUME NEW x \in ToSet(s) PROVE x \in ToSet(u)
  <2>1. PICK i \in DOMAIN s : s[i] = x
    BY DEF ToSet
  <2>2. i \in DOMAIN u /\ u[i] = x
    BY SMTT(30), <1>2, <1>4, <2>1
  <2> QED
    BY <2>2 DEF ToSet
<1>8. ASSUME NEW x \in ToSet(t) PROVE x \in ToSet(u)
  <2>1. PICK i \in DOMAIN t : t[i] = x
    BY DEF ToSet
  <2>2. /\ Len(s) + i \in DOMAIN u /\ ~(Len(s) + i <= Len(s)) /\ (Len(s) + i) - Len(s) = i
    BY <1>4
  <2>3. u[Len(s) + i] = x
    BY <1>2, <1>4, <2>1, <2>2
  <2> QED
    BY <2>2, <2>3 DEF ToSet
<1>9. ToSet(u) = ToSet(s) \cup ToSet(t)
  BY <1>6, <1>7, <1>8
<1>10. Increasing(u)
  BY <1>5 DEF Increasing
<1> QED
  BY <1>2, <1>3, <1>9, <1>10 DEF u

\* Every read so far ended at the end of a line.
WholeLines == \A i \in DOMAIN reads : text[reads[i]] = "nl"

\* What is shown is in order, and of what was read; if the reads cut between lines it is
\* what stays of all that was read.
ComposeInv ==
    /\ shown \in Seq(1..ReadUpTo) /\ Increasing(shown)
    /\ WholeLines => VisibleOf(shown) = FinalOf(Positions(0, ReadUpTo))

\* A read adds to what is shown what stays of its own text.
LEMMA ComposeRead ==
    ASSUME TextInv, ComposeInv, Read
    PROVE  ComposeInv'
<1> DEFINE r == ReadUpTo  b == Len(text)
           more == Compact(Strip(Positions(r, b)))
<1>1. /\ r \in Nat /\ b \in Nat /\ r < b /\ last' = more /\ shown' = shown \o more
      /\ reads' = Append(reads, b) /\ text' = text /\ text \in Seq(Classes)
  BY ReadText DEF TextInv
<1>n. 0 \in Nat /\ r <= b /\ b <= Len(text) /\ r <= Len(text) /\ 0 <= r /\ 0 <= b
      /\ \A n \in Nat : (0 + 1)..n = 1..n
  BY <1>1
<1>2. /\ Positions(r, b) \in Seq(Nat) /\ Increasing(Positions(r, b))
      /\ \A x : x \in ToSet(Positions(r, b)) <=> x \in (r + 1)..b
  BY <1>1, <1>n, PositionsText
<1>3. /\ VisibleOf(more) = FinalOf(Positions(r, b))
      /\ more \in Seq(Nat) /\ Increasing(more) /\ ToSet(more) \subseteq (r + 1)..b
  BY <1>2, FinalShown DEF FinalOf
<1>4. reads' \in Seq(1..b) /\ Len(reads') = Len(reads) + 1 /\ Len(reads) \in Nat
      /\ reads \in Seq(1..b) /\ reads'[Len(reads) + 1] = b
      /\ \A i \in 1..Len(reads) : reads'[i] = reads[i]
  <2>1. reads \in Seq(1..b) /\ b \in 1..b
    BY <1>1 DEF TextInv
  <2> QED
    BY <1>1, <2>1, AppendProperties, LenProperties
<1>5. ReadUpTo' = b
  <2>1. reads' # <<>>
    BY <1>4
  <2> QED
    BY <1>4, <2>1 DEF ReadUpTo, Last
<1> HIDE DEF more
<1>6. more \in Seq((r + 1)..b)
  <2>1. DOMAIN more = 1..Len(more) /\ Len(more) \in Nat
    BY <1>3, LenProperties
  <2>2. \A i \in 1..Len(more) : more[i] \in (r + 1)..b
    BY <1>3, <2>1 DEF ToSet
  <2>3. more = [i \in 1..Len(more) |-> more[i]]
    BY <1>3, <2>1, LenProperties
  <2>4. more \in [1..Len(more) -> (r + 1)..b]
    BY <2>2, <2>3
  <2> QED
    BY <2>1, <2>4, SeqDef
<1>7. shown \in Seq(1..r) /\ Increasing(shown) /\ r <= b
  BY <1>1 DEF ComposeInv
<1>8. /\ shown' \in Seq(Nat) /\ shown' \in Seq(1..b) /\ Increasing(shown')
      /\ ToSet(shown') = ToSet(shown) \cup ToSet(more)
  BY <1>1, <1>3, <1>6, <1>7, ConcatSet
<1>9. ASSUME WholeLines' PROVE VisibleOf(shown') = FinalOf(Positions(0, b))
  <2>1. DOMAIN reads = 1..Len(reads) /\ DOMAIN reads' = 1..(Len(reads) + 1)
    BY <1>4, LenProperties
  <2>2. WholeLines
    BY <1>1, <1>4, <1>9, <2>1 DEF WholeLines
  <2>3. r = 0 \/ text[r] = "nl"
    <3>1. CASE reads = <<>>
      BY <3>1 DEF ReadUpTo
    <3>2. CASE reads # <<>>
      <4>1. Len(reads) # 0
        BY <1>4, <3>2, EmptySeq
      <4>2. r = reads[Len(reads)] /\ Len(reads) \in DOMAIN reads
        BY <1>4, <2>1, <3>2, <4>1 DEF ReadUpTo, Last
      <4> QED
        BY <2>2, <4>2 DEF WholeLines
    <3> QED
      BY <3>1, <3>2
  <2>4. shown \in Seq(Nat)
    <3>1. 1..r \subseteq Nat
      BY <1>1
    <3> QED
      BY <1>7, <3>1, SeqMonotonic
  <2>5. /\ \A x : x \in ToSet(shown) /\ text[x] \in Visible <=> x \in 1..r /\ FinalAt(0, r, x)
        /\ \A x : x \in ToSet(more) /\ text[x] \in Visible
                     <=> x \in (r + 1)..b /\ FinalAt(r, b, x)
    <3>1. VisibleOf(shown) = FinalOf(Positions(0, r))
      BY <2>2 DEF ComposeInv
    <3>2. \A x : x \in ToSet(VisibleOf(shown)) <=> x \in ToSet(shown) /\ text[x] \in Visible
      BY <1>7, <2>4, VisibleSet
    <3>3. \A x : x \in ToSet(VisibleOf(more)) <=> x \in ToSet(more) /\ text[x] \in Visible
      BY <1>3, VisibleSet
    <3>4. \A x : x \in ToSet(FinalOf(Positions(0, r))) <=> x \in (0 + 1)..r /\ FinalAt(0, r, x)
      BY <1>1, <1>n, FinalOfOutput
    <3>5. \A x : x \in ToSet(FinalOf(Positions(r, b))) <=> x \in (r + 1)..b /\ FinalAt(r, b, x)
      BY <1>1, <1>n, FinalOfOutput
    <3> QED
      BY <1>1, <1>3, <1>n, <3>1, <3>2, <3>3, <3>4, <3>5
  <2>6. /\ VisibleOf(shown') \in Seq(Nat) /\ Increasing(VisibleOf(shown'))
        /\ \A x : x \in ToSet(VisibleOf(shown')) <=> x \in ToSet(shown') /\ text[x] \in Visible
    BY <1>8, VisibleSet
  <2>7. /\ FinalOf(Positions(0, b)) \in Seq(Nat) /\ Increasing(FinalOf(Positions(0, b)))
        /\ \A x : x \in ToSet(FinalOf(Positions(0, b))) <=> x \in (0 + 1)..b /\ FinalAt(0, b, x)
    BY <1>1, <1>n, FinalOfOutput
  <2>8. ASSUME NEW x PROVE x \in ToSet(VisibleOf(shown')) <=> x \in 1..b /\ FinalAt(0, b, x)
    <3>1. x \in 1..b <=> x \in 1..r \/ x \in (r + 1)..b
      BY <1>1
    <3>2. CASE r = 0
      <4>1. x \notin 1..r
        BY <3>2
      <4> QED
        BY <1>8, <2>5, <2>6, <3>1, <3>2, <4>1
    <3>3. CASE r # 0
      <4>1. /\ \A p \in 1..r : FinalAt(0, b, p) <=> FinalAt(0, r, p)
            /\ \A p \in (r + 1)..b : FinalAt(0, b, p) <=> FinalAt(r, b, p)
        BY <1>1, <1>n, <2>3, <3>3, FinalWithinLines
      <4> QED
        BY <1>8, <2>5, <2>6, <3>1, <4>1
    <3> QED
      BY <3>2, <3>3
  <2>9. ToSet(VisibleOf(shown')) = ToSet(FinalOf(Positions(0, b)))
    BY <1>1, <1>n, <2>7, <2>8
  <2> QED
    BY <2>6, <2>7, <2>9, SetDetermines
<1>10. ASSUME NEW s, NEW all
       PROVE  (VisibleOf(s) = FinalOf(all))' <=> VisibleOf(s) = FinalOf(all)
  BY <1>1 DEF VisibleOf, FinalOf, Final, NotReturnedTo, Returns, SameLine, InEscape, Sequence,
              CSI, OSC, EndsOSC, TwoBytes, Is, All
<1> QED
  BY <1>5, <1>8, <1>9, <1>10 DEF ComposeInv

\* What is written later changes nothing of it.
LEMMA ComposeKept ==
    ASSUME TextInv, ComposeInv, UNCHANGED <<reads, last, shown>>,
           \A p \in 1..Len(text) : text'[p] = text[p]
    PROVE  ComposeInv'
<1>1. ReadUpTo' = ReadUpTo /\ ReadUpTo \in Nat /\ Len(text) \in Nat /\ ReadUpTo <= Len(text)
      /\ 0 \in Nat /\ 0 <= ReadUpTo
  BY LenProperties DEF ReadUpTo, TextInv
<1>2. PICK n, all, seen : n = Len(text) /\ all = Positions(0, ReadUpTo) /\ seen = shown
  OBVIOUS
<1>3. all \in Seq(1..n) /\ seen \in Seq(1..n)
  BY <1>1, <1>2, PositionsText DEF TextInv
<1>4. \A p \in 1..n : text'[p] = text[p]
  BY <1>2
<1>5. FinalOf(all)' = FinalOf(all) /\ VisibleOf(seen)' = VisibleOf(seen)
  BY <1>3, <1>4, SameText
<1>6. Positions(0, ReadUpTo)' = all /\ shown' = seen
  BY <1>1, <1>2 DEF Positions
<1>7. VisibleOf(shown)' = VisibleOf(shown)
      /\ FinalOf(Positions(0, ReadUpTo))' = FinalOf(Positions(0, ReadUpTo))
  BY <1>2, <1>5, <1>6
<1>8. ASSUME WholeLines' PROVE WholeLines
  <2>1. \A i \in DOMAIN reads : reads[i] \in 1..Len(text)
    <3>1. reads \in Seq(1..Len(text))
      BY DEF TextInv
    <3> QED
      BY <3>1, LenProperties, ElementOfSeq
  <2> QED
    BY <1>8, <2>1 DEF WholeLines
<1>9. shown' = shown /\ (Increasing(shown)' <=> Increasing(shown))
  BY DEF Increasing
<1> QED
  BY <1>1, <1>7, <1>8, <1>9 DEF ComposeInv

\* Reads that end at line ends show together what a single read of all of it would have
\* shown.
THEOREM ReadsCompose == Spec => []WholeLinesCompose
<1>1. Init => ComposeInv
  <2> SUFFICES ASSUME Init PROVE ComposeInv
    OBVIOUS
  <2>1. shown = <<>> /\ ReadUpTo = 0 /\ text = <<>> /\ \A S : <<>> \in Seq(S)
    BY EmptySeq DEF Init, ReadUpTo
  <2>2. /\ Len(text) = 0 /\ text \in Seq(Classes) /\ <<>> \in Seq(Nat) /\ Increasing(<<>>)
        /\ ToSet(<<>>) = {} /\ 0 \in Nat /\ 0 <= 0 /\ (0 + 1)..0 = {}
    BY <2>1, EmptySeq DEF Increasing, ToSet
  <2>3. /\ FinalOf(Positions(0, 0)) \in Seq(Nat) /\ Increasing(FinalOf(Positions(0, 0)))
        /\ \A x : x \in ToSet(FinalOf(Positions(0, 0))) <=> x \in (0 + 1)..0 /\ FinalAt(0, 0, x)
    BY <2>2, FinalOfOutput
  <2>4. /\ VisibleOf(<<>>) \in Seq(Nat) /\ Increasing(VisibleOf(<<>>))
        /\ \A x : x \in ToSet(VisibleOf(<<>>)) <=> x \in ToSet(<<>>) /\ text[x] \in Visible
    BY <2>2, VisibleSet
  <2>5. ToSet(FinalOf(Positions(0, 0))) = ToSet(VisibleOf(<<>>))
    BY <2>2, <2>3, <2>4
  <2>6. FinalOf(Positions(0, 0)) = VisibleOf(<<>>)
    BY <2>3, <2>4, <2>5, SetDetermines
  <2> QED
    BY <2>1, <2>2, <2>6 DEF ComposeInv
<1>2. TextInv /\ ComposeInv /\ [Next]_vars => ComposeInv'
  <2> SUFFICES ASSUME TextInv, ComposeInv, [Next]_vars PROVE ComposeInv'
    OBVIOUS
  <2>1. ASSUME NEW c \in Alphabet, Write(c) PROVE ComposeInv'
    <3>1. /\ Len(text) \in Nat /\ UNCHANGED <<reads, last, shown>>
          /\ \A p \in 1..Len(text) : text'[p] = text[p]
      BY <2>1, Written
    <3> QED
      BY <3>1, ComposeKept
  <2>2. ASSUME UNCHANGED vars PROVE ComposeInv'
    <3>1. UNCHANGED <<reads, last, shown>> /\ \A p \in 1..Len(text) : text'[p] = text[p]
      BY <2>2 DEF vars
    <3> QED
      BY <3>1, ComposeKept
  <2> QED
    BY <2>1, <2>2, ComposeRead DEF Next
<1>3. TextInv /\ ComposeInv => WholeLinesCompose
  <2> SUFFICES ASSUME TextInv, ComposeInv PROVE WholeLinesCompose
    OBVIOUS
  <2>1. ReadUpTo \in Nat /\ 0 \in Nat /\ 0 <= ReadUpTo /\ ReadUpTo <= Len(text)
        /\ text \in Seq(Classes)
    BY LenProperties DEF TextInv
  <2>2. Positions(0, ReadUpTo) \in Seq(Nat) /\ Increasing(Positions(0, ReadUpTo))
    BY <2>1, PositionsText
  <2>3. VisibleOf(Compact(Strip(Positions(0, ReadUpTo)))) = FinalOf(Positions(0, ReadUpTo))
    BY <2>2, FinalShown DEF FinalOf
  <2> QED
    BY <2>3 DEF ComposeInv, WholeLines, WholeLinesCompose
<1> QED
  BY <1>1, <1>2, <1>3, TextInvariant, PTL DEF Spec
================================================================================
