-------------------------- MODULE HookTexts_proofs --------------------------
(***************************************************************************)
(* What the hooks make of texts of any length: the lemmas the theorems of  *)
(* HookInputs_proofs rest on. Texts are judged by induction over the       *)
(* pieces they are built from: what a scan knows at the end of a text      *)
(* begins the next piece.                                                  *)
(***************************************************************************)
EXTENDS LedgerHooks, WriteTargets, TLAPS, SequenceTheorems, FiniteSetTheorems,
        WellFoundedInduction

(***************************************************************************)
(* Induction over sequences, stated with sets: Good are those for which    *)
(* the claim holds.                                                        *)
(***************************************************************************)
\* What holds of zero, and of a number's successor, holds of every number.
LEMMA Induction ==
  ASSUME NEW Good, 0 \in Good, \A n \in Nat : n \in Good => n + 1 \in Good
  PROVE  Nat \subseteq Good
<1> DEFINE Bad == Nat \ Good
<1> SUFFICES ASSUME Bad # {} PROVE FALSE
  OBVIOUS
<1>1. \E x \in Bad : \A y \in Bad : ~(<<y, x>> \in OpToRel(<, Nat))
  BY NatLessThanWellFounded, WFMin
<1>2. PICK x \in Bad : \A y \in Bad : ~(y < x)
  BY <1>1 DEF OpToRel
<1>3. x \in Nat \ {0} /\ x - 1 \in Nat /\ (x - 1) + 1 = x
  OBVIOUS
<1>4. x - 1 \in Bad
  BY <1>3
<1>5. QED
  BY <1>2, <1>3, <1>4

\* A scan: what is known before each position follows from what was known
\* before the last one.
Scans(f, n, first, next) ==
    f = [i \in 1..n |-> IF i = 1 THEN first ELSE next[<<f[i - 1], i>>]]

LEMMA ScanExists ==
  ASSUME NEW V, NEW first \in V, NEW next \in [V \X Nat -> V], NEW n \in Nat
  PROVE  \E f \in [1..n -> V] : Scans(f, n, first, next)
<1> DEFINE Good == {m \in Nat : \E f \in [1..m -> V] : Scans(f, m, first, next)}
<1>1. 0 \in Good
  <2> DEFINE f == [i \in 1..0 |-> first]
  <2>1. f \in [1..0 -> V] /\ Scans(f, 0, first, next)
    BY DEF Scans
  <2>2. QED
    BY <2>1
<1>2. ASSUME NEW m \in Nat, m \in Good PROVE m + 1 \in Good
  <2>1. PICK f \in [1..m -> V] : Scans(f, m, first, next)
    BY <1>2
  <2> DEFINE new == IF m = 0 THEN first ELSE next[<<f[m], m + 1>>]
             g == [i \in 1..m + 1 |-> IF i = m + 1 THEN new ELSE f[i]]
  <2>2. new \in V
    BY <2>1
  <2>3. g \in [1..m + 1 -> V]
    BY <2>1, <2>2
  <2>4. g[m + 1] = new /\ \A i \in 1..m : g[i] = f[i]
    OBVIOUS
  <2> HIDE DEF g
  <2>5. ASSUME NEW i \in 1..m + 1
        PROVE  g[i] = IF i = 1 THEN first ELSE next[<<g[i - 1], i>>]
    <3>1. CASE i = m + 1 /\ m = 0
      BY <2>4, <3>1
    <3>2. CASE i = m + 1 /\ m # 0
      <4>1. i - 1 = m /\ i # 1 /\ m \in 1..m
        BY <3>2
      <4>2. g[i - 1] = f[m]
        BY <2>4, <4>1
      <4>3. g[i] = next[<<f[m], i>>]
        BY <2>4, <3>2
      <4>4. QED
        BY <4>1, <4>2, <4>3
    <3>3. CASE i # m + 1
      <4>1. i \in 1..m /\ f[i] = IF i = 1 THEN first ELSE next[<<f[i - 1], i>>]
        BY <2>1, <3>3 DEF Scans
      <4>2. g[i] = f[i] /\ (i = 1 \/ g[i - 1] = f[i - 1])
        BY <2>4, <4>1
      <4>3. QED
        BY <4>1, <4>2
    <3>4. QED
      BY <3>1, <3>2, <3>3
  <2>6. g = [i \in 1..m + 1 |-> g[i]]
    BY <2>3
  <2>7. Scans(g, m + 1, first, next)
    BY <2>5, <2>6 DEF Scans
  <2>8. QED
    BY <2>3, <2>7
<1> HIDE DEF Good
<1>3. n \in Good
  BY <1>1, <1>2, Induction
<1>4. QED
  BY <1>3 DEF Good

LEMMA InductionUpTo ==
  ASSUME NEW n \in Nat, NEW Good, 1 \in Good,
         \A i \in 1..n - 1 : i \in Good => i + 1 \in Good
  PROVE  1..n \subseteq Good
<1> DEFINE G == {m \in Nat : m + 1 \in 1..n => m + 1 \in Good}
<1>1. 0 \in G
  OBVIOUS
<1>2. ASSUME NEW m \in Nat, m \in G PROVE m + 1 \in G
  BY <1>2
<1> HIDE DEF G
<1>3. Nat \subseteq G
  BY <1>1, <1>2, Induction
<1>4. ASSUME NEW i \in 1..n PROVE i \in Good
  <2>1. i - 1 \in G /\ (i - 1) + 1 = i
    BY <1>3
  <2>2. QED
    BY <2>1 DEF G
<1>5. QED
  BY <1>4

LEMMA SequenceInduction ==
  ASSUME NEW S, NEW Good, <<>> \in Good,
         \A s \in Seq(S), e \in S : s \in Good => Append(s, e) \in Good
  PROVE  Seq(S) \subseteq Good
<1> DEFINE G == {n \in Nat : \A s \in Seq(S) : Len(s) = n => s \in Good}
<1>1. 0 \in G
  BY EmptySeq
<1>2. ASSUME NEW n \in Nat, n \in G PROVE n + 1 \in G
  <2>1. ASSUME NEW t \in Seq(S), Len(t) = n + 1 PROVE t \in Good
    <3>1. t # <<>>
      BY <2>1
    <3>2. PICK s \in Seq(S), e \in S : t = Append(s, e)
      BY <3>1, SequenceEmptyOrAppend
    <3>3. Len(s) = n
      BY <2>1, <3>2
    <3>4. QED
      BY <1>2, <3>2, <3>3
  <2>2. QED
    BY <2>1
<1> HIDE DEF G
<1>3. Nat \subseteq G
  BY <1>1, <1>2, Induction
<1>4. ASSUME NEW s \in Seq(S) PROVE s \in Good
  <2>1. Len(s) \in G
    BY <1>3
  <2>2. QED
    BY <2>1 DEF G
<1>5. QED
  BY <1>4

-----------------------------------------------------------------------------
(***************************************************************************)
(* A text is put together from pieces.                                     *)
(***************************************************************************)
\* f is the function that FlattenSeq(s) chooses.
Flattens(f, s) ==
    f = [i \in 1..Len(s) |-> IF i = 1 THEN s[i] ELSE f[i - 1] \o s[i]]

LEMMA FlattensStep ==
  ASSUME NEW S, NEW s \in Seq(Seq(S)), s # <<>>, NEW f, Flattens(f, s)
  PROVE  /\ Len(s) \in Nat \ {0}
         /\ f[1] = s[1]
         /\ \A i \in 1..Len(s) - 1 :
                i \in Nat /\ i + 1 \in 1..Len(s) /\ f[i + 1] = f[i] \o s[i + 1]
<1>1. Len(s) \in Nat \ {0}
  OBVIOUS
<1>2. ASSUME NEW i \in 1..Len(s)
      PROVE  f[i] = IF i = 1 THEN s[i] ELSE f[i - 1] \o s[i]
  BY DEF Flattens
<1>3. f[1] = s[1]
  BY <1>1, <1>2
<1>4. ASSUME NEW i \in 1..Len(s) - 1
      PROVE  i \in Nat /\ i + 1 \in 1..Len(s) /\ f[i + 1] = f[i] \o s[i + 1]
  <2>1. i + 1 \in 1..Len(s) /\ i + 1 # 1 /\ (i + 1) - 1 = i /\ i \in Nat
    BY <1>1
  <2>2. f[i + 1] = f[(i + 1) - 1] \o s[i + 1]
    BY <1>2, <2>1
  <2>3. QED
    BY <2>1, <2>2
<1>5. QED
  BY <1>1, <1>3, <1>4

LEMMA FlatteningExists ==
  ASSUME NEW S, NEW s \in Seq(Seq(S)), s # <<>>
  PROVE  \E f \in [1..Len(s) -> Seq(S)] : Flattens(f, s)
<1> DEFINE V == Seq(S)
           next == [x \in V \X Nat |->
                        IF x[2] \in DOMAIN s THEN x[1] \o s[x[2]] ELSE x[1]]
<1>1. Len(s) \in Nat \ {0} /\ DOMAIN s = 1..Len(s) /\ \A i \in 1..Len(s) : s[i] \in V
  OBVIOUS
<1>2. \A t, u \in V : t \o u \in V
  OBVIOUS
<1> HIDE DEF V
<1>3. next \in [V \X Nat -> V]
  BY <1>1, <1>2
<1>4. ASSUME NEW t \in V, NEW i \in 1..Len(s) PROVE next[<<t, i>>] = t \o s[i]
  <2>1. i \in Nat /\ i \in DOMAIN s /\ <<t, i>> \in V \X Nat
    BY <1>1
  <2>2. QED
    BY <2>1
<1> HIDE DEF next
<1>5. PICK f \in [1..Len(s) -> V] : Scans(f, Len(s), s[1], next)
  <2>1. s[1] \in V /\ Len(s) \in Nat
    BY <1>1
  <2>2. QED
    BY <2>1, <1>3, ScanExists
<1>6. ASSUME NEW i \in 1..Len(s)
      PROVE  f[i] = IF i = 1 THEN s[i] ELSE f[i - 1] \o s[i]
  <2>1. f[i] = IF i = 1 THEN s[1] ELSE next[<<f[i - 1], i>>]
    BY <1>5 DEF Scans
  <2>2. i # 1 => i - 1 \in 1..Len(s)
    BY <1>1
  <2>3. i # 1 => f[i - 1] \in V
    BY <2>2, <1>5
  <2>4. QED
    BY <2>1, <2>3, <1>4
<1>7. f = [i \in 1..Len(s) |-> f[i]]
  BY <1>5
<1>8. Flattens(f, s)
  BY <1>6, <1>7 DEF Flattens
<1>9. QED
  BY <1>5, <1>8 DEF V

LEMMA FlattenedBy ==
  ASSUME NEW S, NEW s \in Seq(Seq(S)), s # <<>>, NEW f, Flattens(f, s)
  PROVE  FlattenSeq(s) = f[Len(s)]
<1> DEFINE g == CHOOSE g : g = [i \in 1..Len(s) |-> IF i = 1 THEN s[i] ELSE g[i - 1] \o s[i]]
<1>1. Len(s) \in Nat \ {0} /\ Len(s) \in 1..Len(s)
  OBVIOUS
<1>2. Flattens(g, s)
  BY FlatteningExists DEF Flattens
<1>3. FlattenSeq(s) = g[Len(s)]
  BY <1>1 DEF FlattenSeq
<1> HIDE DEF g
<1>4. f[1] = s[1] /\ \A i \in 1..Len(s) - 1 : f[i + 1] = f[i] \o s[i + 1]
  BY FlattensStep
<1>5. g[1] = s[1] /\ \A i \in 1..Len(s) - 1 : g[i + 1] = g[i] \o s[i + 1]
  BY <1>2, FlattensStep
<1> DEFINE Same == {i \in 1..Len(s) : f[i] = g[i]}
<1>6. 1 \in Same /\ \A i \in 1..Len(s) - 1 : i \in Same => i + 1 \in Same
  <2>1. 1 \in Same
    BY <1>1, <1>4, <1>5
  <2>2. ASSUME NEW i \in 1..Len(s) - 1, f[i] = g[i] PROVE i + 1 \in Same
    <3>1. i + 1 \in 1..Len(s)
      BY <1>1
    <3>2. f[i + 1] = g[i + 1]
      BY <1>4, <1>5, <2>2
    <3>3. QED
      BY <3>1, <3>2
  <2>3. QED
    BY <2>1, <2>2
<1> HIDE DEF Same
<1>7. 1..Len(s) \subseteq Same
  BY <1>1, <1>6, InductionUpTo
<1>8. QED
  BY <1>1, <1>3, <1>7 DEF Same

\* FlattenSeq, whose definition chooses a recursive function, is what its name
\* says: nothing for no pieces, and one piece more at the end.
LEMMA FlattenEmpty == FlattenSeq(<<>>) = <<>>
  BY DEF FlattenSeq

LEMMA FlattenType ==
  ASSUME NEW S, NEW s \in Seq(Seq(S))
  PROVE  FlattenSeq(s) \in Seq(S)
<1>1. CASE s = <<>>
  <2>1. FlattenSeq(s) = <<>>
    BY <1>1, FlattenEmpty
  <2>2. QED
    BY <2>1
<1>2. CASE s # <<>>
  <2>1. PICK f \in [1..Len(s) -> Seq(S)] : Flattens(f, s)
    BY <1>2, FlatteningExists
  <2>2. FlattenSeq(s) = f[Len(s)] /\ Len(s) \in 1..Len(s)
    BY <1>2, <2>1, FlattenedBy
  <2>3. QED
    BY <2>1, <2>2
<1>3. QED
  BY <1>1, <1>2

\* What an element more makes of a sequence.
LEMMA AppendIs ==
  ASSUME NEW T, NEW s \in Seq(T), NEW p \in T
  PROVE  /\ Append(s, p) \in Seq(T) /\ Append(s, p) # <<>> /\ Len(s) \in Nat
         /\ Len(Append(s, p)) = Len(s) + 1
         /\ \A i \in 1..Len(s) : Append(s, p)[i] = s[i]
         /\ Append(s, p)[Len(s) + 1] = p
BY AppendProperties, LenProperties

LEMMA FlattenAppend ==
  ASSUME NEW S, NEW s \in Seq(Seq(S)), NEW p \in Seq(S)
  PROVE  FlattenSeq(Append(s, p)) = FlattenSeq(s) \o p
<1> DEFINE t == Append(s, p)
<1>1. /\ t \in Seq(Seq(S)) /\ t # <<>> /\ Len(s) \in Nat /\ Len(t) = Len(s) + 1
      /\ \A i \in 1..Len(s) : t[i] = s[i]
      /\ t[Len(s) + 1] = p
  BY AppendIs
<1> HIDE DEF t
<1>2. PICK g \in [1..Len(t) -> Seq(S)] : Flattens(g, t)
  BY <1>1, FlatteningExists
<1>3. FlattenSeq(t) = g[Len(s) + 1]
  BY <1>1, <1>2, FlattenedBy
<1>4. g[1] = t[1] /\ \A i \in 1..Len(s) : g[i + 1] = g[i] \o t[i + 1]
  <2>1. /\ g[1] = t[1]
        /\ \A i \in 1..Len(t) - 1 : g[i + 1] = g[i] \o t[i + 1]
    <3>1. t \in Seq(Seq(S)) /\ t # <<>>
      BY <1>1
    <3>2. QED
      BY <3>1, <1>2, FlattensStep
  <2>2. Len(t) - 1 = Len(s)
    BY <1>1
  <2>3. QED
    BY <2>1, <2>2
<1>5. CASE s = <<>>
  <2>1. Len(s) = 0
    BY <1>5
  <2>2. FlattenSeq(t) = p
    BY <1>1, <1>3, <1>4, <2>1
  <2>3. <<>> \o p = p
    OBVIOUS
  <2>4. QED
    BY <2>2, <2>3, <1>5, FlattenEmpty DEF t
<1>6. CASE s # <<>>
  <2>1. PICK f \in [1..Len(s) -> Seq(S)] : Flattens(f, s)
    BY <1>6, FlatteningExists
  <2>2. FlattenSeq(s) = f[Len(s)]
    BY <1>6, <2>1, FlattenedBy
  <2>3. /\ Len(s) \in Nat \ {0} /\ f[1] = s[1]
        /\ \A i \in 1..Len(s) - 1 : i + 1 \in 1..Len(s) /\ f[i + 1] = f[i] \o s[i + 1]
    BY <1>6, <2>1, FlattensStep
  <2>4. f[1] = g[1]
    BY <1>1, <1>4, <2>3
  <2> DEFINE Same == {i \in 1..Len(s) : f[i] = g[i]}
  <2>5. 1 \in Same /\ \A i \in 1..Len(s) - 1 : i \in Same => i + 1 \in Same
    <3>1. 1 \in Same
      BY <2>3, <2>4
    <3>2. ASSUME NEW i \in 1..Len(s) - 1, f[i] = g[i] PROVE i + 1 \in Same
      <4>1. i \in 1..Len(s) /\ i + 1 \in 1..Len(s)
        BY <2>3
      <4>2. f[i + 1] = f[i] \o s[i + 1] /\ g[i + 1] = g[i] \o s[i + 1]
        BY <1>1, <1>4, <2>3, <4>1
      <4>3. QED
        BY <4>1, <4>2, <3>2
    <3>3. QED
      BY <3>1, <3>2
  <2> HIDE DEF Same
  <2>6. 1..Len(s) \subseteq Same
    BY <2>3, <2>5, InductionUpTo
  <2>7. Len(s) \in 1..Len(s)
    BY <2>3
  <2>8. QED
    BY <1>1, <1>3, <1>4, <2>2, <2>6, <2>7 DEF t, Same
<1>7. QED
  BY <1>5, <1>6

\* Where the pieces begin.
LEMMA PrefixOfAppend ==
  ASSUME NEW S, NEW s \in Seq(S), NEW e \in S, NEW k \in 1..Len(s) + 1
  PROVE  SubSeq(Append(s, e), 1, k - 1) = SubSeq(s, 1, k - 1)
<1>1. Len(s) \in Nat /\ k - 1 \in 0..Len(s)
  OBVIOUS
<1>2. \A i \in 1..k - 1 : i \in 1..Len(s) /\ Append(s, e)[i] = s[i]
  BY <1>1
<1>3. SubSeq(Append(s, e), 1, k - 1) = [i \in 1..k - 1 |-> Append(s, e)[i]]
  BY <1>1
<1>4. SubSeq(s, 1, k - 1) = [i \in 1..k - 1 |-> s[i]]
  BY <1>1
<1>5. QED
  BY <1>2, <1>3, <1>4

LEMMA OffsetAppend ==
  ASSUME NEW S, NEW s \in Seq(Seq(S)), NEW p \in Seq(S)
  PROVE  /\ \A k \in 1..Len(s) + 1 : Offset(Append(s, p), k) = Offset(s, k)
         /\ Offset(s, Len(s) + 1) = Len(FlattenSeq(s))
         /\ Offset(Append(s, p), Len(s) + 2) = Len(FlattenSeq(s)) + Len(p)
<1>1. \A k \in 1..Len(s) + 1 : Offset(Append(s, p), k) = Offset(s, k)
  BY PrefixOfAppend DEF Offset
<1>2. Len(s) \in Nat /\ (Len(s) + 1) - 1 = Len(s) /\ (Len(s) + 2) - 1 = Len(s) + 1
  OBVIOUS
<1>3. SubSeq(s, 1, Len(s)) = s
  BY SubSeqFull
<1>4. Append(s, p) \in Seq(Seq(S)) /\ Len(Append(s, p)) = Len(s) + 1
  BY AppendProperties
<1>5. SubSeq(Append(s, p), 1, Len(s) + 1) = Append(s, p)
  BY <1>4, SubSeqFull
<1>6. FlattenSeq(s) \in Seq(S) /\ FlattenSeq(Append(s, p)) = FlattenSeq(s) \o p
  BY FlattenType, FlattenAppend
<1>7. Len(FlattenSeq(s) \o p) = Len(FlattenSeq(s)) + Len(p)
  BY <1>6, ConcatProperties
<1>8. QED
  BY <1>1, <1>2, <1>3, <1>5, <1>6, <1>7 DEF Offset

-----------------------------------------------------------------------------
(***************************************************************************)
(* Segments: the scan for separators passes from one piece to the next.    *)
(***************************************************************************)
\* What the scan of _split_on_operators knows after char, before next.
Advance(before, char, next) ==
    CASE before \in Quotes -> IF char = before THEN "plain" ELSE before
      [] before \in {"kept", "dropped"} -> "plain"
      [] before = "plain" /\ char \in Quotes -> char
      [] before = "plain" /\ (char = "\\" \/ <<char, next>> = <<">", "|">>) -> "kept"
      [] before = "plain" /\ char \in {"&", "|"} /\ next = char -> "dropped"
      [] OTHER -> "plain"

Modes == {"plain", "kept", "dropped"} \union Quotes

LEMMA AdvanceType ==
  ASSUME NEW before \in Modes, NEW char, NEW next
  PROVE  Advance(before, char, next) \in Modes
BY DEF Advance, Modes, Quotes

\* Mode, whose definition chooses a recursive function, is that scan.
LEMMA ModeScans ==
  ASSUME NEW S, NEW text \in Seq(S)
  PROVE  /\ Mode(text)[1] = "plain"
         /\ \A i \in 1..Len(text) :
                Mode(text)[i + 1] = Advance(Mode(text)[i], text[i], At(text, i + 1))
<1> DEFINE n == Len(text) + 1
           next == [x \in Modes \X Nat |-> Advance(x[1], At(text, x[2] - 1), At(text, x[2]))]
           step(f, i) == IF i = 1 THEN "plain"
                         ELSE LET before == f[i - 1]  char == text[i - 1]
                 IN CASE before \in Quotes ->
                            IF char = before THEN "plain" ELSE before
                      [] before \in {"kept", "dropped"} -> "plain"
                      [] before = "plain" /\ char \in Quotes -> char
                      [] before = "plain" /\ KeepsNext(text, i - 1) -> "kept"
                      [] before = "plain" /\ char \in {"&", "|"}
                            /\ At(text, i) = char -> "dropped"
                      [] OTHER -> "plain"
           mode == CHOOSE f : f = [i \in 1..Len(text) + 1 |-> step(f, i)]
<1>1. Len(text) \in Nat /\ n \in Nat /\ DOMAIN text = 1..Len(text) /\ "plain" \in Modes
  BY DEF Modes
<1>2. next \in [Modes \X Nat -> Modes]
  BY AdvanceType
<1>3. ASSUME NEW f, NEW i \in 2..n
      PROVE  step(f, i) = Advance(f[i - 1], text[i - 1], At(text, i))
  <2>1. (i - 1) + 1 = i
    BY <1>1
  <2>2. KeepsNext(text, i - 1) <=> (text[i - 1] = "\\" \/ <<text[i - 1], At(text, i)>> = <<">", "|">>)
    BY <2>1 DEF KeepsNext
  <2>3. QED
    BY <2>1, <2>2, <1>1 DEF Advance
<1>4. \E f : f = [i \in 1..Len(text) + 1 |-> step(f, i)]
  <2>1. PICK f \in [1..n -> Modes] : Scans(f, n, "plain", next)
    BY <1>1, <1>2, ScanExists
  <2>2. ASSUME NEW i \in 1..n PROVE f[i] = step(f, i)
    <3>1. f[i] = IF i = 1 THEN "plain" ELSE next[<<f[i - 1], i>>]
      BY <2>1 DEF Scans
    <3>2. CASE i = 1
      BY <3>1, <3>2
    <3>3. CASE i # 1
      <4>1. i \in 2..n /\ i - 1 \in 1..n /\ i \in Nat /\ i - 1 \in DOMAIN text
        BY <3>3, <1>1
      <4>2. f[i - 1] \in Modes
        BY <2>1, <4>1
      <4>3. next[<<f[i - 1], i>>] = Advance(f[i - 1], text[i - 1], At(text, i))
        BY <4>1, <4>2 DEF At
      <4>4. QED
        BY <3>1, <3>3, <4>1, <4>3, <1>3
    <3>4. QED
      BY <3>2, <3>3
  <2> HIDE DEF step
  <2>3. f = [i \in 1..n |-> f[i]]
    BY <2>1
  <2>4. QED
    BY <2>2, <2>3
<1>5. mode = [i \in 1..Len(text) + 1 |-> step(mode, i)]
  <2> HIDE DEF step
  <2>1. QED
    BY <1>4
<1>6. Mode(text) = mode
  BY DEF Mode
<1> HIDE DEF mode, step
<1>7. QED
  <2>1. mode[1] = "plain"
    BY <1>1, <1>5 DEF step
  <2>2. ASSUME NEW i \in 1..Len(text)
        PROVE  mode[i + 1] = Advance(mode[i], text[i], At(text, i + 1))
    <3>1. i + 1 \in 2..n /\ i + 1 \in 1..Len(text) + 1 /\ (i + 1) - 1 = i
      BY <1>1
    <3>2. QED
      BY <1>3, <1>5, <3>1
  <2>3. QED
    BY <1>6, <2>1, <2>2

\* The pieces as they are after lines have been joined, but for the one that
\* makes the scan lose the quotes.
JoinedPieces == (CommandPieces \ {<<"\\", "nl">>, EscapedQuote}) \union {<<"_", "_">>}

\* The characters of a concatenation.
LEMMA ConcatAt ==
  ASSUME NEW S, NEW t \in Seq(S), NEW q \in Seq(S)
  PROVE  /\ t \o q \in Seq(S) /\ Len(t) \in Nat /\ Len(q) \in Nat
         /\ Len(t \o q) = Len(t) + Len(q)
         /\ DOMAIN (t \o q) = 1..Len(t) + Len(q) /\ DOMAIN t = 1..Len(t) /\ DOMAIN q = 1..Len(q)
         /\ \A i \in 1..Len(t) : (t \o q)[i] = t[i] /\ At(t \o q, i) = At(t, i) /\ At(t, i) = t[i]
         /\ \A k \in 1..Len(q) : /\ (t \o q)[Len(t) + k] = q[k]
                                 /\ At(t \o q, Len(t) + k) = q[k]
<1>1. /\ t \o q \in Seq(S) /\ Len(t \o q) = Len(t) + Len(q)
      /\ \A i \in 1 .. Len(t) + Len(q) :
            (t \o q)[i] = IF i <= Len(t) THEN t[i] ELSE q[i - Len(t)]
  BY ConcatProperties
<1>2. /\ Len(t) \in Nat /\ Len(q) \in Nat
      /\ DOMAIN t = 1..Len(t) /\ DOMAIN q = 1..Len(q)
      /\ DOMAIN (t \o q) = 1..Len(t \o q)
  BY <1>1
<1>3. ASSUME NEW i \in 1..Len(t)
      PROVE  (t \o q)[i] = t[i] /\ At(t \o q, i) = At(t, i) /\ At(t, i) = t[i]
  BY <1>1, <1>2 DEF At
<1>4. ASSUME NEW k \in 1..Len(q)
      PROVE  (t \o q)[Len(t) + k] = q[k] /\ At(t \o q, Len(t) + k) = q[k]
  <2>1. Len(t) + k \in 1..Len(t) + Len(q) /\ ~(Len(t) + k <= Len(t)) /\ Len(t) + k - Len(t) = k
    BY <1>2
  <2>2. QED
    BY <2>1, <1>1, <1>2 DEF At
<1>5. QED
  BY <1>1, <1>2, <1>3, <1>4

\* What is known within a text does not depend on what follows it.
LEMMA ModeOfPrefix ==
  ASSUME NEW S, NEW t \in Seq(S), NEW q \in Seq(S)
  PROVE  \A i \in 1..Len(t) : Mode(t \o q)[i] = Mode(t)[i]
<1> DEFINE u == t \o q
           Same == {i \in 1..Len(t) : Mode(u)[i] = Mode(t)[i]}
<1>1. /\ u \in Seq(S) /\ Len(t) \in Nat /\ Len(u) = Len(t) + Len(q) /\ Len(q) \in Nat
      /\ \A i \in 1..Len(t) : u[i] = t[i] /\ At(u, i) = At(t, i)
  BY ConcatAt
<1> HIDE DEF u
<1>2. /\ Mode(u)[1] = "plain" /\ Mode(t)[1] = "plain"
      /\ \A i \in 1..Len(u) : Mode(u)[i + 1] = Advance(Mode(u)[i], u[i], At(u, i + 1))
      /\ \A i \in 1..Len(t) : Mode(t)[i + 1] = Advance(Mode(t)[i], t[i], At(t, i + 1))
  BY <1>1, ModeScans
<1>3. CASE Len(t) = 0
  BY <1>3
<1>4. CASE Len(t) # 0
  <2>1. 1 \in Same
    BY <1>1, <1>2, <1>4
  <2>2. ASSUME NEW i \in 1..Len(t) - 1, Mode(u)[i] = Mode(t)[i] PROVE i + 1 \in Same
    <3>1. i \in 1..Len(t) /\ i + 1 \in 1..Len(t) /\ i \in 1..Len(u)
      BY <1>1
    <3>2. Mode(u)[i + 1] = Advance(Mode(u)[i], u[i], At(u, i + 1))
      BY <1>2, <3>1
    <3>3. Mode(t)[i + 1] = Advance(Mode(t)[i], t[i], At(t, i + 1))
      BY <1>2, <3>1
    <3>4. QED
      BY <1>1, <2>2, <3>1, <3>2, <3>3
  <2>3. \A i \in 1..Len(t) - 1 : i \in Same => i + 1 \in Same
    BY <2>2
  <2> HIDE DEF Same
  <2>4. 1..Len(t) \subseteq Same
    BY <1>1, <2>1, <2>3, InductionUpTo
  <2>5. QED
    BY <2>4 DEF Same, u
<1>5. QED
  BY <1>3, <1>4

\* A separator the scan cuts at.
Cut(mode, char) == (mode = "plain" /\ char \in Separators) \/ mode = "dropped"
\* f is what is known within a piece.
Scanned(f, q) == \A k \in 1..Len(q) - 1 : f[k + 1] = Advance(f[k], q[k], q[k + 1])
\* A piece may begin with char: nothing before it is open, unless a pipe that is
\* the second of two is dropped.
Begins(mode, char) == mode = "plain" \/ (mode = "dropped" /\ char = "|")

\* A piece is cut at each of its characters if it separates segments, at its & if
\* it redirects both outputs, and else nowhere, and it leaves nothing open.
LEMMA PieceScanned ==
  ASSUME NEW q \in JoinedPieces, NEW f, Scanned(f, q), Begins(f[1], q[1])
  PROVE  /\ \A k \in 1..Len(q) :
                Cut(f[k], q[k]) <=>
                    (q \in SeparatorPieces \/ (q \in BothRedirections /\ q[k] = "&"))
         /\ \A c : Begins(Advance(f[Len(q)], q[Len(q)], c), c)
<1> DEFINE Steps(n) == \A k \in 1..n - 1 : f[k + 1] = Advance(f[k], q[k], q[k + 1])
<1>1. Steps(2) => f[2] = Advance(f[1], q[1], q[2])
  OBVIOUS
<1>2. Steps(3) => Steps(2) /\ f[3] = Advance(f[2], q[2], q[3])
  OBVIOUS
<1>3. Steps(4) => Steps(3) /\ f[4] = Advance(f[3], q[3], q[4])
  OBVIOUS
<1>4. Steps(5) => Steps(4) /\ f[5] = Advance(f[4], q[4], q[5])
  OBVIOUS
<1>5. Steps(Len(q))
  BY DEF Scanned
<1> HIDE DEF Steps
<1>6. CASE q = <<"&", "&">>
  <2>0. Len(q) = 2
    BY <1>6
  <2>1. q[1] = "&" /\ q[2] = "&"
    BY <1>6
  <2>2. q \in SeparatorPieces
    BY <1>6 DEF SeparatorPieces
  <2>3. f[1] = "plain"
    BY <2>1 DEF Begins
  <2>4. f[2] = "dropped"
    BY <1>1, <1>5, <2>0, <2>1, <2>3 DEF Advance, Quotes
  <2>5. Cut(f[1], q[1]) /\ Cut(f[2], q[2])
    BY <2>1, <2>3, <2>4 DEF Cut, Separators, Begins
  <2>6. \A c : Begins(Advance(f[2], q[2], c), c)
    BY <2>1, <2>3, <2>4 DEF Begins, Advance, Quotes
  <2>7. QED
    BY <2>0, <2>2, <2>5, <2>6
<1>7. CASE q = <<"|", "|">>
  <2>0. Len(q) = 2
    BY <1>7
  <2>1. q[1] = "|" /\ q[2] = "|"
    BY <1>7
  <2>2. q \in SeparatorPieces
    BY <1>7 DEF SeparatorPieces
  <2>3. \/ f[1] = "plain" /\ f[2] = "dropped"
        \/ f[1] = "dropped" /\ f[2] = "plain"
    BY <1>1, <1>5, <2>0, <2>1 DEF Begins, Advance, Quotes
  <2>4. Cut(f[1], q[1]) /\ Cut(f[2], q[2])
    BY <2>1, <2>3 DEF Cut, Separators, Begins
  <2>5. \A c : Begins(Advance(f[2], q[2], c), c)
    BY <2>1, <2>3 DEF Begins, Advance, Quotes
  <2>6. QED
    BY <2>0, <2>2, <2>4, <2>5
<1>8. CASE q = <<";">>
  <2>0. Len(q) = 1
    BY <1>8
  <2>1. q[1] = ";"
    BY <1>8
  <2>2. q \in SeparatorPieces
    BY <1>8 DEF SeparatorPieces
  <2>3. f[1] = "plain"
    BY <2>1 DEF Begins
  <2>4. Cut(f[1], q[1])
    BY <2>1, <2>3 DEF Cut, Separators, Begins
  <2>5. \A c : Begins(Advance(f[1], q[1], c), c)
    BY <2>1, <2>3 DEF Begins, Advance, Quotes
  <2>6. QED
    BY <2>0, <2>2, <2>4, <2>5
<1>9. CASE q = <<"|">>
  <2>0. Len(q) = 1
    BY <1>9
  <2>1. q[1] = "|"
    BY <1>9
  <2>2. q \in SeparatorPieces
    BY <1>9 DEF SeparatorPieces
  <2>3. Cut(f[1], q[1])
    BY <2>1 DEF Cut, Separators, Begins
  <2>4. \A c : Begins(Advance(f[1], q[1], c), c)
    BY <2>1 DEF Begins, Advance, Quotes
  <2>5. QED
    BY <2>0, <2>2, <2>3, <2>4
<1>10. CASE q = <<"nl">>
  <2>0. Len(q) = 1
    BY <1>10
  <2>1. q[1] = "nl"
    BY <1>10
  <2>2. q \in SeparatorPieces
    BY <1>10 DEF SeparatorPieces
  <2>3. f[1] = "plain"
    BY <2>1 DEF Begins
  <2>4. Cut(f[1], q[1])
    BY <2>1, <2>3 DEF Cut, Separators, Begins
  <2>5. \A c : Begins(Advance(f[1], q[1], c), c)
    BY <2>1, <2>3 DEF Begins, Advance, Quotes
  <2>6. QED
    BY <2>0, <2>2, <2>4, <2>5
<1>11. CASE q = <<"x">>
  <2>0. Len(q) = 1
    BY <1>11
  <2>1. q[1] = "x"
    BY <1>11
  <2>2. q \notin SeparatorPieces /\ q \notin BothRedirections
    BY <1>11 DEF SeparatorPieces, BothRedirections
  <2>3. f[1] = "plain"
    BY <2>1 DEF Begins
  <2>4. ~Cut(f[1], q[1])
    BY <2>1, <2>3 DEF Cut, Separators, Begins
  <2>5. \A c : Begins(Advance(f[1], q[1], c), c)
    BY <2>1, <2>3 DEF Begins, Advance, Quotes
  <2>6. QED
    BY <2>0, <2>2, <2>4, <2>5
<1>12. CASE q = <<"'", ";", "''", "'">>
  <2>0. Len(q) = 4
    BY <1>12
  <2>1. q[1] = "'" /\ q[2] = ";" /\ q[3] = "''" /\ q[4] = "'"
    BY <1>12
  <2>2. q \notin SeparatorPieces /\ q \notin BothRedirections
    BY <1>12 DEF SeparatorPieces, BothRedirections
  <2>3. f[1] = "plain"
    BY <2>1 DEF Begins
  <2>4. f[2] = "'" /\ f[3] = "'" /\ f[4] = "'"
    BY <1>3, <1>2, <1>1, <1>5, <2>0, <2>1, <2>3 DEF Advance, Quotes
  <2>5. ~Cut(f[1], q[1]) /\ ~Cut(f[2], q[2]) /\ ~Cut(f[3], q[3]) /\ ~Cut(f[4], q[4])
    BY <2>1, <2>3, <2>4 DEF Cut, Separators, Begins
  <2>6. \A c : Begins(Advance(f[4], q[4], c), c)
    BY <2>1, <2>3, <2>4 DEF Begins, Advance, Quotes
  <2>7. QED
    BY <2>0, <2>2, <2>5, <2>6
<1>13. CASE q = <<"''", "'", "|", "nl", "''">>
  <2>0. Len(q) = 5
    BY <1>13
  <2>1. q[1] = "''" /\ q[2] = "'" /\ q[3] = "|" /\ q[4] = "nl" /\ q[5] = "''"
    BY <1>13
  <2>2. q \notin SeparatorPieces /\ q \notin BothRedirections
    BY <1>13 DEF SeparatorPieces, BothRedirections
  <2>3. f[1] = "plain"
    BY <2>1 DEF Begins
  <2>4. f[2] = "''" /\ f[3] = "''" /\ f[4] = "''" /\ f[5] = "''"
    BY <1>4, <1>3, <1>2, <1>1, <1>5, <2>0, <2>1, <2>3 DEF Advance, Quotes
  <2>5. ~Cut(f[1], q[1]) /\ ~Cut(f[2], q[2]) /\ ~Cut(f[3], q[3]) /\ ~Cut(f[4], q[4]) /\ ~Cut(f[5], q[5])
    BY <2>1, <2>3, <2>4 DEF Cut, Separators, Begins
  <2>6. \A c : Begins(Advance(f[5], q[5], c), c)
    BY <2>1, <2>3, <2>4 DEF Begins, Advance, Quotes
  <2>7. QED
    BY <2>0, <2>2, <2>5, <2>6
<1>14. CASE q = <<"'", "\\", "'">>
  <2>0. Len(q) = 3
    BY <1>14
  <2>1. q[1] = "'" /\ q[2] = "\\" /\ q[3] = "'"
    BY <1>14
  <2>2. q \notin SeparatorPieces /\ q \notin BothRedirections
    BY <1>14 DEF SeparatorPieces, BothRedirections
  <2>3. f[1] = "plain"
    BY <2>1 DEF Begins
  <2>4. f[2] = "'" /\ f[3] = "'"
    BY <1>2, <1>1, <1>5, <2>0, <2>1, <2>3 DEF Advance, Quotes
  <2>5. ~Cut(f[1], q[1]) /\ ~Cut(f[2], q[2]) /\ ~Cut(f[3], q[3])
    BY <2>1, <2>3, <2>4 DEF Cut, Separators, Begins
  <2>6. \A c : Begins(Advance(f[3], q[3], c), c)
    BY <2>1, <2>3, <2>4 DEF Begins, Advance, Quotes
  <2>7. QED
    BY <2>0, <2>2, <2>5, <2>6
<1>15. CASE q = <<"\\", ";">>
  <2>0. Len(q) = 2
    BY <1>15
  <2>1. q[1] = "\\" /\ q[2] = ";"
    BY <1>15
  <2>2. q \notin SeparatorPieces /\ q \notin BothRedirections
    BY <1>15 DEF SeparatorPieces, BothRedirections
  <2>3. f[1] = "plain"
    BY <2>1 DEF Begins
  <2>4. f[2] = "kept"
    BY <1>1, <1>5, <2>0, <2>1, <2>3 DEF Advance, Quotes
  <2>5. ~Cut(f[1], q[1]) /\ ~Cut(f[2], q[2])
    BY <2>1, <2>3, <2>4 DEF Cut, Separators, Begins
  <2>6. \A c : Begins(Advance(f[2], q[2], c), c)
    BY <2>1, <2>3, <2>4 DEF Begins, Advance, Quotes
  <2>7. QED
    BY <2>0, <2>2, <2>5, <2>6
<1>16. CASE q = <<"\\", "'">>
  <2>0. Len(q) = 2
    BY <1>16
  <2>1. q[1] = "\\" /\ q[2] = "'"
    BY <1>16
  <2>2. q \notin SeparatorPieces /\ q \notin BothRedirections
    BY <1>16 DEF SeparatorPieces, BothRedirections
  <2>3. f[1] = "plain"
    BY <2>1 DEF Begins
  <2>4. f[2] = "kept"
    BY <1>1, <1>5, <2>0, <2>1, <2>3 DEF Advance, Quotes
  <2>5. ~Cut(f[1], q[1]) /\ ~Cut(f[2], q[2])
    BY <2>1, <2>3, <2>4 DEF Cut, Separators, Begins
  <2>6. \A c : Begins(Advance(f[2], q[2], c), c)
    BY <2>1, <2>3, <2>4 DEF Begins, Advance, Quotes
  <2>7. QED
    BY <2>0, <2>2, <2>5, <2>6
<1>17. CASE q = <<"_", "_">>
  <2>0. Len(q) = 2
    BY <1>17
  <2>1. q[1] = "_" /\ q[2] = "_"
    BY <1>17
  <2>2. q \notin SeparatorPieces /\ q \notin BothRedirections
    BY <1>17 DEF SeparatorPieces, BothRedirections
  <2>3. f[1] = "plain"
    BY <2>1 DEF Begins
  <2>4. f[2] = "plain"
    BY <1>1, <1>5, <2>0, <2>1, <2>3 DEF Advance, Quotes
  <2>5. ~Cut(f[1], q[1]) /\ ~Cut(f[2], q[2])
    BY <2>1, <2>3, <2>4 DEF Cut, Separators, Begins
  <2>6. \A c : Begins(Advance(f[2], q[2], c), c)
    BY <2>1, <2>3, <2>4 DEF Begins, Advance, Quotes
  <2>7. QED
    BY <2>0, <2>2, <2>5, <2>6
<1>18. CASE q = <<">", "|">>
  <2>0. Len(q) = 2
    BY <1>18
  <2>1. q[1] = ">" /\ q[2] = "|"
    BY <1>18
  <2>2. q \notin SeparatorPieces /\ q \notin BothRedirections
    BY <1>18 DEF SeparatorPieces, BothRedirections
  <2>3. f[1] = "plain"
    BY <2>1 DEF Begins
  <2>4. f[2] = "kept"
    BY <1>1, <1>5, <2>0, <2>1, <2>3 DEF Advance, Quotes
  <2>5. ~Cut(f[1], q[1]) /\ ~Cut(f[2], q[2])
    BY <2>1, <2>3, <2>4 DEF Cut, Separators, Begins
  <2>6. \A c : Begins(Advance(f[2], q[2], c), c)
    BY <2>1, <2>3, <2>4 DEF Begins, Advance, Quotes
  <2>7. QED
    BY <2>0, <2>2, <2>5, <2>6
<1>19. CASE q = <<">", "&", "x">>
  <2>0. Len(q) = 3
    BY <1>19
  <2>1. q[1] = ">" /\ q[2] = "&" /\ q[3] = "x"
    BY <1>19
  <2>2. q \notin SeparatorPieces /\ q \in BothRedirections
    BY <1>19 DEF SeparatorPieces, BothRedirections
  <2>3. f[1] = "plain"
    BY <2>1 DEF Begins
  <2>4. f[2] = "plain" /\ f[3] = "plain"
    BY <1>2, <1>1, <1>5, <2>0, <2>1, <2>3 DEF Advance, Quotes
  <2>5. ~Cut(f[1], q[1]) /\ Cut(f[2], q[2]) /\ ~Cut(f[3], q[3])
    BY <2>1, <2>3, <2>4 DEF Cut, Separators, Begins
  <2>6. \A c : Begins(Advance(f[3], q[3], c), c)
    BY <2>1, <2>3, <2>4 DEF Begins, Advance, Quotes
  <2>7. QED
    BY <2>0, <2>1, <2>2, <2>5, <2>6
<1>20. CASE q = <<"&", ">", "x">>
  <2>0. Len(q) = 3
    BY <1>20
  <2>1. q[1] = "&" /\ q[2] = ">" /\ q[3] = "x"
    BY <1>20
  <2>2. q \notin SeparatorPieces /\ q \in BothRedirections
    BY <1>20 DEF SeparatorPieces, BothRedirections
  <2>3. f[1] = "plain"
    BY <2>1 DEF Begins
  <2>4. f[2] = "plain" /\ f[3] = "plain"
    BY <1>2, <1>1, <1>5, <2>0, <2>1, <2>3 DEF Advance, Quotes
  <2>5. Cut(f[1], q[1]) /\ ~Cut(f[2], q[2]) /\ ~Cut(f[3], q[3])
    BY <2>1, <2>3, <2>4 DEF Cut, Separators, Begins
  <2>6. \A c : Begins(Advance(f[3], q[3], c), c)
    BY <2>1, <2>3, <2>4 DEF Begins, Advance, Quotes
  <2>7. QED
    BY <2>0, <2>1, <2>2, <2>5, <2>6
<1>21. QED
  BY <1>6, <1>7, <1>8, <1>9, <1>10, <1>11, <1>12, <1>13, <1>14, <1>15, <1>16, <1>17, <1>18,
     <1>19, <1>20
     DEF JoinedPieces, CommandPieces, SeparatorPieces, BothRedirections

Blank == "_"

LEMMA SameBounds == ASSUME NEW n \in Nat, NEW m \in Nat, 1..n = 1..m PROVE n = m
OBVIOUS

\* The character is one of a backslash and a newline after it.
Glued(text, i) ==
    \/ text[i] = "\\" /\ At(text, i + 1) = "nl"
    \/ text[i] = "nl" /\ At(text, i - 1) = "\\"

\* A newline that follows would be escaped.
Open(text) == At(text, Len(text)) = "\\"

\* Joining lines, character by character.
LEMMA JoinIs ==
  ASSUME NEW S, Blank \in S, NEW t \in Seq(S)
  PROVE  /\ JoinLineContinuations(t) \in Seq(S)
         /\ Len(JoinLineContinuations(t)) = Len(t)
         /\ \A i \in 1..Len(t) :
                JoinLineContinuations(t)[i] = IF Glued(t, i) THEN Blank ELSE t[i]
<1> DEFINE j == [i \in 1..Len(t) |-> IF Glued(t, i) THEN Blank ELSE t[i]]
<1>1. DOMAIN t = 1..Len(t) /\ Len(t) \in Nat /\ \A i \in 1..Len(t) : t[i] \in S
  OBVIOUS
<1>2. JoinLineContinuations(t) = j
  BY <1>1 DEF JoinLineContinuations, Glued, Blank
<1>3. ASSUME NEW i \in 1..Len(t)
      PROVE  (IF Glued(t, i) THEN Blank ELSE t[i]) \in S
  <2>1. Blank \in S /\ t[i] \in S
    BY <1>1
  <2>2. QED
    BY <2>1
<1>4. j \in [1..Len(t) -> S]
  BY <1>3
<1>5. j \in Seq(S)
  BY <1>1, <1>4, SeqDef, SMTT(60)
<1>6. Len(j) = Len(t)
  <2>1. DOMAIN j = 1..Len(j) /\ Len(j) \in Nat
    BY <1>5, LenProperties
  <2>2. DOMAIN j = 1..Len(t)
    OBVIOUS
  <2> HIDE DEF j
  <2>3. QED
    BY <1>1, <2>1, <2>2, SameBounds
<1>7. QED
  BY <1>2, <1>5, <1>6

\* Lines are joined piece by piece, for no piece ends in a backslash.
LEMMA GluedConcat ==
  ASSUME NEW S, NEW t \in Seq(S), NEW p \in Seq(S), ~Open(t)
  PROVE  /\ \A i \in 1..Len(t) : Glued(t \o p, i) <=> Glued(t, i)
         /\ \A k \in 1..Len(p) : Glued(t \o p, Len(t) + k) <=> Glued(p, k)
<1> DEFINE u == t \o p
           n == Len(t)
<1>1. /\ u \in Seq(S) /\ n \in Nat /\ Len(p) \in Nat /\ Len(u) = n + Len(p)
      /\ DOMAIN u = 1..n + Len(p) /\ DOMAIN t = 1..n /\ DOMAIN p = 1..Len(p)
      /\ \A i \in 1..n : u[i] = t[i] /\ At(u, i) = At(t, i) /\ At(t, i) = t[i]
      /\ \A k \in 1..Len(p) : u[n + k] = p[k] /\ At(u, n + k) = p[k]
  BY ConcatAt
<1> HIDE DEF u, n
<1>2. At(u, 0) = None /\ At(t, 0) = None /\ At(p, 0) = None
      /\ At(t, n + 1) = None
  BY <1>1 DEF At
<1>3. At(u, Len(u) + 1) = At(p, Len(p) + 1)
  BY <1>1 DEF At
<1>4. ASSUME NEW i \in 1..n PROVE Glued(u, i) <=> Glued(t, i)
  <2>1. u[i] = t[i] /\ At(u, i - 1) = At(t, i - 1)
    <3>1. i - 1 = 0 \/ i - 1 \in 1..n
      BY <1>1
    <3>2. QED
      BY <3>1, <1>1, <1>2
  <2>2. CASE i = n
    <3>1. t[i] # "\\"
      BY <1>1, <2>2 DEF Open, n
    <3>2. QED
      BY <2>1, <3>1 DEF Glued
  <2>3. CASE i # n
    <3>1. i + 1 \in 1..n
      BY <2>3, <1>1
    <3>2. At(u, i + 1) = At(t, i + 1)
      BY <3>1, <1>1
    <3>3. QED
      BY <2>1, <3>2 DEF Glued
  <2>4. QED
    BY <2>2, <2>3
<1>5. ASSUME NEW k \in 1..Len(p) PROVE Glued(u, n + k) <=> Glued(p, k)
  <2>1. u[n + k] = p[k]
    BY <1>1
  <2>2. At(u, (n + k) + 1) = At(p, k + 1)
    <3>1. CASE k = Len(p)
      BY <3>1, <1>1, <1>3
    <3>2. CASE k # Len(p)
      <4>0. n \in Nat /\ Len(p) \in Nat
        BY <1>1
      <4>1. k + 1 \in 1..Len(p) /\ (n + k) + 1 = n + (k + 1)
        <5> HIDE <1>1
        <5>1. QED
          BY <3>2, <4>0
      <4>2. QED
        BY <4>1, <1>1 DEF At
    <3>3. QED
      BY <3>1, <3>2
  <2>3. At(u, (n + k) - 1) = "\\" <=> At(p, k - 1) = "\\"
    <3>1. CASE k = 1
      <4>1. (n + k) - 1 = n /\ k - 1 = 0
        BY <3>1, <1>1
      <4>2. At(u, n) # "\\"
        <5>1. n = 0 \/ n \in 1..n
          BY <1>1
        <5>2. None # "\\"
          BY DEF None
        <5>3. QED
          BY <5>1, <5>2, <1>1, <1>2 DEF Open, n
      <4>3. At(p, 0) # "\\"
        BY <1>2 DEF None
      <4>4. QED
        BY <4>1, <4>2, <4>3
    <3>2. CASE k # 1
      <4>1. k - 1 \in 1..Len(p) /\ (n + k) - 1 = n + (k - 1)
        BY <3>2, <1>1
      <4>2. QED
        BY <4>1, <1>1 DEF At
    <3>3. QED
      BY <3>1, <3>2
  <2>4. QED
    BY <2>1, <2>2, <2>3 DEF Glued
<1>6. QED
  BY <1>4, <1>5 DEF u, n

LEMMA JoinConcat ==
  ASSUME NEW S, Blank \in S, NEW t \in Seq(S), NEW p \in Seq(S), ~Open(t)
  PROVE  JoinLineContinuations(t \o p) = JoinLineContinuations(t) \o JoinLineContinuations(p)
<1> DEFINE u == t \o p
           a == JoinLineContinuations(t)
           b == JoinLineContinuations(p)
           c == JoinLineContinuations(u)
<1>1. u \in Seq(S) /\ Len(u) = Len(t) + Len(p) /\ Len(t) \in Nat /\ Len(p) \in Nat
      /\ (\A i \in 1..Len(t) : u[i] = t[i])
      /\ (\A k \in 1..Len(p) : u[Len(t) + k] = p[k])
  BY ConcatAt
<1>2. /\ (\A i \in 1..Len(t) : Glued(u, i) <=> Glued(t, i))
      /\ (\A k \in 1..Len(p) : Glued(u, Len(t) + k) <=> Glued(p, k))
  BY GluedConcat
<1> HIDE DEF u
<1>3. a \in Seq(S) /\ Len(a) = Len(t)
      /\ \A i \in 1..Len(t) : a[i] = IF Glued(t, i) THEN Blank ELSE t[i]
  BY JoinIs
<1>4. b \in Seq(S) /\ Len(b) = Len(p)
      /\ \A i \in 1..Len(p) : b[i] = IF Glued(p, i) THEN Blank ELSE p[i]
  BY JoinIs
<1>5. c \in Seq(S) /\ Len(c) = Len(u)
      /\ \A i \in 1..Len(u) : c[i] = IF Glued(u, i) THEN Blank ELSE u[i]
  BY <1>1, JoinIs
<1> HIDE DEF a, b, c
<1>6. a \o b \in Seq(S) /\ Len(a \o b) = Len(u)
      /\ (\A i \in 1..Len(t) : (a \o b)[i] = a[i])
      /\ (\A k \in 1..Len(p) : (a \o b)[Len(t) + k] = b[k])
  <2>1. /\ a \o b \in Seq(S) /\ Len(a \o b) = Len(a) + Len(b)
        /\ \A i \in 1..Len(a) : (a \o b)[i] = a[i]
        /\ \A k \in 1..Len(b) : (a \o b)[Len(a) + k] = b[k]
    <3>1. a \in Seq(S) /\ b \in Seq(S)
      BY <1>3, <1>4
    <3>2. QED
      BY <3>1, ConcatAt
  <2>2. QED
    BY <2>1, <1>1, <1>3, <1>4
<1>7. ASSUME NEW i \in 1..Len(u) PROVE c[i] = (a \o b)[i]
  <2>1. CASE i \in 1..Len(t)
    <3>1. u[i] = t[i] /\ (Glued(u, i) <=> Glued(t, i)) /\ (a \o b)[i] = a[i]
      BY <2>1, <1>1, <1>2, <1>6
    <3>2. QED
      BY <2>1, <3>1, <1>3, <1>5
  <2>2. CASE i \notin 1..Len(t)
    <3>1. i - Len(t) \in 1..Len(p) /\ Len(t) + (i - Len(t)) = i
      BY <2>2, <1>1
    <3>2. (a \o b)[i] = b[i - Len(t)] /\ u[i] = p[i - Len(t)] /\ (Glued(u, i) <=> Glued(p, i - Len(t)))
      BY <3>1, <1>1, <1>2, <1>6, SMTT(30)
    <3>3. QED
      BY <3>1, <3>2, <1>4, <1>5
  <2>3. QED
    BY <2>1, <2>2
<1>8. c = a \o b
  <2> DEFINE d == a \o b
  <2>1. d \in Seq(S) /\ c \in Seq(S) /\ Len(c) = Len(d)
        /\ \A i \in 1..Len(c) : c[i] = d[i]
    BY <1>1, <1>5, <1>6, <1>7
  <2> HIDE DEF d
  <2>2. c = d
    BY <2>1, SeqEqual
  <2>3. QED
    BY <2>2 DEF d
<1>9. QED
  BY <1>8 DEF a, b, c, u

\* What is known before what is appended to a text: it begins a piece.
Settled(text) ==
    Len(text) # 0 =>
        \A c : Begins(Advance(Mode(text)[Len(text)], text[Len(text)], c), c)

Chars == {"x", "'", "''", ";", "|", "nl", "\\", Blank, ">", "&"}

Simple == Chars \ {"\\"}

\* The pieces by how they are made up of characters.
LEMMA PieceShapes ==
  ASSUME NEW p \in CommandPieces
  PROVE  \/ \E a \in Simple : p = <<a>>
         \/ \E a, b \in Simple : p = <<a, b>>
         \/ \E a, b, c \in Simple : p = <<a, b, c>>
         \/ \E a, b, c, d \in Simple : p = <<a, b, c, d>>
         \/ \E a, b, c, d, e \in Simple : p = <<a, b, c, d, e>>
         \/ \E a \in Simple, c \in Simple \ {"nl"} : p = <<a, "\\", c>>
         \/ \E a \in Simple, c, d \in Simple \ {"nl"} : p = <<a, "\\", c, d>>
         \/ \E b \in Simple \ {"nl"} : p = <<"\\", b>>
         \/ p = <<"\\", "nl">>
<1>1. /\ "x" \in Simple /\ "'" \in Simple /\ "''" \in Simple /\ ";" \in Simple
      /\ "|" \in Simple /\ "nl" \in Simple /\ ">" \in Simple /\ "&" \in Simple
      /\ ";" # "nl" /\ "'" # "nl" /\ "''" # "nl"
  BY DEF Chars, Simple
<1>2. CASE p = <<";">>
  BY <1>1, <1>2
<1>3. CASE p = <<"|">>
  BY <1>1, <1>3
<1>4. CASE p = <<"nl">>
  BY <1>1, <1>4
<1>5. CASE p = <<"x">>
  BY <1>1, <1>5
<1>6. CASE p = <<"&", "&">>
  BY <1>1, <1>6
<1>7. CASE p = <<"|", "|">>
  BY <1>1, <1>7
<1>8. CASE p = <<">", "|">>
  BY <1>1, <1>8
<1>9. CASE p = <<"'", ";", "''", "'">>
  BY <1>1, <1>9
<1>10. CASE p = <<"''", "'", "|", "nl", "''">>
  BY <1>1, <1>10
<1>11. CASE p = <<"'", "\\", "'">>
  BY <1>1, <1>11
<1>12. CASE p = <<"\\", ";">>
  BY <1>1, <1>12
<1>13. CASE p = <<"\\", "'">>
  BY <1>1, <1>13
<1>14. CASE p = <<">", "&", "x">>
  BY <1>1, <1>14
<1>15. CASE p = <<"&", ">", "x">>
  BY <1>1, <1>15
<1>16. CASE p = EscapedQuote
  BY <1>1, <1>16 DEF EscapedQuote
<1>17. QED
  BY <1>2, <1>3, <1>4, <1>5, <1>6, <1>7, <1>8, <1>9, <1>10, <1>11, <1>12, <1>13, <1>14,
     <1>15, <1>16
     DEF CommandPieces, SeparatorPieces, BothRedirections

LEMMA PieceTypes ==
  ASSUME NEW p \in CommandPieces
  PROVE  p \in Seq(Chars) /\ Len(p) \in Nat \ {0} /\ DOMAIN p = 1..Len(p)
<1>1. Simple \subseteq Chars /\ "\\" \in Chars /\ "nl" \in Chars
  BY DEF Simple, Chars
<1>2. CASE \E a \in Chars : p = <<a>>
  BY <1>2
<1>3. CASE \E a, b \in Chars : p = <<a, b>>
  BY <1>3
<1>4. CASE \E a, b, c \in Chars : p = <<a, b, c>>
  BY <1>4
<1>5. CASE \E a, b, c, d \in Chars : p = <<a, b, c, d>>
  BY <1>5
<1>6. CASE \E a, b, c, d, e \in Chars : p = <<a, b, c, d, e>>
  BY <1>6
<1>7. QED
  BY <1>1, <1>2, <1>3, <1>4, <1>5, <1>6, PieceShapes

\* A piece with no backslash before a newline is left as it is.
LEMMA NotGlued ==
  ASSUME NEW S, Blank \in S, NEW p \in Seq(S),
         \A i \in DOMAIN p : p[i] = "\\" => At(p, i + 1) # "nl"
  PROVE  JoinLineContinuations(p) = p
<1>1. Len(p) \in Nat /\ DOMAIN p = 1..Len(p)
  OBVIOUS
<1>2. ASSUME NEW i \in 1..Len(p) PROVE ~Glued(p, i)
  <2>1. CASE i = 1
    <3>1. At(p, i - 1) = None
      BY <1>1, <2>1 DEF At
    <3>2. At(p, i - 1) # "\\"
      BY <3>1 DEF None
    <3>3. QED
      BY <3>2, <1>1 DEF Glued
  <2>2. CASE i # 1
    <3>1. i - 1 \in DOMAIN p /\ (i - 1) + 1 = i
      BY <1>1, <2>2
    <3>2. At(p, i - 1) = p[i - 1] /\ At(p, i) = p[i]
      BY <3>1, <1>1 DEF At
    <3>3. p[i - 1] = "\\" => p[i] # "nl"
      BY <3>1, <3>2
    <3>4. QED
      BY <3>2, <3>3, <1>1 DEF Glued
  <2>3. QED
    BY <2>1, <2>2
<1> DEFINE j == JoinLineContinuations(p)
<1>3. j \in Seq(S) /\ Len(j) = Len(p) /\ \A i \in 1..Len(p) : j[i] = p[i]
  BY <1>2, JoinIs
<1> HIDE DEF j
<1>4. j = p
  BY <1>3, SeqEqual
<1>5. QED
  BY <1>4 DEF j

LEMMA JoinedPiece ==
  ASSUME NEW p \in CommandPieces
  PROVE  /\ p # EscapedQuote =>
                /\ JoinLineContinuations(p) \in JoinedPieces
                /\ CutWithin(JoinLineContinuations(p)) = CutWithin(p)
         /\ ~Open(p)
<1> DEFINE plain == \A i \in DOMAIN p : p[i] = "\\" => At(p, i + 1) # "nl"
<1>1. Blank \in Chars
  BY DEF Chars
<1>2. p # <<"\\", "nl">> /\ p # EscapedQuote => p \in JoinedPieces
  BY DEF JoinedPieces
<1>3. ASSUME plain, p # <<"\\", "nl">>, ~Open(p)
      PROVE  p # EscapedQuote =>
                /\ JoinLineContinuations(p) \in JoinedPieces
                /\ CutWithin(JoinLineContinuations(p)) = CutWithin(p)
  <2>1. JoinLineContinuations(p) = p
    BY <1>1, <1>3, NotGlued, PieceTypes
  <2>2. QED
    BY <1>2, <1>3, <2>1
<1>4. CASE \A i \in DOMAIN p : p[i] # "\\"
  <2>1. plain
    BY <1>4
  <2>2. ~Open(p)
    BY <1>4 DEF Open, At, None
  <2>3. p # <<"\\", "nl">>
    <3>1. SUFFICES ASSUME p = <<"\\", "nl">> PROVE FALSE
      OBVIOUS
    <3>2. 1 \in DOMAIN p /\ p[1] = "\\"
      BY <3>1
    <3>3. QED
      BY <3>2, <1>4
  <2>4. QED
    BY <1>3, <2>1, <2>2, <2>3
<1>5. CASE \E a \in Simple, c \in Simple \ {"nl"} : p = <<a, "\\", c>>
  <2>0. PICK a \in Simple, c \in Simple \ {"nl"} : p = <<a, "\\", c>>
    BY <1>5
  <2>1. DOMAIN p = 1..3 /\ Len(p) = 3
    BY <2>0
  <2>2. p[1] = a /\ p[2] = "\\" /\ p[3] = c /\ a # "\\" /\ c # "\\" /\ c # "nl"
    BY <2>0 DEF Simple
  <2>3. \A i \in 1..3 : i = 1 \/ i = 2 \/ i = 3
    OBVIOUS
  <2>4. At(p, 1 + 1) = p[2] /\ At(p, 2 + 1) = p[3]
    BY <2>1 DEF At
  <2>5. plain
    BY <2>1, <2>2, <2>3, <2>4
  <2>6. ~Open(p) /\ p # <<"\\", "nl">>
    BY <2>1, <2>2 DEF Open, At
  <2>7. QED
    BY <1>3, <2>5, <2>6
<1>6. CASE \E b \in Simple \ {"nl"} : p = <<"\\", b>>
  <2>0. PICK b \in Simple \ {"nl"} : p = <<"\\", b>>
    BY <1>6
  <2>1. DOMAIN p = 1..2 /\ Len(p) = 2
    BY <2>0
  <2>2. p[1] = "\\" /\ p[2] = b /\ b # "\\" /\ b # "nl"
    BY <2>0 DEF Simple
  <2>3. \A i \in 1..2 : i = 1 \/ i = 2
    OBVIOUS
  <2>4. At(p, 1 + 1) = p[2]
    BY <2>1 DEF At
  <2>5. plain
    BY <2>1, <2>2, <2>3, <2>4
  <2>6. ~Open(p) /\ p # <<"\\", "nl">>
    BY <2>1, <2>2 DEF Open, At
  <2>7. QED
    BY <1>3, <2>5, <2>6
<1>7. CASE p = <<"\\", "nl">>
  <2>1. DOMAIN p = 1..2 /\ Len(p) = 2
    BY <1>7
  <2>2. p[1] = "\\" /\ p[2] = "nl"
    BY <1>7
  <2>3. At(p, 1 + 1) = p[2] /\ At(p, 2 - 1) = p[1] /\ At(p, 2) = p[2]
    BY <2>1 DEF At
  <2>4. Glued(p, 1) /\ Glued(p, 2)
    BY <2>2, <2>3 DEF Glued
  <2> DEFINE j == JoinLineContinuations(p)
  <2>5. j \in Seq(Chars) /\ Len(j) = 2 /\ j[1] = Blank /\ j[2] = Blank
    BY <1>1, <2>1, <2>4, JoinIs, PieceTypes
  <2> HIDE DEF j
  <2>6. j = <<Blank, Blank>>
    BY <2>5
  <2>7. j \in JoinedPieces
    BY <2>6 DEF JoinedPieces, Blank
  <2>8. j \notin SeparatorPieces /\ j \notin BothRedirections
    BY <2>6 DEF SeparatorPieces, BothRedirections, Blank
  <2>9. p \notin SeparatorPieces /\ p \notin BothRedirections
    BY <1>7 DEF SeparatorPieces, BothRedirections
  <2>12. CutWithin(j) = {} /\ CutWithin(p) = {}
    BY <2>8, <2>9 DEF CutWithin
  <2>10. ~Open(p)
    BY <2>1, <2>2, <2>3 DEF Open
  <2>11. QED
    BY <2>7, <2>10, <2>12 DEF j
<1>8. CASE \E a \in Simple : p = <<a>>
  BY <1>4, <1>8 DEF Simple
<1>9. CASE \E a, b \in Simple : p = <<a, b>>
  BY <1>4, <1>9 DEF Simple
<1>10. CASE \E a, b, c, d \in Simple : p = <<a, b, c, d>>
  BY <1>4, <1>10 DEF Simple
<1>11. CASE \E a, b, c, d, e \in Simple : p = <<a, b, c, d, e>>
  BY <1>4, <1>11 DEF Simple
<1>12. CASE \E a, b, c \in Simple : p = <<a, b, c>>
  BY <1>4, <1>12 DEF Simple
<1>13. CASE \E a \in Simple, c, d \in Simple \ {"nl"} : p = <<a, "\\", c, d>>
  <2>0. PICK a \in Simple, c, d \in Simple \ {"nl"} : p = <<a, "\\", c, d>>
    BY <1>13
  <2>1. DOMAIN p = 1..4 /\ Len(p) = 4
    BY <2>0
  <2>2. p[1] = a /\ p[2] = "\\" /\ p[3] = c /\ p[4] = d
        /\ a # "\\" /\ c # "\\" /\ c # "nl" /\ d # "\\"
    BY <2>0 DEF Simple
  <2>3. \A i \in 1..4 : i = 1 \/ i = 2 \/ i = 3 \/ i = 4
    OBVIOUS
  <2>4. At(p, 2 + 1) = p[3] /\ At(p, 4) = p[4]
    BY <2>1 DEF At
  <2>5. plain
    BY <2>1, <2>2, <2>3, <2>4
  <2>6. ~Open(p) /\ p # <<"\\", "nl">>
    BY <2>1, <2>2, <2>4 DEF Open
  <2>7. QED
    BY <1>3, <2>5, <2>6
<1>14. QED
  BY <1>5, <1>6, <1>7, <1>8, <1>9, <1>10, <1>11, <1>12, <1>13, PieceShapes

\* Where a text of joined lines is cut.
CutPositions(text) == {i \in DOMAIN text : Cut(Mode(text)[i], text[i])}

\* Where a text is cut does not depend on what follows it.
LEMMA CutsOfPrefix ==
  ASSUME NEW S, NEW t \in Seq(S), NEW q \in Seq(S)
  PROVE  \A i \in 1..Len(t) : i \in CutPositions(t \o q) <=> i \in CutPositions(t)
<1> DEFINE u == t \o q
<1>1. /\ Len(t) \in Nat /\ Len(q) \in Nat
      /\ DOMAIN u = 1..Len(t) + Len(q) /\ DOMAIN t = 1..Len(t)
      /\ \A i \in 1..Len(t) : u[i] = t[i]
  BY ConcatAt
<1>2. \A i \in 1..Len(t) : Mode(u)[i] = Mode(t)[i]
  BY ModeOfPrefix
<1> HIDE DEF u
<1>3. QED
  BY <1>1, <1>2 DEF CutPositions, u

\* A piece more at the end of a text that leaves nothing open is cut as it should.
LEMMA CutsConcat ==
  ASSUME NEW S, NEW t \in Seq(S), NEW q \in Seq(S), q \in JoinedPieces, Settled(t),
         Len(q) # 0
  PROVE  /\ \A k \in 1..Len(q) :
                Len(t) + k \in CutPositions(t \o q) <=> k \in CutWithin(q)
         /\ Settled(t \o q)
<1> DEFINE u == t \o q
           n == Len(t)
           L == Len(q)
<1>1. /\ u \in Seq(S) /\ n \in Nat /\ L \in Nat /\ Len(u) = n + L
      /\ DOMAIN u = 1..n + L /\ DOMAIN t = 1..n /\ DOMAIN q = 1..L
      /\ \A i \in 1..n : u[i] = t[i] /\ At(u, i) = At(t, i) /\ At(t, i) = t[i]
      /\ \A k \in 1..L : u[n + k] = q[k] /\ At(u, n + k) = q[k]
  BY ConcatAt
<1>2. /\ Mode(u)[1] = "plain"
      /\ \A i \in 1..n + L : Mode(u)[i + 1] = Advance(Mode(u)[i], u[i], At(u, i + 1))
  BY <1>1, ModeScans
<1>3. \A i \in 1..n : Mode(u)[i] = Mode(t)[i]
  BY ModeOfPrefix
<1>4. n # 0 => \A c : Begins(Advance(Mode(t)[n], t[n], c), c)
  BY DEF Settled
<1> HIDE DEF u, n, L
<1>5. L # 0
  BY DEF L
<1>6. QED
  <2> DEFINE f == [k \in 1..L |-> Mode(u)[n + k]]
  <2>1. Begins(Mode(u)[n + 1], q[1])
    <3>1. CASE n = 0
      BY <1>2, <3>1 DEF Begins
    <3>2. CASE n # 0
      <4>1. n \in 1..n + L /\ n \in 1..n /\ 1 \in 1..L
        BY <1>1, <1>5, <3>2
      <4>2. Mode(u)[n + 1] = Advance(Mode(t)[n], t[n], q[1])
        BY <1>1, <1>2, <1>3, <4>1
      <4>3. QED
        BY <1>4, <3>2, <4>2
    <3>3. QED
      BY <3>1, <3>2
  <2>2. ASSUME NEW k \in 1..L - 1 PROVE f[k + 1] = Advance(f[k], q[k], q[k + 1])
    <3>1. /\ k \in 1..L /\ k + 1 \in 1..L /\ n + k \in 1..n + L
          /\ n + (k + 1) = (n + k) + 1
      BY <1>1
    <3>2. Mode(u)[(n + k) + 1] = Advance(Mode(u)[n + k], u[n + k], At(u, (n + k) + 1))
      BY <1>2, <3>1
    <3>3. u[n + k] = q[k] /\ At(u, (n + k) + 1) = q[k + 1]
      BY <1>1, <3>1
    <3>4. f[k + 1] = Mode(u)[(n + k) + 1] /\ f[k] = Mode(u)[n + k]
      BY <3>1
    <3>5. QED
      BY <3>2, <3>3, <3>4
  <2>3. \A k \in 1..L : f[k] = Mode(u)[n + k]
    OBVIOUS
  <2> HIDE DEF f
  <2>4. 1 \in 1..L /\ L \in 1..L /\ n + L \in 1..n + L
    BY <1>1, <1>5
  <2>5. Scanned(f, q) /\ Begins(f[1], q[1])
    BY <2>1, <2>2, <2>3, <2>4 DEF Scanned, L
  <2>6. /\ \A k \in 1..L :
              Cut(f[k], q[k]) <=>
                  (q \in SeparatorPieces \/ (q \in BothRedirections /\ q[k] = "&"))
        /\ \A c : Begins(Advance(f[L], q[L], c), c)
    BY <2>5, PieceScanned DEF L
  <2>7. ASSUME NEW k \in 1..L
        PROVE  n + k \in CutPositions(u) <=> k \in CutWithin(q)
    <3>1. n + k \in 1..n + L
      BY <1>1
    <3>2. n + k \in CutPositions(u) <=> Cut(f[k], q[k])
      BY <1>1, <2>3, <3>1 DEF CutPositions
    <3>3. k \in CutWithin(q) <=>
              (q \in SeparatorPieces \/ (q \in BothRedirections /\ q[k] = "&"))
      BY <1>1 DEF CutWithin
    <3>4. QED
      BY <2>6, <3>2, <3>3
  <2>8. Settled(u)
    <3>1. Mode(u)[n + L] = f[L] /\ u[n + L] = q[L]
      BY <1>1, <2>3, <2>4
    <3>2. QED
      BY <1>1, <2>6, <3>1 DEF Settled
  <2>9. QED
    BY <2>7, <2>8 DEF u, n, L

\* What holds of every text by induction: each piece is cut where it should be, if
\* the scan still knows the quotes there, and nothing is left open then.
CutInv(s) ==
    LET text == FlattenSeq(s)
        joined == JoinLineContinuations(text)
    IN /\ ~Open(text)
       /\ KnowsQuotes(s, Len(s)) => Settled(joined)
       /\ \A k \in 1..Len(s) : \A i \in 1..Len(s[k]) :
            /\ Offset(s, k) + i \in 1..Len(text)
            /\ KnowsQuotes(s, k) =>
                  (Offset(s, k) + i \in CutPositions(joined) <=> i \in CutWithin(s[k]))

LEMMA CutEmpty == CutInv(<<>>)
<1>1. FlattenSeq(<<>>) = <<>> /\ JoinLineContinuations(<<>>) = <<>>
  BY FlattenEmpty DEF JoinLineContinuations
<1>2. ~Open(<<>>)
  BY DEF Open, At, None
<1>3. Settled(<<>>)
  BY DEF Settled
<1>4. 1..Len(<<>>) = {}
  OBVIOUS
<1>5. QED
  BY <1>1, <1>2, <1>3, <1>4 DEF CutInv

LEMMA CutAppend ==
  ASSUME NEW s \in Seq(CommandPieces), NEW p \in CommandPieces, CutInv(s)
  PROVE  CutInv(Append(s, p))
<1> DEFINE t == FlattenSeq(s)
           j == JoinLineContinuations(t)
           q == JoinLineContinuations(p)
           v == Append(s, p)
           n == Len(s)
<1>1. p \in Seq(Chars) /\ Len(p) \in Nat \ {0} /\ DOMAIN p = 1..Len(p)
  BY PieceTypes
<1>2. s \in Seq(Seq(Chars))
  BY PieceTypes, SeqMonotonic
<1>3. t \in Seq(Chars) /\ FlattenSeq(v) = t \o p
  BY <1>1, <1>2, FlattenType, FlattenAppend
<1>4. /\ ~Open(t)
      /\ KnowsQuotes(s, n) => Settled(j)
      /\ \A k \in 1..n : \A i \in 1..Len(s[k]) :
            /\ Offset(s, k) + i \in 1..Len(t)
            /\ KnowsQuotes(s, k) =>
                  (Offset(s, k) + i \in CutPositions(j) <=> i \in CutWithin(s[k]))
  BY DEF CutInv
<1>5. n \in Nat /\ Len(v) = n + 1 /\ v[n + 1] = p /\ \A k \in 1..n : v[k] = s[k]
  BY <1>2, AppendProperties
<1>6. (\A k \in 1..n : Offset(v, k) = Offset(s, k)) /\ Offset(v, n + 1) = Len(t)
  <2>1. (\A k \in 1..n + 1 : Offset(v, k) = Offset(s, k)) /\ Offset(s, n + 1) = Len(t)
    BY <1>1, <1>2, OffsetAppend
  <2> HIDE DEF n, t, v
  <2>2. QED
    BY <1>5, <2>1
<1>7. Blank \in Chars
  BY DEF Chars
<1> HIDE DEF t, v
<1>8. j \in Seq(Chars) /\ Len(j) = Len(t) /\ q \in Seq(Chars) /\ Len(q) = Len(p)
  BY <1>1, <1>3, <1>7, JoinIs
<1>9. JoinLineContinuations(t \o p) = j \o q
  BY <1>1, <1>3, <1>4, <1>7, JoinConcat
<1>10. /\ p # EscapedQuote => q \in JoinedPieces /\ CutWithin(q) = CutWithin(p)
       /\ ~Open(p)
  BY JoinedPiece
<1> HIDE DEF j, q, n
<1>11. \A i \in 1..Len(t) : i \in CutPositions(j \o q) <=> i \in CutPositions(j)
  BY <1>8, CutsOfPrefix
<1>12. \A k \in 1..n : KnowsQuotes(v, k) => KnowsQuotes(s, k)
  BY <1>5 DEF KnowsQuotes
<1>13. KnowsQuotes(v, n + 1) => KnowsQuotes(s, n) /\ p # EscapedQuote
  <2>1. n + 1 \in 1..n + 1 /\ \A k \in 1..n : k \in 1..n + 1
    BY <1>5
  <2>2. QED
    BY <1>5, <2>1 DEF KnowsQuotes
<1>14. KnowsQuotes(v, n + 1) =>
          /\ \A k \in 1..Len(p) : Len(t) + k \in CutPositions(j \o q) <=> k \in CutWithin(p)
          /\ Settled(j \o q)
  <2>1. SUFFICES ASSUME KnowsQuotes(v, n + 1)
                 PROVE  /\ \A k \in 1..Len(p) :
                              Len(t) + k \in CutPositions(j \o q) <=> k \in CutWithin(p)
                        /\ Settled(j \o q)
    OBVIOUS
  <2>2. Settled(j) /\ q \in JoinedPieces /\ CutWithin(q) = CutWithin(p) /\ Len(q) # 0
    BY <1>1, <1>4, <1>8, <1>10, <1>13, <2>1
  <2>3. /\ \A k \in 1..Len(q) : Len(j) + k \in CutPositions(j \o q) <=> k \in CutWithin(q)
        /\ Settled(j \o q)
    BY <1>8, <2>2, CutsConcat
  <2>4. QED
    BY <1>8, <2>2, <2>3
<1>15. /\ Len(t \o p) = Len(t) + Len(p) /\ Len(t) \in Nat
       /\ \A k \in 1..Len(p) : At(t \o p, Len(t) + k) = p[k]
  BY <1>1, <1>3, ConcatAt
<1>16. ~Open(t \o p)
  <2>1. Len(p) \in 1..Len(p)
    BY <1>1
  <2>2. At(t \o p, Len(t) + Len(p)) = p[Len(p)]
    BY <1>15, <2>1
  <2>3. At(p, Len(p)) = p[Len(p)]
    BY <1>1, <2>1 DEF At
  <2>4. QED
    BY <1>10, <1>15, <2>2, <2>3 DEF Open
<1>17. ASSUME NEW k \in 1..n + 1, NEW i \in 1..Len(v[k])
       PROVE  /\ Offset(v, k) + i \in 1..Len(t) + Len(p)
              /\ KnowsQuotes(v, k) =>
                    (Offset(v, k) + i \in CutPositions(j \o q) <=> i \in CutWithin(v[k]))
  <2>1. CASE k \in 1..n
    <3>1. v[k] = s[k] /\ Offset(v, k) = Offset(s, k) /\ i \in 1..Len(s[k])
      BY <1>5, <1>6, <2>1
    <3>2. Offset(s, k) + i \in 1..Len(t)
      BY <1>4, <2>1, <3>1
    <3>3. KnowsQuotes(s, k) =>
              (Offset(s, k) + i \in CutPositions(j) <=> i \in CutWithin(s[k]))
      BY <1>4, <2>1, <3>1
    <3>4. Offset(s, k) + i \in 1..Len(t) + Len(p)
      BY <1>1, <1>15, <3>2
    <3>5. KnowsQuotes(v, k) => KnowsQuotes(s, k)
      BY <1>12, <2>1
    <3>6. QED
      BY <1>11, <3>1, <3>2, <3>3, <3>4, <3>5
  <2>2. CASE k = n + 1
    <3>1. v[k] = p /\ Offset(v, k) = Len(t) /\ i \in 1..Len(p)
      BY <1>5, <1>6, <2>2
    <3>2. Len(t) + i \in 1..Len(t) + Len(p)
      BY <1>1, <1>15, <3>1
    <3>3. QED
      BY <1>14, <2>2, <3>1, <3>2
  <2>3. QED
    BY <1>5, <2>1, <2>2
<1>18. QED
  BY <1>3, <1>5, <1>9, <1>14, <1>15, <1>16, <1>17 DEF CutInv, v

\* So a command of any length is cut as it was built.
LEMMA AlwaysCutAsBuilt ==
  ASSUME NEW s \in Seq(CommandPieces)
  PROVE  CutAsBuilt(s)
<1> DEFINE Good == {x \in Seq(CommandPieces) : CutInv(x)}
<1>1. <<>> \in Good
  BY CutEmpty
<1>2. \A x \in Seq(CommandPieces), p \in CommandPieces : x \in Good => Append(x, p) \in Good
  BY CutAppend, AppendProperties
<1> HIDE DEF Good
<1>3. Seq(CommandPieces) \subseteq Good
  BY <1>1, <1>2, SequenceInduction
<1>4. CutInv(s)
  BY <1>3 DEF Good
<1>5. Cuts(FlattenSeq(s)) = CutPositions(JoinLineContinuations(FlattenSeq(s)))
  BY DEF Cuts, CutPositions, Cut
<1>6. DOMAIN s = 1..Len(s) /\ \A k \in 1..Len(s) : DOMAIN s[k] = 1..Len(s[k])
  BY PieceTypes
<1>7. QED
  BY <1>4, <1>5, <1>6 DEF CutInv, CutAsBuilt

-----------------------------------------------------------------------------
(***************************************************************************)
(* Raw creates and shadow ledgers.                                         *)
(***************************************************************************)
\* A create the hook sees is one that the shell runs or the command mentions, and
\* one that is run is seen, however many words there are: cutting at more
\* separators only hides less.
LEMMA CreateAlwaysJudged == ASSUME NEW words \in Seq(CreateWords) PROVE CreateJudged(words)
<1> DEFINE mine == {k \in DOMAIN words :
                        \/ words[k] \in Control
                        \/ words[k] = "nl" /\ LinesLex(words)}
           shell == ShellStops(words)
<1>1. ~MixesBreaks(words) /\ ~Quoted(words, Len(words)) => shell \subseteq mine
  <2> DEFINE breaks == {i \in DOMAIN words : words[i] = "nl"}
  <2> SUFFICES ASSUME \A i, j \in breaks : Quoted(words, i) = Quoted(words, j),
                      ~Quoted(words, Len(words))
               PROVE  shell \subseteq mine
    BY DEF MixesBreaks, Quoted
  <2>1. QED
    BY DEF LinesLex, ShellStops
<1>2. ~(\E k \in DOMAIN words : words[k] \in Control /\ Quoted(words, k)) => mine \subseteq shell
  BY DEF LinesLex, ShellStops
<1>3. IsRawBdCreate(words) <=> ~Quoted(words, Len(words)) /\ RunsCreate(words, mine)
  BY DEF IsRawBdCreate
<1> HIDE DEF mine
<1>4. \A i \in DOMAIN words : words[i] \in CreateWords
  OBVIOUS
<1>5. \A w \in CreateWords : Base(w) = "bd" <=> w = "bd"
  BY Zenon DEF Base, Directories, CreateWords
<1>6. ASSUME IsRawBdCreate(words), ~MixesBreaks(words)
      PROVE  ShellRunsCreate(words) \/ MentionsCreate(words)
  <2>1. shell \subseteq mine /\ RunsCreate(words, mine)
    BY <1>1, <1>3, <1>6
  <2>2. PICK i, j \in DOMAIN words :
            /\ i < j
            /\ Base(words[i]) = "bd" /\ ~Quoted(words, i)
            /\ words[j] = "create" /\ ~Quoted(words, j)
            /\ (i + 1..j - 1) \intersect mine = {}
    BY <2>1 DEF RunsCreate
  <2>3. words[i] = "bd"
    BY <1>4, <1>5, <2>2
  <2>4. Together(words, i, j)
    BY <2>1, <2>2, <2>3 DEF Together
  <2>5. QED
    BY <2>4 DEF ShellRunsCreate, MentionsCreate
<1>7. ASSUME ShellRunsCreate(words), ~Quoted(words, Len(words)),
             ~(\E k \in DOMAIN words : words[k] \in Control /\ Quoted(words, k))
      PROVE  IsRawBdCreate(words)
  <2>1. PICK i, j \in DOMAIN words : Together(words, i, j)
    BY <1>7 DEF ShellRunsCreate
  <2>2. Base(words[i]) = "bd"
    BY <1>4, <1>5, <2>1 DEF Together
  <2>3. mine \subseteq shell
    BY <1>2, <1>7
  <2>4. RunsCreate(words, mine)
    BY <2>1, <2>2, <2>3 DEF Together, RunsCreate
  <2>5. QED
    BY <1>3, <1>7, <2>4
<1>8. QED
  BY <1>6, <1>7 DEF CreateJudged

\* What is found from a position on.
LEMMA FromHas ==
  ASSUME NEW S, NEW s \in Seq(S), NEW i \in DOMAIN s, NEW x
  PROVE  x \in ToSet(From(s, i)) <=> \E j \in DOMAIN s : i <= j /\ s[j] = x
<1>1. i \in 1..Len(s) /\ Len(s) \in Nat /\ DOMAIN s = 1..Len(s)
  OBVIOUS
<1>2. From(s, i) = [k \in 1..Len(s) - i + 1 |-> s[i + k - 1]]
  BY <1>1 DEF From
<1>3. DOMAIN From(s, i) = 1..Len(s) - i + 1
  BY <1>1, <1>2
<1>4. ASSUME NEW j \in i..Len(s) PROVE s[j] \in ToSet(From(s, i))
  <2>1. j - i + 1 \in 1..Len(s) - i + 1 /\ i + (j - i + 1) - 1 = j
    BY <1>1
  <2>2. QED
    BY <2>1, <1>1, <1>2, <1>3 DEF ToSet
<1>5. ASSUME NEW k \in 1..Len(s) - i + 1 PROVE i + k - 1 \in i..Len(s) /\ From(s, i)[k] = s[i + k - 1]
  BY <1>1, <1>2
<1>6. ASSUME x \in ToSet(From(s, i)) PROVE \E j \in i..Len(s) : s[j] = x
  BY <1>3, <1>5, <1>6 DEF ToSet
<1>7. QED
  BY <1>1, <1>4, <1>6

\* The one entry by which somebody has typed, and the one block that lists tasks.
Typed == Entry("user", {Block("text")})
Plan == Call("Write", "plan/a.md", 3)
ListOf(b) ==
    /\ b.kind = "tool_use" /\ b.tool \in PersistingTools /\ b.path # None
    /\ b.path \in PlanningArtifacts /\ b.boxes >= CheckboxThreshold

LEMMA EntriesJudged ==
  ASSUME NEW e \in TranscriptEntries
  PROVE  /\ IsRealUserEntry(e) <=> e = Typed
         /\ Plan \in e.blocks => e.type = "assistant"
         /\ \A b \in e.blocks : ListOf(b) <=> b = Plan
<1> DEFINE text == Block("text")
           result == Block("tool_result")
           brief == Call("Edit", "handoff.md", 2)
           shell == Call("Bash", "plan/a.md", 3)
           code == Call("MultiEdit", "src/a.py", 4)
           kinds == {b.kind : b \in e.blocks}
<1>1. text.kind = "text" /\ result.kind = "tool_result"
  BY DEF Block
<1>2. Plan.kind = "tool_use" /\ brief.kind = "tool_use" /\ shell.kind = "tool_use"
      /\ code.kind = "tool_use"
  BY DEF Call, Plan
<1>3. ~ListOf(text) /\ ~ListOf(result)
  BY <1>1 DEF ListOf
<1>4. ListOf(Plan) /\ ~ListOf(brief) /\ ~ListOf(shell) /\ ~ListOf(code)
  BY DEF ListOf, Call, Plan, PersistingTools, PlanningArtifacts, CheckboxThreshold, None
<1>5. \A t, b : Entry(t, b).type = t /\ Entry(t, b).blocks = b
  BY DEF Entry
<1>6. Typed.type = "user" /\ Typed.blocks = {text}
  BY <1>5 DEF Typed
<1>7. IsRealUserEntry(e) <=>
        /\ e.type = "user"
        /\ \E b \in e.blocks : b.kind = "text"
        /\ \A b \in e.blocks : b.kind # "tool_result"
  BY DEF IsRealUserEntry
<1>8. \/ e = Typed \/ e = Entry("user", {result}) \/ e = Entry("user", {text, result})
      \/ e = Entry("user", {}) \/ e = Entry("malformed", {})
      \/ e = Entry("assistant", {Plan, text}) \/ e = Entry("assistant", {brief, shell})
      \/ e = Entry("assistant", {code})
  BY DEF TranscriptEntries, Typed, Plan
<1> HIDE DEF text, result, brief, shell, code
<1>9. CASE e = Typed
  BY <1>1, <1>2, <1>3, <1>6, <1>7, <1>9
<1>10. CASE e.type = "user" /\ e.blocks \in {{result}, {text, result}, {}}
  BY <1>1, <1>2, <1>3, <1>6, <1>7, <1>10
<1>11. CASE e.type # "user" /\ e.blocks = {}
  BY <1>6, <1>7, <1>11
<1>12. CASE e.type = "assistant" /\ e.blocks \in {{Plan, text}, {brief, shell}, {code}}
  BY <1>3, <1>4, <1>6, <1>7, <1>12
<1>13. QED
  BY <1>5, <1>8, <1>9, <1>10, <1>11, <1>12

\* A transcript of any length is warned of as its last turn deserves.
LEMMA AlwaysWarns ==
  ASSUME NEW entries \in Seq(TranscriptEntries)
  PROVE  WarnsOfThisTurn(entries)
<1>1. \A i \in DOMAIN entries : entries[i] \in TranscriptEntries /\ i \in Nat
  OBVIOUS
<1>2. ASSUME NEW i \in DOMAIN entries
      PROVE  Typed \notin ToSet(From(entries, i)) <=>
                \A j \in DOMAIN entries : IsRealUserEntry(entries[j]) => j < i
  BY <1>1, FromHas, EntriesJudged
<1>3. Warns(FALSE, entries) <=>
        \E i \in DOMAIN entries :
            /\ entries[i].type = "assistant"
            /\ \A j \in DOMAIN entries : IsRealUserEntry(entries[j]) => j < i
            /\ \E b \in entries[i].blocks : ListOf(b)
  BY DEF Warns, LastTurnWrites, ListOf
<1>4. QED
  BY <1>1, <1>2, <1>3, EntriesJudged DEF WarnsOfThisTurn, Typed, Plan

-----------------------------------------------------------------------------
(***************************************************************************)
(* The words of a segment: flags are skipped with their arguments.         *)
(***************************************************************************)
\* What AfterFlags leaves of the words from position i on, if f says what it
\* leaves of those further on.
Skipping(f, words, skipped, takesNext, i) ==
    IF At(words, i) \notin skipped THEN From(words, i)
    ELSE IF words[i] = "--" THEN From(words, i + 1)
    ELSE f[IF words[i] \in takesNext THEN i + 2 ELSE i + 1]

Skips(words, skipped, takesNext) ==
    CHOOSE f : f = [i \in 1..Len(words) + 2 |-> Skipping(f, words, skipped, takesNext, i)]

\* The function AfterFlags recurs by exists, so it may be unfolded.
LEMMA SkipsExist ==
  ASSUME NEW S, NEW words \in Seq(S), NEW skipped, NEW takesNext, None \notin skipped
  PROVE  Skips(words, skipped, takesNext) =
            [i \in 1..Len(words) + 2 |->
                Skipping(Skips(words, skipped, takesNext), words, skipped, takesNext, i)]
<1> DEFINE n == Len(words) + 2
           P(i) == At(words, i) \notin skipped
           Q(i) == words[i] = "--"
           R(i) == words[i] \in takesNext
           V == {From(words, i) : i \in Nat}
           first == <<From(words, n), From(words, n)>>
           leaves(x, i) ==
              IF P(i) THEN From(words, i)
              ELSE IF Q(i) THEN From(words, i + 1)
              ELSE IF R(i) THEN x[2] ELSE x[1]
           next == [x \in (V \X V) \X Nat |->
                      IF x[2] \in 1..n THEN <<leaves(x[1], n + 1 - x[2]), x[1][1]>> ELSE x[1]]
<1>1. /\ Len(words) \in Nat /\ n \in Nat /\ n = Len(words) + 2 /\ n - 1 \in 1..n
      /\ P(n) /\ P(n - 1)
  BY DEF At
<1> HIDE DEF P, Q, R
<1>2. \A i \in Nat : From(words, i) \in V
  OBVIOUS
<1> HIDE DEF V, n
<1>3. ASSUME NEW x \in V \X V, NEW i \in Nat PROVE leaves(x, i) \in V
  BY <1>2, i + 1 \in Nat
<1>4. next \in [(V \X V) \X Nat -> V \X V]
  <2>1. ASSUME NEW x \in (V \X V) \X Nat
        PROVE  (IF x[2] \in 1..n THEN <<leaves(x[1], n + 1 - x[2]), x[1][1]>> ELSE x[1]) \in V \X V
    <3>1. x[2] \in 1..n => n + 1 - x[2] \in Nat
      BY <1>1
    <3>2. x[1] \in V \X V /\ x[1][1] \in V
      OBVIOUS
    <3> HIDE DEF leaves
    <3>3. x[2] \in 1..n => leaves(x[1], n + 1 - x[2]) \in V
      BY <3>1, <3>2, <1>3
    <3>4. QED
      BY <3>2, <3>3
  <2>2. QED
    BY <2>1
<1>5. first \in V \X V
  BY <1>1, <1>2
<1>6. ASSUME NEW x \in V \X V, NEW k \in 1..n
      PROVE  next[<<x, k>>] = <<leaves(x, n + 1 - k), x[1]>>
  <2>1. <<x, k>> \in (V \X V) \X Nat /\ <<x, k>>[2] = k /\ <<x, k>>[1] = x
    BY <1>1
  <2> HIDE DEF leaves
  <2>2. QED
    BY <2>1
<1> HIDE DEF next
<1>7. PICK g \in [1..n -> V \X V] : Scans(g, n, first, next)
  BY <1>1, <1>4, <1>5, ScanExists
<1> DEFINE f == [i \in 1..n |-> g[n + 1 - i][1]]
<1>8. g[1] = first /\ \A k \in 2..n : g[k] = <<leaves(g[k - 1], n + 1 - k), g[k - 1][1]>>
  <2>1. g[1] = first
    BY <1>1, <1>7 DEF Scans
  <2>2. ASSUME NEW k \in 2..n PROVE g[k] = <<leaves(g[k - 1], n + 1 - k), g[k - 1][1]>>
    <3>1. k \in 1..n /\ k # 1 /\ k - 1 \in 1..n
      BY <1>1
    <3>2. g[k] = next[<<g[k - 1], k>>] /\ g[k - 1] \in V \X V
      BY <1>7, <3>1 DEF Scans
    <3>3. QED
      BY <3>1, <3>2, <1>6
  <2>3. QED
    BY <2>1, <2>2
<1>9. ASSUME NEW i \in 1..n PROVE f[i] = Skipping(f, words, skipped, takesNext, i)
  <2>1. CASE i = n
    <3>1. f[i] = From(words, n)
      BY <1>1, <1>8, <2>1
    <3>2. QED
      BY <3>1, <1>1, <2>1 DEF Skipping, P
  <2>2. CASE i # n
    <3>1. n + 1 - i \in 2..n /\ (n + 1 - i) - 1 = n - i /\ n + 1 - (n + 1 - i) = i
          /\ n - i \in 1..n /\ i + 1 \in 1..n /\ n + 1 - (i + 1) = n - i
      BY <1>1, <2>2
    <3>2. f[i] = leaves(g[n - i], i) /\ f[i + 1] = g[n - i][1]
      <4>1. g[n + 1 - i] = <<leaves(g[n - i], i), g[n - i][1]>>
        BY <1>8, <3>1
      <4> HIDE DEF leaves
      <4>2. f[i] = g[n + 1 - i][1] /\ f[i + 1] = g[n - i][1]
        BY <3>1
      <4>3. QED
        BY <4>1, <4>2
    <3>3. CASE P(i)
      BY <3>2, <3>3 DEF Skipping, P
    <3>4. CASE ~P(i)
      <4>1. i + 2 \in 1..n /\ n + 1 - (i + 2) = (n - i) - 1 /\ n - i \in 2..n
        <5>1. i # n - 1
          BY <1>1, <3>4
        <5>2. QED
          BY <1>1, <2>2, <5>1
      <4>2. f[i + 2] = g[(n - i) - 1][1]
        BY <4>1
      <4>3. g[n - i][2] = g[(n - i) - 1][1]
        <5>1. g[n - i] = <<leaves(g[(n - i) - 1], n + 1 - (n - i)), g[(n - i) - 1][1]>>
          BY <1>8, <4>1
        <5> HIDE DEF leaves
        <5>2. QED
          BY <5>1
      <4>4. f[i] = IF Q(i) THEN From(words, i + 1)
                   ELSE IF R(i) THEN f[i + 2] ELSE f[i + 1]
        <5> HIDE DEF f
        <5>1. QED
          BY <3>2, <3>4, <4>2, <4>3
      <4> HIDE DEF f
      <4>5. QED
        BY <3>4, <4>4 DEF Skipping, P, Q, R
    <3>5. QED
      BY <3>3, <3>4
  <2>3. QED
    BY <2>1, <2>2
<1> HIDE DEF f
<1>10. f = [i \in 1..n |-> f[i]]
  BY DEF f
<1>11. f = [i \in 1..n |-> Skipping(f, words, skipped, takesNext, i)]
  BY <1>9, <1>10
<1> DEFINE does(h, i) == Skipping(h, words, skipped, takesNext, i)
           chosen == CHOOSE h : h = [i \in 1..Len(words) + 2 |-> does(h, i)]
<1>12. f = [i \in 1..Len(words) + 2 |-> does(f, i)]
  BY <1>11 DEF n
<1>13. Skips(words, skipped, takesNext) = chosen
  BY DEF Skips
<1>14. chosen = [i \in 1..Len(words) + 2 |-> does(chosen, i)]
  <2> HIDE DEF does
  <2>1. QED
    BY <1>12
<1> HIDE DEF chosen
<1>15. QED
  BY <1>13, <1>14

\* What AfterFlags does at each position.
LEMMA AfterFlagsScans ==
  ASSUME NEW S, NEW words \in Seq(S), NEW skipped, NEW takesNext, None \notin skipped
  PROVE  /\ AfterFlags(words, skipped, takesNext) = Skips(words, skipped, takesNext)[1]
         /\ \A i \in 1..Len(words) + 2 :
                /\ At(words, i) \notin skipped =>
                        Skips(words, skipped, takesNext)[i] = From(words, i)
                /\ At(words, i) \in skipped /\ words[i] = "--" =>
                        Skips(words, skipped, takesNext)[i] = From(words, i + 1)
                /\ At(words, i) \in skipped /\ words[i] # "--" =>
                        Skips(words, skipped, takesNext)[i] =
                            Skips(words, skipped, takesNext)[IF words[i] \in takesNext
                                                             THEN i + 2 ELSE i + 1]
<1> DEFINE f == Skips(words, skipped, takesNext)
<1>1. f = [i \in 1..Len(words) + 2 |-> Skipping(f, words, skipped, takesNext, i)]
  BY SkipsExist
<1>2. AfterFlags(words, skipped, takesNext) = f[1]
  BY DEF AfterFlags, Skips, Skipping
<1> HIDE DEF f
<1>3. ASSUME NEW i \in 1..Len(words) + 2
      PROVE  f[i] = Skipping(f, words, skipped, takesNext, i)
  BY <1>1
<1>4. QED
  BY <1>2, <1>3 DEF Skipping, f

-----------------------------------------------------------------------------
(***************************************************************************)
(* The words that open files.                                              *)
(***************************************************************************)
\* One element more at the end is one more in the set.
LEMMA ToSetAppend ==
  ASSUME NEW S, NEW s \in Seq(S), NEW e \in S
  PROVE  ToSet(Append(s, e)) = ToSet(s) \union {e}
<1>1. /\ DOMAIN s = 1..Len(s) /\ DOMAIN Append(s, e) = 1..Len(s) + 1 /\ Len(s) \in Nat
      /\ Append(s, e)[Len(s) + 1] = e
      /\ \A i \in 1..Len(s) : Append(s, e)[i] = s[i]
  BY AppendProperties
<1>2. 1..Len(s) + 1 = 1..Len(s) \union {Len(s) + 1}
  BY <1>1
<1>3. QED
  BY <1>1, <1>2 DEF ToSet

\* The elements of a concatenation are those of its parts.
LEMMA ToSetConcat ==
  ASSUME NEW S, NEW t \in Seq(S), NEW q \in Seq(S)
  PROVE  ToSet(t \o q) = ToSet(t) \union ToSet(q)
<1> DEFINE u == t \o q
<1>1. /\ Len(t) \in Nat /\ Len(q) \in Nat
      /\ DOMAIN u = 1..Len(t) + Len(q) /\ DOMAIN t = 1..Len(t) /\ DOMAIN q = 1..Len(q)
      /\ \A i \in 1..Len(t) : u[i] = t[i]
      /\ \A k \in 1..Len(q) : u[Len(t) + k] = q[k]
  BY ConcatAt
<1> HIDE DEF u
<1>2. ASSUME NEW x PROVE x \in ToSet(u) <=> x \in ToSet(t) \/ x \in ToSet(q)
  <2>1. ASSUME NEW i \in 1..Len(t) + Len(q), i \notin 1..Len(t)
        PROVE  i - Len(t) \in 1..Len(q) /\ u[i] = q[i - Len(t)]
    <3>1. i - Len(t) \in 1..Len(q) /\ Len(t) + (i - Len(t)) = i
      BY <1>1, <2>1
    <3>2. QED
      BY <1>1, <3>1
  <2>2. ASSUME NEW k \in 1..Len(q) PROVE Len(t) + k \in 1..Len(t) + Len(q)
    BY <1>1
  <2>3. ASSUME NEW k \in 1..Len(t) PROVE k \in 1..Len(t) + Len(q)
    BY <1>1
  <2>4. ASSUME x \in ToSet(u) PROVE x \in ToSet(t) \/ x \in ToSet(q)
    <3>1. PICK i \in 1..Len(t) + Len(q) : x = u[i]
      BY <1>1, <2>4 DEF ToSet
    <3>2. CASE i \in 1..Len(t)
      BY <3>1, <3>2, <1>1 DEF ToSet
    <3>3. CASE i \notin 1..Len(t)
      BY <3>1, <3>3, <2>1, <1>1 DEF ToSet
    <3>4. QED
      BY <3>2, <3>3
  <2>5. ASSUME x \in ToSet(t) PROVE x \in ToSet(u)
    <3>1. PICK k \in 1..Len(t) : x = t[k]
      BY <1>1, <2>5 DEF ToSet
    <3>2. QED
      BY <3>1, <2>3, <1>1 DEF ToSet
  <2>6. ASSUME x \in ToSet(q) PROVE x \in ToSet(u)
    <3>1. PICK k \in 1..Len(q) : x = q[k]
      BY <1>1, <2>6 DEF ToSet
    <3>2. QED
      BY <3>1, <2>2, <1>1 DEF ToSet
  <2>7. QED
    BY <2>4, <2>5, <2>6
<1>3. QED
  BY <1>2 DEF u

\* The first element of a concatenation is its first part's.
LEMMA TailConcat ==
  ASSUME NEW S, NEW t \in Seq(S), NEW q \in Seq(S), t # <<>>
  PROVE  /\ Tail(t \o q) = Tail(t) \o q /\ Tail(t) \in Seq(S)
         /\ t \o q # <<>> /\ (t \o q)[1] = t[1]
<1> DEFINE u == t \o q
<1>1. /\ Len(t) \in Nat \ {0} /\ Len(q) \in Nat /\ u \in Seq(S) /\ Len(u) = Len(t) + Len(q)
      /\ \A i \in 1..Len(t) : u[i] = t[i]
      /\ \A k \in 1..Len(q) : u[Len(t) + k] = q[k]
  BY ConcatAt
<1>2. u # <<>> /\ u[1] = t[1]
  BY <1>1
<1> DEFINE a == Tail(u)
           b == Tail(t)
<1>3. /\ b \in Seq(S) /\ Len(b) = Len(t) - 1
      /\ \A i \in 1..Len(t) - 1 : b[i] = t[i + 1]
  BY <1>1
<1> HIDE DEF u
<1>4. /\ a \in Seq(S) /\ Len(a) = Len(u) - 1
      /\ \A i \in 1..Len(u) - 1 : a[i] = u[i + 1]
  BY <1>1, <1>2
<1> HIDE DEF a, b
<1> DEFINE c == b \o q
<1>5. /\ c \in Seq(S) /\ Len(c) = Len(b) + Len(q)
      /\ \A i \in 1..Len(b) : c[i] = b[i]
      /\ \A k \in 1..Len(q) : c[Len(b) + k] = q[k]
  <2>1. b \in Seq(S) /\ q \in Seq(S)
    BY <1>3
  <2>2. QED
    BY <2>1, ConcatAt
<1> HIDE DEF c
<1>6. ASSUME NEW i \in 1..Len(a) PROVE a[i] = c[i]
  <2>1. CASE i \in 1..Len(b)
    BY <2>1, <1>1, <1>3, <1>4, <1>5
  <2>2. CASE i \notin 1..Len(b)
    <3>1. i - Len(b) \in 1..Len(q) /\ Len(b) + (i - Len(b)) = i
          /\ Len(t) + (i - Len(b)) = i + 1 /\ i \in 1..Len(u) - 1
      BY <2>2, <1>1, <1>3, <1>4
    <3>2. a[i] = u[i + 1] /\ u[i + 1] = q[i - Len(b)] /\ c[i] = q[i - Len(b)]
      BY <3>1, <1>1, <1>4, <1>5
    <3>3. QED
      BY <3>2
  <2>3. QED
    BY <2>1, <2>2
<1>7. a = c
  <2>1. Len(a) = Len(c)
    BY <1>1, <1>3, <1>4, <1>5
  <2>2. QED
    BY <2>1, <1>4, <1>5, <1>6, SeqEqual
<1>8. QED
  BY <1>2, <1>3, <1>7 DEF a, b, c, u

-----------------------------------------------------------------------------
(* Redirections *)
\* Word i opens x for writing.
Opens(words, i, x) ==
    /\ ~Duplicates(words, i)
    /\ \/ i # Len(words) /\ words[i] \in Redirections /\ x = At(words, i + 1)
       \/ words[i] \in DOMAIN JoinedTo /\ x = JoinedTo[words[i]]

\* What is redirected to is what some position opens.
LEMMA RedirectionOpens ==
  ASSUME NEW S, NEW words \in Seq(S), NEW x
  PROVE  x \in RedirectionTargets(words) <=> \E i \in DOMAIN words : Opens(words, i, x)
<1>1. ASSUME NEW i \in DOMAIN words, i # Len(words) PROVE At(words, i + 1) = words[i + 1]
  <2>1. i + 1 \in DOMAIN words
    BY <1>1
  <2>2. QED
    BY <2>1 DEF At
<1>2. QED
  BY <1>1 DEF RedirectionTargets, Opens

ReadsOn == Redirections \union {">&", "<&"}

\* Words that do not end in a redirection open nothing of what follows them.
LEMMA OpensConcat ==
  ASSUME NEW S, NEW t \in Seq(S), NEW q \in Seq(S), t # <<>>, t[Len(t)] \notin ReadsOn
  PROVE  RedirectionTargets(t \o q) = RedirectionTargets(t) \union RedirectionTargets(q)
<1> DEFINE u == t \o q
           n == Len(t)
<1>1. /\ u \in Seq(S) /\ n \in Nat \ {0} /\ Len(q) \in Nat /\ Len(u) = n + Len(q)
      /\ DOMAIN u = 1..n + Len(q) /\ DOMAIN t = 1..n /\ DOMAIN q = 1..Len(q)
      /\ \A i \in 1..n : u[i] = t[i] /\ At(u, i) = At(t, i) /\ At(t, i) = t[i]
      /\ \A k \in 1..Len(q) : u[n + k] = q[k] /\ At(u, n + k) = q[k]
  BY ConcatAt
<1>2. t[n] \notin Redirections /\ t[n] \notin {">&", "<&"}
  BY DEF ReadsOn
<1> HIDE DEF u, n
<1>0. n \in Nat /\ Len(q) \in Nat /\ Len(u) = n + Len(q)
  BY <1>1
<1>3. ASSUME NEW i \in 1..n, NEW x PROVE Opens(u, i, x) <=> Opens(t, i, x)
  <2>1. u[i] = t[i]
    BY <1>1
  <2>2. CASE i = n
    BY <1>2, <2>1, <2>2 DEF Opens, Duplicates
  <2>3. CASE i # n
    <3>1. i + 1 \in 1..n /\ i # Len(u)
      BY <2>3, <1>1, SMTT(60)
    <3>2. At(u, i + 1) = At(t, i + 1) /\ i # Len(t)
      BY <3>1, <1>1, <2>3 DEF n
    <3>3. QED
      BY <2>1, <3>1, <3>2 DEF Opens, Duplicates
  <2>4. QED
    BY <2>2, <2>3
<1>4. ASSUME NEW k \in 1..Len(q), NEW x PROVE Opens(u, n + k, x) <=> Opens(q, k, x)
  <2>1. u[n + k] = q[k]
    BY <1>1
  <2>0. n + k # Len(u) <=> k # Len(q)
    BY <1>0
  <2>2. At(u, (n + k) + 1) = At(q, k + 1)
    <3>1. CASE k = Len(q)
      BY <3>1, <1>1 DEF At
    <3>2. CASE k # Len(q)
      <4>1. k + 1 \in 1..Len(q) /\ (n + k) + 1 = n + (k + 1)
        BY <3>2, <1>0
      <4>2. QED
        BY <4>1, <1>1 DEF At
    <3>3. QED
      BY <3>1, <3>2
  <2>3. QED
    BY <2>0, <2>1, <2>2 DEF Opens, Duplicates
<1>5. ASSUME NEW x
      PROVE  (\E i \in DOMAIN u : Opens(u, i, x)) <=>
             (\E i \in DOMAIN t : Opens(t, i, x)) \/ (\E k \in DOMAIN q : Opens(q, k, x))
  <2>1. ASSUME NEW i \in 1..n + Len(q), i \notin 1..n
        PROVE  i - n \in 1..Len(q) /\ n + (i - n) = i
    BY <1>1, <2>1
  <2>2. \A k \in 1..Len(q) : n + k \in 1..n + Len(q)
    BY <1>1
  <2>3. \A i \in 1..n : i \in 1..n + Len(q)
    BY <1>1
  <2> HIDE DEF Opens
  <2>4. DOMAIN u = 1..n + Len(q) /\ DOMAIN t = 1..n /\ DOMAIN q = 1..Len(q)
    BY <1>1
  <2>5. ASSUME NEW i \in 1..n + Len(q), Opens(u, i, x)
        PROVE  (\E j \in 1..n : Opens(t, j, x)) \/ (\E k \in 1..Len(q) : Opens(q, k, x))
    BY <1>3, <1>4, <2>1, <2>5
  <2>6. ASSUME NEW j \in 1..n, Opens(t, j, x)
        PROVE  \E i \in 1..n + Len(q) : Opens(u, i, x)
    BY <1>3, <2>3, <2>6
  <2>7. ASSUME NEW k \in 1..Len(q), Opens(q, k, x)
        PROVE  \E i \in 1..n + Len(q) : Opens(u, i, x)
    BY <1>4, <2>2, <2>7
  <2>8. QED
    BY <2>4, <2>5, <2>6, <2>7
<1>6. ASSUME NEW x
      PROVE  x \in RedirectionTargets(u) <=>
                x \in RedirectionTargets(t) \/ x \in RedirectionTargets(q)
  BY <1>1, <1>5, RedirectionOpens
<1>7. QED
  BY <1>6 DEF u

-----------------------------------------------------------------------------
(***************************************************************************)
(* An editor's command is put together from pieces.                        *)
(***************************************************************************)
EditWords ==
    {"cat", "tee", "-a", "sed", "-n", "script", "-i.bak", "dd", "if=in", "of=f",
     "git", "-c", "k=v", "am", "log", "f", "h", "-q", ">", "2>", "g", ">f", "2>>g",
     "<", "in", "2>&1", ">&", "1", ">|", "|", "cat>f", "-Ei", "sudo"}

\* Words that open nothing, whatever follows them.
Inert == EditWords \ (ReadsOn \union DOMAIN JoinedTo)

\* The pieces an editor's command is built from, but for >| and its file.
LEMMA EditPieceShapes ==
  ASSUME NEW p \in EditPieces \ {Clobber}
  PROVE  \/ \E a \in Inert : p.words = <<a>> /\ p.writes = {}
         \/ \E a \in EditWords \ (Duplications \union ReadsOn) :
                a \in DOMAIN JoinedTo /\ p.words = <<a>> /\ p.writes = {JoinedTo[a]}
         \/ \E a \in EditWords \ ReadsOn :
                a \in Duplications /\ p.words = <<a>> /\ p.writes = {}
         \/ \E a \in EditWords, b \in Inert :
                a \in Redirections /\ p.words = <<a, b>> /\ p.writes = {b}
         \/ \E a, b \in Inert : p.words = <<a, b>> /\ p.writes = {}
         \/ \E a \in EditWords, b \in Inert \intersect Descriptors :
                a = ">&" /\ p.words = <<a, b>> /\ p.writes = {}
<1> DEFINE Is(w, o, x) == p.words = w /\ p.operand = o /\ p.writes = x
<1>1. ASSUME NEW w, NEW o, NEW x, p = Piece(w, o, x) PROVE Is(w, o, x)
  BY <1>1 DEF Piece
<1>2. \/ Is(<<"f">>, TRUE, {}) \/ Is(<<"h">>, TRUE, {}) \/ Is(<<"-q">>, FALSE, {})
      \/ Is(<<">", "f">>, FALSE, {"f"}) \/ Is(<<"2>", "g">>, FALSE, {"g"})
      \/ Is(<<">f">>, FALSE, {"f"}) \/ Is(<<"2>>g">>, FALSE, {"g"})
      \/ Is(<<"<", "in">>, FALSE, {}) \/ Is(<<"2>&1">>, FALSE, {})
      \/ Is(<<">&", "1">>, FALSE, {})
  <2> HIDE DEF Is
  <2>1. QED
    BY <1>1 DEF EditPieces
<1>3. DOMAIN JoinedTo = {">f", "2>>g", "2>&1", ">&", ">|"} /\ JoinedTo[">f"] = "f"
      /\ JoinedTo["2>>g"] = "g"
  BY DEF JoinedTo
<1>4. /\ "f" \in Inert /\ "h" \in Inert /\ "-q" \in Inert /\ "g" \in Inert
      /\ "<" \in Inert /\ "in" \in Inert /\ "1" \in Inert /\ "1" \in Descriptors
      /\ ">" \in EditWords /\ ">" \in Redirections
      /\ "2>" \in EditWords /\ "2>" \in Redirections
      /\ ">&" \in EditWords
      /\ "2>&1" \in EditWords \ ReadsOn /\ "2>&1" \in Duplications
      /\ ">f" \in EditWords \ (Duplications \union ReadsOn)
      /\ "2>>g" \in EditWords \ (Duplications \union ReadsOn)
  BY <1>3, Zenon DEF Inert, EditWords, ReadsOn, Redirections, Duplications, Descriptors
<1>5. CASE Is(<<"f">>, TRUE, {}) \/ Is(<<"h">>, TRUE, {}) \/ Is(<<"-q">>, FALSE, {})
  BY <1>4, <1>5
<1>6. CASE Is(<<">", "f">>, FALSE, {"f"}) \/ Is(<<"2>", "g">>, FALSE, {"g"})
  BY <1>4, <1>6
<1>7. CASE Is(<<">f">>, FALSE, {"f"}) \/ Is(<<"2>>g">>, FALSE, {"g"})
  BY <1>3, <1>4, <1>7
<1>8. CASE Is(<<"<", "in">>, FALSE, {}) \/ Is(<<"2>&1">>, FALSE, {})
  BY <1>4, <1>8
<1>9. CASE Is(<<">&", "1">>, FALSE, {})
  BY <1>4, <1>9
<1>10. QED
  BY <1>2, <1>5, <1>6, <1>7, <1>8, <1>9

\* What a single word opens.
LEMMA OneOpens ==
  ASSUME NEW a, NEW x
  PROVE  x \in RedirectionTargets(<<a>>) <=>
            a \in DOMAIN JoinedTo /\ a \notin Duplications /\ x = JoinedTo[a]
<1>1. <<a>> \in Seq({a}) /\ DOMAIN <<a>> = {1} /\ Len(<<a>>) = 1 /\ <<a>>[1] = a
  OBVIOUS
<1>2. At(<<a>>, 1 + 1) \notin Descriptors
  <2>1. At(<<a>>, 1 + 1) = None
    BY <1>1 DEF At
  <2>2. QED
    BY <2>1 DEF None, Descriptors
<1>3. Opens(<<a>>, 1, x) <=> a \in DOMAIN JoinedTo /\ a \notin Duplications /\ x = JoinedTo[a]
  BY <1>1, <1>2 DEF Opens, Duplicates
<1>4. QED
  BY <1>1, <1>3, RedirectionOpens

\* What two words open.
LEMMA TwoOpen ==
  ASSUME NEW a, NEW b, b \notin ReadsOn \union DOMAIN JoinedTo, NEW x
  PROVE  x \in RedirectionTargets(<<a, b>>) <=>
            /\ a \notin Duplications
            /\ ~(a \in {">&", "<&"} /\ b \in Descriptors)
            /\ \/ a \in Redirections /\ x = b
               \/ a \in DOMAIN JoinedTo /\ x = JoinedTo[a]
<1>1. <<a, b>> \in Seq({a, b}) /\ DOMAIN <<a, b>> = {1, 2} /\ Len(<<a, b>>) = 2
      /\ <<a, b>>[1] = a /\ <<a, b>>[2] = b /\ 1 # 2
  OBVIOUS
<1>2. At(<<a, b>>, 1 + 1) = b
  BY <1>1 DEF At
<1>3. ~Opens(<<a, b>>, 2, x)
  BY <1>1 DEF Opens, ReadsOn
<1>4. Opens(<<a, b>>, 1, x) <=>
            /\ a \notin Duplications
            /\ ~(a \in {">&", "<&"} /\ b \in Descriptors)
            /\ \/ a \in Redirections /\ x = b
               \/ a \in DOMAIN JoinedTo /\ x = JoinedTo[a]
  BY <1>1, <1>2 DEF Opens, Duplicates
<1>5. QED
  BY <1>1, <1>3, <1>4, RedirectionOpens

\* The pieces are words, and say what they write and name.
LEMMA PlainPieceTypes ==
  ASSUME NEW p \in EditPieces \ {Clobber}
  PROVE  /\ p.words \in Seq(EditWords) /\ p.words # <<>>
         /\ p.words[Len(p.words)] \notin ReadsOn
         /\ RedirectionTargets(p.words) = p.writes
<1>1. Inert \subseteq EditWords /\ (\A a \in Inert : a \notin ReadsOn /\ a \notin DOMAIN JoinedTo)
  BY DEF Inert
<1>2. ASSUME NEW a \in EditWords, a \notin ReadsOn, p.words = <<a>>,
             \A x : (a \in DOMAIN JoinedTo /\ a \notin Duplications /\ x = JoinedTo[a]) <=> x \in p.writes
      PROVE  /\ p.words \in Seq(EditWords) /\ p.words # <<>>
             /\ p.words[Len(p.words)] \notin ReadsOn
             /\ RedirectionTargets(p.words) = p.writes
  <2>1. RedirectionTargets(<<a>>) = p.writes
    BY <1>2, OneOpens
  <2>2. Len(<<a>>) = 1 /\ <<a>>[1] = a /\ <<a>> # <<>> /\ <<a>> \in Seq(EditWords)
    OBVIOUS
  <2>3. QED
    BY <1>2, <2>1, <2>2
<1>3. ASSUME NEW a \in EditWords, NEW b \in Inert, p.words = <<a, b>>,
             \A x : x \in p.writes <=>
                        /\ a \notin Duplications
                        /\ ~(a \in {">&", "<&"} /\ b \in Descriptors)
                        /\ \/ a \in Redirections /\ x = b
                           \/ a \in DOMAIN JoinedTo /\ x = JoinedTo[a]
      PROVE  /\ p.words \in Seq(EditWords) /\ p.words # <<>>
             /\ p.words[Len(p.words)] \notin ReadsOn
             /\ RedirectionTargets(p.words) = p.writes
  <2>1. b \notin ReadsOn \union DOMAIN JoinedTo /\ b \in EditWords
    BY <1>1
  <2>2. RedirectionTargets(<<a, b>>) = p.writes
    BY <1>3, <2>1, TwoOpen
  <2>3. Len(<<a, b>>) = 2 /\ <<a, b>>[2] = b /\ <<a, b>> # <<>> /\ <<a, b>> \in Seq(EditWords)
    BY <2>1
  <2>4. QED
    BY <1>3, <2>1, <2>2, <2>3
<1>4. CASE \E a \in Inert : p.words = <<a>> /\ p.writes = {}
  BY <1>1, <1>2, <1>4
<1>5. CASE \E a \in EditWords \ (Duplications \union ReadsOn) :
                a \in DOMAIN JoinedTo /\ p.words = <<a>> /\ p.writes = {JoinedTo[a]}
  BY <1>2, <1>5
<1>6. CASE \E a \in EditWords \ ReadsOn :
                a \in Duplications /\ p.words = <<a>> /\ p.writes = {}
  BY <1>2, <1>6
<1>7. CASE \E a \in EditWords, b \in Inert :
                a \in Redirections /\ p.words = <<a, b>> /\ p.writes = {b}
  <2>1. \A a \in Redirections : a \notin Duplications /\ a \notin {">&", "<&"} /\ a \notin DOMAIN JoinedTo
    BY Zenon DEF Redirections, Duplications, JoinedTo
  <2>2. QED
    BY <1>3, <1>7, <2>1
<1>8. CASE \E a, b \in Inert : p.words = <<a, b>> /\ p.writes = {}
  <2>1. \A a \in Inert : a \notin Redirections
    BY <1>1 DEF ReadsOn
  <2>2. QED
    BY <1>1, <1>3, <1>8, <2>1
<1>9. CASE \E a \in EditWords, b \in Inert \intersect Descriptors :
                a = ">&" /\ p.words = <<a, b>> /\ p.writes = {}
  BY <1>3, <1>9
<1>10. QED
  BY <1>4, <1>5, <1>6, <1>7, <1>8, <1>9, EditPieceShapes

\* The same with >|, of which the pipe is taken for the file.
LEMMA EditPieceTypes ==
  ASSUME NEW p \in EditPieces
  PROVE  /\ p.words \in Seq(EditWords) /\ p.words # <<>>
         /\ p.words[Len(p.words)] \notin ReadsOn
         /\ RedirectionTargets(p.words) = IF p = Clobber THEN {"|"} ELSE p.writes
<1>1. CASE p # Clobber
  BY <1>1, PlainPieceTypes
<1>2. CASE p = Clobber
  <2>1. p.words = <<">|", "f">>
    BY <1>2 DEF Clobber, Piece
  <2>2. /\ ">|" \in EditWords /\ "f" \in EditWords /\ "f" \notin ReadsOn
        /\ "f" \notin ReadsOn \union DOMAIN JoinedTo
        /\ ">|" \in DOMAIN JoinedTo /\ JoinedTo[">|"] = "|"
        /\ ">|" \notin Duplications /\ ">|" \notin Redirections /\ ">|" \notin {">&", "<&"}
    BY Zenon DEF EditWords, ReadsOn, Redirections, JoinedTo, Duplications
  <2>3. ASSUME NEW x PROVE x \in RedirectionTargets(<<">|", "f">>) <=> x = "|"
    BY <2>2, TwoOpen
  <2>4. RedirectionTargets(<<">|", "f">>) = {"|"}
    BY <2>3
  <2> DEFINE u == <<">|", "f">>
  <2>5. Len(u) = 2 /\ u[2] = "f" /\ u # <<>> /\ u \in Seq(EditWords)
    BY <2>2
  <2> HIDE DEF u
  <2>6. QED
    BY <1>2, <2>1, <2>2, <2>4, <2>5 DEF u
<1>3. QED
  BY <1>1, <1>2

WordsOf(s) == FlattenSeq([i \in DOMAIN s |-> s[i].words])

\* The words of a command and of one piece more.
LEMMA WordsOfAppend ==
  ASSUME NEW s \in Seq(EditPieces), NEW p \in EditPieces
  PROVE  /\ WordsOf(s) \in Seq(EditWords)
         /\ WordsOf(Append(s, p)) = WordsOf(s) \o p.words
<1> DEFINE m == [i \in 1..Len(s) |-> s[i].words]
           t == Append(s, p)
<1>1. /\ DOMAIN s = 1..Len(s) /\ Len(s) \in Nat /\ \A i \in 1..Len(s) : s[i] \in EditPieces
      /\ DOMAIN t = 1..Len(s) + 1 /\ t[Len(s) + 1] = p /\ \A i \in 1..Len(s) : t[i] = s[i]
  BY AppendProperties
<1>2. p.words \in Seq(EditWords) /\ \A i \in 1..Len(s) : s[i].words \in Seq(EditWords)
  BY <1>1, EditPieceTypes
<1>3. m \in Seq(Seq(EditWords)) /\ Len(m) = Len(s)
  <2> DEFINE B == Seq(EditWords)
  <2>1. \A i \in 1..Len(s) : s[i].words \in B
    BY <1>2
  <2> HIDE DEF B
  <2>2. m \in [1..Len(s) -> B]
    BY <2>1
  <2>3. m \in Seq(B)
    BY <1>1, <2>2, SeqDef
  <2>4. DOMAIN m = 1..Len(s) /\ DOMAIN m = 1..Len(m) /\ Len(m) \in Nat
    BY <2>3, LenProperties
  <2> HIDE DEF m
  <2>5. Len(m) = Len(s)
    BY <1>1, <2>4, SameBounds
  <2>6. QED
    BY <2>3, <2>5 DEF B
<1> DEFINE a == Append(m, p.words)
           b == [i \in 1..Len(s) + 1 |-> t[i].words]
<1>4. a = b
  <2>1. \A i \in 1..Len(s) : m[i] = s[i].words
    OBVIOUS
  <2> HIDE DEF m, t
  <2> DEFINE B == Seq(EditWords)
  <2>2. m \in Seq(B) /\ p.words \in B
    BY <1>2, <1>3
  <2> HIDE DEF B
  <2>3. /\ a \in Seq(B) /\ Len(a) = Len(s) + 1 /\ a[Len(s) + 1] = p.words
        /\ \A i \in 1..Len(s) : a[i] = m[i]
    BY <1>3, <2>2, AppendProperties
  <2> HIDE DEF a
  <2>4. a = [i \in 1..Len(s) + 1 |-> a[i]]
    BY <2>3
  <2>5. ASSUME NEW i \in 1..Len(s) + 1 PROVE a[i] = t[i].words
    <3>1. CASE i = Len(s) + 1
      BY <3>1, <1>1, <2>3
    <3>2. CASE i # Len(s) + 1
      <4>1. i \in 1..Len(s)
        BY <3>2, <1>1
      <4>2. QED
        BY <4>1, <1>1, <2>1, <2>3
    <3>3. QED
      BY <3>1, <3>2
  <2>6. QED
    BY <2>4, <2>5
<1>5. WordsOf(s) = FlattenSeq(m) /\ WordsOf(t) = FlattenSeq(b)
  BY <1>1 DEF WordsOf
<1> HIDE DEF m, t, b
<1>6. FlattenSeq(m) \in Seq(EditWords)
  BY <1>3, FlattenType
<1>7. FlattenSeq(a) = FlattenSeq(m) \o p.words
  BY <1>2, <1>3, FlattenAppend
<1>8. QED
  BY <1>4, <1>5, <1>6, <1>7 DEF t

Written(s) == UNION {RedirectionTargets(p.words) : p \in ToSet(s)}
Said(s) == UNION {ToSet(p.words) : p \in ToSet(s)}

\* What an editor's words and those of the pieces after it say.
EditInv(t, s) ==
    /\ WordsOf(s) \in Seq(EditWords)
    /\ t \o WordsOf(s) \in Seq(EditWords)
    /\ t \o WordsOf(s) # <<>>
    /\ LET words == t \o WordsOf(s) IN words[Len(words)] \notin ReadsOn
    /\ RedirectionTargets(t \o WordsOf(s)) = RedirectionTargets(t) \union Written(s)
    /\ ToSet(WordsOf(s)) = Said(s)

\* Nothing is said before the first piece.
LEMMA EditEmpty ==
  ASSUME NEW t \in Seq(EditWords), t # <<>>, t[Len(t)] \notin ReadsOn
  PROVE  EditInv(t, <<>>)
<1> DEFINE m == [i \in DOMAIN <<>> |-> <<>>[i].words]
<1>1. m = <<>>
  OBVIOUS
<1>2. WordsOf(<<>>) = <<>>
  BY <1>1, FlattenEmpty DEF WordsOf
<1>3. t \o <<>> = t /\ <<>> \in Seq(EditWords)
  OBVIOUS
<1>4. ToSet(<<>>) = {}
  BY DEF ToSet
<1>5. Written(<<>>) = {} /\ Said(<<>>) = {}
  BY <1>4 DEF Written, Said
<1>6. QED
  BY <1>2, <1>3, <1>4, <1>5 DEF EditInv

\* One piece more opens and says what it does by itself.
LEMMA EditAppend ==
  ASSUME NEW t \in Seq(EditWords), NEW s \in Seq(EditPieces), NEW p \in EditPieces,
         EditInv(t, s)
  PROVE  EditInv(t, Append(s, p))
<1> DEFINE w == WordsOf(s)
           u == t \o w
           q == p.words
           v == u \o q
<1>1. /\ w \in Seq(EditWords) /\ u \in Seq(EditWords) /\ u # <<>> /\ u[Len(u)] \notin ReadsOn
      /\ RedirectionTargets(u) = RedirectionTargets(t) \union Written(s)
      /\ ToSet(w) = Said(s)
  BY DEF EditInv
<1>2. /\ q \in Seq(EditWords) /\ q # <<>> /\ q[Len(q)] \notin ReadsOn
  BY EditPieceTypes
<1>3. WordsOf(Append(s, p)) = w \o q
  BY WordsOfAppend
<1>4. ToSet(Append(s, p)) = ToSet(s) \union {p}
  BY ToSetAppend
<1>5. Written(Append(s, p)) = Written(s) \union RedirectionTargets(q)
  BY <1>4 DEF Written
<1>6. Said(Append(s, p)) = Said(s) \union ToSet(q)
  BY <1>4 DEF Said
<1> HIDE DEF w, q
<1>7. t \o (w \o q) = v /\ w \o q \in Seq(EditWords)
  <2>1. w \in Seq(EditWords) /\ q \in Seq(EditWords)
    BY <1>1, <1>2
  <2>2. t \o (w \o q) = (t \o w) \o q
    BY <2>1, ConcatAssociative, SMTT(60)
  <2>3. w \o q \in Seq(EditWords)
    BY <2>1, ConcatProperties
  <2>4. QED
    BY <2>2, <2>3
<1>8. ToSet(w \o q) = ToSet(w) \union ToSet(q)
  BY <1>1, <1>2, ToSetConcat
<1> HIDE DEF u
<1>9. v \in Seq(EditWords) /\ v # <<>> /\ v[Len(v)] = q[Len(q)]
  <2>1. /\ v \in Seq(EditWords) /\ Len(u) \in Nat /\ Len(q) \in Nat \ {0}
        /\ Len(v) = Len(u) + Len(q)
        /\ \A k \in 1..Len(q) : v[Len(u) + k] = q[k]
    <3>1. /\ v \in Seq(EditWords) /\ Len(u) \in Nat /\ Len(q) \in Nat
          /\ Len(v) = Len(u) + Len(q)
          /\ \A k \in 1..Len(q) : v[Len(u) + k] = q[k]
      BY <1>1, <1>2, ConcatAt
    <3>2. Len(q) # 0
      BY <1>2
    <3>3. QED
      BY <3>1, <3>2
  <2> HIDE DEF v
  <2>2. Len(q) \in 1..Len(q)
    BY <2>1
  <2>3. v # <<>>
    BY <2>1
  <2>4. QED
    BY <2>1, <2>2, <2>3
<1>10. RedirectionTargets(v) = RedirectionTargets(u) \union RedirectionTargets(q)
  BY <1>1, <1>2, OpensConcat
<1> HIDE DEF v
<1>11. QED
  BY <1>1, <1>2, <1>3, <1>5, <1>6, <1>7, <1>8, <1>9, <1>10 DEF EditInv

\* So a command of any number of pieces opens what its pieces do.
LEMMA EditInvHolds ==
  ASSUME NEW t \in Seq(EditWords), t # <<>>, t[Len(t)] \notin ReadsOn,
         NEW s \in Seq(EditPieces)
  PROVE  EditInv(t, s)
<1> DEFINE Good == {x \in Seq(EditPieces) : EditInv(t, x)}
<1>1. <<>> \in Good
  BY EditEmpty
<1>2. \A x \in Seq(EditPieces), p \in EditPieces : x \in Good => Append(x, p) \in Good
  BY EditAppend, AppendProperties
<1> HIDE DEF Good
<1>3. Seq(EditPieces) \subseteq Good
  BY <1>1, <1>2, SequenceInduction
<1>4. QED
  BY <1>3 DEF Good

-----------------------------------------------------------------------------
(***************************************************************************)
(* The targets of an editor's command are the files its pieces say.        *)
(***************************************************************************)
\* An inert word opens nothing.
LEMMA InertOpens ==
  ASSUME NEW t \in Seq(EditWords), \A i \in DOMAIN t : t[i] \in Inert
  PROVE  RedirectionTargets(t) = {}
<1>1. \A i \in DOMAIN t : \A x : ~Opens(t, i, x)
  BY DEF Opens, Inert, ReadsOn
<1>2. QED
  BY <1>1, RedirectionOpens

\* The operands are the words that begin no option and no redirection.
LEMMA EditPieceWords ==
  ASSUME NEW p \in EditPieces
  PROVE  /\ ToSet(p.words) \intersect (InPlace \union DOMAIN OutputOf) = {}
         /\ p.operand => ToSet(p.words) \intersect Dashed = {}
<1> DEFINE Is(w, o) == p.words = w /\ p.operand = o
<1>1. ASSUME NEW w, NEW o, NEW x, p = Piece(w, o, x) PROVE Is(w, o)
  BY <1>1 DEF Piece
<1>2. \/ Is(<<"f">>, TRUE) \/ Is(<<"h">>, TRUE) \/ Is(<<"-q">>, FALSE)
      \/ Is(<<">", "f">>, FALSE) \/ Is(<<"2>", "g">>, FALSE)
      \/ Is(<<">f">>, FALSE) \/ Is(<<"2>>g">>, FALSE)
      \/ Is(<<"<", "in">>, FALSE) \/ Is(<<"2>&1">>, FALSE)
      \/ Is(<<">&", "1">>, FALSE) \/ Is(<<">|", "f">>, FALSE)
  <2> HIDE DEF Is
  <2>1. QED
    BY <1>1 DEF EditPieces, Clobber
<1> DEFINE Safe == EditWords \ (InPlace \union DOMAIN OutputOf)
<1>3. /\ "f" \in Safe \ Dashed /\ "h" \in Safe \ Dashed /\ "-q" \in Safe /\ "g" \in Safe
      /\ "<" \in Safe /\ "in" \in Safe /\ "1" \in Safe /\ ">" \in Safe /\ "2>" \in Safe
      /\ ">&" \in Safe /\ "2>&1" \in Safe /\ ">f" \in Safe /\ "2>>g" \in Safe
      /\ ">|" \in Safe
  BY Zenon DEF EditWords, InPlace, OutputOf, Dashed, Flags
<1>4. \A a : ToSet(<<a>>) = {a}
  BY DEF ToSet
<1>5. \A a, b : ToSet(<<a, b>>) = {a, b}
  BY DEF ToSet
<1>6. Safe \intersect (InPlace \union DOMAIN OutputOf) = {}
  OBVIOUS
<1> HIDE DEF Safe
<1>7. CASE \E a \in Safe \ Dashed : Is(<<a>>, TRUE)
  BY <1>4, <1>6, <1>7
<1>8. CASE \E a \in Safe : Is(<<a>>, FALSE)
  BY <1>4, <1>6, <1>8
<1>9. CASE \E a, b \in Safe : Is(<<a, b>>, FALSE)
  BY <1>5, <1>6, <1>9
<1> HIDE DEF Is
<1>10. QED
  BY <1>2, <1>3, <1>7, <1>8, <1>9

\* git's own options are skipped with their arguments.
LEMMA GitSubcommandOf ==
  ASSUME NEW S, NEW words \in Seq(S), words # <<>>, Base(words[1]) = "git",
         NEW a, NEW b, NEW c, NEW r \in Seq(S),
         Tail(words) = <<a, b, c>> \o r, <<a, b, c>> \in Seq(S),
         a \in GitOptionsWithArg, c \notin Flags
  PROVE  At(GitSubcommand(words), 1) = c
<1> DEFINE u == <<a, b, c>> \o r
<1>1. u \in Seq(S) /\ Len(u) \in Nat /\ 3 <= Len(u) /\ DOMAIN u = 1..Len(u)
      /\ u[1] = a /\ u[3] = c
  <2>1. Len(<<a, b, c>>) = 3 /\ <<a, b, c>>[1] = a /\ <<a, b, c>>[3] = c /\ 1 \in 1..3 /\ 3 \in 1..3
    OBVIOUS
  <2>2. /\ u \in Seq(S) /\ Len(r) \in Nat /\ Len(u) = 3 + Len(r)
        /\ DOMAIN u = 1..3 + Len(r)
        /\ \A i \in 1..3 : u[i] = <<a, b, c>>[i]
    BY <2>1, ConcatAt
  <2> HIDE DEF u
  <2>3. QED
    BY <2>1, <2>2
<1>2. GitSubcommand(words) = AfterFlags(u, Flags, GitOptionsWithArg)
  BY DEF GitSubcommand
<1> HIDE DEF u
<1>3. None \notin Flags
  BY DEF None, Flags
<1>4. At(u, 1) = a /\ At(u, 3) = c /\ 1 \in 1..Len(u) + 2 /\ 3 \in 1..Len(u) + 2 /\ 1 + 2 = 3
  BY <1>1 DEF At
<1>5. a \in Flags /\ a # "--"
  BY DEF GitOptionsWithArg, Flags
<1> DEFINE f == Skips(u, Flags, GitOptionsWithArg)
<1>6. /\ AfterFlags(u, Flags, GitOptionsWithArg) = f[1]
      /\ \A i \in 1..Len(u) + 2 :
            /\ At(u, i) \notin Flags => f[i] = From(u, i)
            /\ At(u, i) \in Flags /\ u[i] # "--" =>
                    f[i] = f[IF u[i] \in GitOptionsWithArg THEN i + 2 ELSE i + 1]
  <2>1. u \in Seq(S)
    BY <1>1
  <2>2. QED
    BY <2>1, <1>3, AfterFlagsScans
<1> HIDE DEF f
<1>7. f[1] = f[3]
  BY <1>1, <1>4, <1>5, <1>6
<1>8. f[3] = From(u, 3)
  BY <1>4, <1>6
<1>9. At(From(u, 3), 1) = u[3]
  <2>1. From(u, 3) = [i \in 1..Len(u) - 3 + 1 |-> u[3 + i - 1]]
    BY <1>1 DEF From
  <2>2. 1 \in 1..Len(u) - 3 + 1 /\ 3 + 1 - 1 = 3
    BY <1>1
  <2>3. QED
    BY <2>1, <2>2 DEF At
<1>10. QED
  BY <1>1, <1>2, <1>6, <1>7, <1>8, <1>9

\* The editors, and what begins the command of each.
LEMMA EditorTypes ==
  ASSUME NEW e \in Editors
  PROVE  /\ e.words \in Seq(EditWords) /\ e.words # <<>>
         /\ e.words[Len(e.words)] \notin ReadsOn
         /\ RedirectionTargets(e.words) = {}
<1> DEFINE Is(w) == e.words = w
<1>1. ASSUME NEW w, NEW o, NEW x, e = Edits(w, o, x) PROVE Is(w)
  BY <1>1 DEF Edits
<1>2. \/ Is(<<"cat">>) \/ Is(<<"tee", "-a">>) \/ Is(<<"sed", "-n", "script">>)
      \/ Is(<<"sed", "-i.bak", "script">>) \/ Is(<<"dd", "if=in", "of=f">>)
      \/ Is(<<"git", "-c", "k=v", "am">>) \/ Is(<<"git", "-c", "am", "log">>)
      \/ Is(<<"cat>f">>) \/ Is(<<"sed", "-Ei", "script">>) \/ Is(<<"sudo", "tee">>)
  <2> HIDE DEF Is
  <2>1. QED
    BY <1>1 DEF Editors, ReadEditors, UnreadEditors
<1>3. /\ "cat" \in Inert /\ "tee" \in Inert /\ "-a" \in Inert /\ "sed" \in Inert
      /\ "-n" \in Inert /\ "script" \in Inert /\ "-i.bak" \in Inert /\ "dd" \in Inert
      /\ "if=in" \in Inert /\ "of=f" \in Inert /\ "git" \in Inert /\ "-c" \in Inert
      /\ "k=v" \in Inert /\ "am" \in Inert /\ "log" \in Inert
      /\ "cat>f" \in Inert /\ "-Ei" \in Inert /\ "sudo" \in Inert
  BY Zenon DEF Inert, EditWords, ReadsOn, Redirections, JoinedTo
<1>4. Inert \subseteq EditWords /\ \A a \in Inert : a \notin ReadsOn
  BY DEF Inert
<1>5. ASSUME e.words \in Seq(Inert), e.words # <<>>
      PROVE  /\ e.words \in Seq(EditWords) /\ e.words # <<>>
             /\ e.words[Len(e.words)] \notin ReadsOn
             /\ RedirectionTargets(e.words) = {}
  <2>1. e.words \in Seq(EditWords) /\ \A i \in DOMAIN e.words : e.words[i] \in Inert
    BY <1>4, <1>5
  <2>2. e.words[Len(e.words)] \in Inert
    BY <1>5
  <2>3. QED
    BY <1>4, <1>5, <2>1, <2>2, InertOpens
<1>6. CASE \E a \in Inert : Is(<<a>>)
  BY <1>5, <1>6
<1>7. CASE \E a, b \in Inert : Is(<<a, b>>)
  BY <1>5, <1>7
<1>8. CASE \E a, b, c \in Inert : Is(<<a, b, c>>)
  BY <1>5, <1>8
<1>9. CASE \E a, b, c, d \in Inert : Is(<<a, b, c, d>>)
  BY <1>5, <1>9
<1> HIDE DEF Is
<1>10. QED
  BY <1>2, <1>3, <1>6, <1>7, <1>8, <1>9

OperandWords(s) == UNION {ToSet(p.words) : p \in {p \in ToSet(s) : p.operand}}
SyntaxWords(s) == UNION {ToSet(p.words) : p \in {p \in ToSet(s) : ~p.operand}}

\* The words of the pieces by what may be taken for a file.
LEMMA SaidWords ==
  ASSUME NEW s \in Seq(EditPieces)
  PROVE  /\ Said(s) = OperandWords(s) \union SyntaxWords(s)
         /\ Said(s) \intersect (InPlace \union DOMAIN OutputOf) = {}
         /\ OperandWords(s) \intersect Dashed = {}
<1>1. \A p \in ToSet(s) : p \in EditPieces
  BY DEF ToSet
<1>2. QED
  BY <1>1, EditPieceWords DEF Said, OperandWords, SyntaxWords

\* What the command of an editor makes of its words, redirections and all.
LEMMA CommandTargetsOf ==
  ASSUME NEW e \in ReadEditors, NEW r \in Seq(EditWords),
         ToSet(r) \intersect (InPlace \union DOMAIN OutputOf) = {}
  PROVE  \/ e.operands /\ e.files = {}
            /\ CommandTargets(e.words \o r) \ {"script"} \subseteq ToSet(r) \ Dashed
            /\ ToSet(r) \ Dashed \subseteq CommandTargets(e.words \o r)
         \/ ~e.operands /\ CommandTargets(e.words \o r) = e.files
<1> DEFINE t == e.words
           w == t \o r
           args == ToSet(Tail(w))
           Is(u, o, x) == e.words = u /\ e.operands = o /\ e.files = x
<1>1. ASSUME NEW u, NEW o, NEW x, e = Edits(u, o, x) PROVE Is(u, o, x)
  BY <1>1 DEF Edits
<1>2. \/ Is(<<"cat">>, FALSE, {}) \/ Is(<<"tee", "-a">>, TRUE, {})
      \/ Is(<<"sed", "-n", "script">>, FALSE, {})
      \/ Is(<<"sed", "-i.bak", "script">>, TRUE, {})
      \/ Is(<<"dd", "if=in", "of=f">>, FALSE, {"f"})
      \/ Is(<<"git", "-c", "k=v", "am">>, FALSE, {"."})
      \/ Is(<<"git", "-c", "am", "log">>, FALSE, {})
  <2> HIDE DEF Is
  <2>1. QED
    BY <1>1 DEF ReadEditors
<1>3. t \in Seq(EditWords) /\ t # <<>>
  BY EditorTypes DEF Editors
<1>4. Tail(w) = Tail(t) \o r /\ Tail(t) \in Seq(EditWords) /\ w # <<>> /\ w[1] = t[1]
  <2> HIDE DEF t
  <2>1. QED
    BY <1>3, TailConcat
<1>5. args = ToSet(Tail(t)) \union ToSet(r)
  <2>1. Tail(t) \in Seq(EditWords) /\ Tail(w) = Tail(t) \o r
    BY <1>4
  <2>2. ASSUME NEW x \in Seq(EditWords), NEW y \in Seq(EditWords)
        PROVE  ToSet(x \o y) = ToSet(x) \union ToSet(y)
    BY ToSetConcat
  <2> HIDE DEF t, w
  <2>3. QED
    BY <2>1, <2>2
<1>6. w \in Seq(EditWords)
  BY <1>3, ConcatProperties
<1> DEFINE head == Base(w[1])
<1>7. CommandTargets(w) =
        CASE head = "tee" -> args \ Dashed
          [] head = "sed" /\ args \intersect InPlace # {} -> args \ Dashed
          [] head = "dd" -> {OutputOf[a] : a \in args \intersect DOMAIN OutputOf}
          [] head = "git" /\ At(GitSubcommand(w), 1) \in {"apply", "am"} -> {"."}
          [] OTHER -> {}
  BY DEF CommandTargets
<1>8. \A a \in {"cat", "tee", "sed", "dd", "git"} : Base(a) = a
  BY Zenon DEF Base, Directories
<1>9. /\ ToSet(<<>>) = {}
      /\ \A a : ToSet(<<a>>) = {a}
      /\ \A a, b : ToSet(<<a, b>>) = {a, b}
  BY DEF ToSet
<1>10. CASE Is(<<"cat">>, FALSE, {})
  <2>1. t = <<"cat">> /\ t[1] = "cat"
    BY <1>10
  <2>2. head = "cat"
    BY <1>4, <1>8, <2>1
  <2> HIDE DEF w, head, args
  <2>3. CommandTargets(w) = {}
    BY <1>7, <2>2
  <2>4. QED
    BY <1>10, <2>3 DEF w
<1>11. CASE Is(<<"tee", "-a">>, TRUE, {})
  <2>1. t = <<"tee", "-a">> /\ t[1] = "tee" /\ Tail(t) = <<"-a">>
    BY <1>11
  <2>2. head = "tee"
    BY <1>4, <1>8, <2>1
  <2>3. args = {"-a"} \union ToSet(r)
    BY <1>5, <1>9, <2>1
  <2> HIDE DEF w, head, args
  <2>4. CommandTargets(w) = args \ Dashed
    BY <1>7, <2>2
  <2>5. "-a" \in Dashed
    BY DEF Dashed, Flags
  <2>6. QED
    BY <1>11, <2>3, <2>4, <2>5 DEF w
<1>12. CASE Is(<<"sed", "-n", "script">>, FALSE, {})
  <2>1. t = <<"sed", "-n", "script">> /\ t[1] = "sed" /\ Tail(t) = <<"-n", "script">>
    BY <1>12
  <2>2. head = "sed"
    BY <1>4, <1>8, <2>1
  <2>3. args = {"-n", "script"} \union ToSet(r)
    BY <1>5, <1>9, <2>1
  <2>4. args \intersect InPlace = {}
    <3>1. "-n" \notin InPlace /\ "script" \notin InPlace
      BY DEF InPlace
    <3>2. QED
      BY <2>3, <3>1
  <2> HIDE DEF w, head, args
  <2>5. CommandTargets(w) = {}
    BY <1>7, <2>2, <2>4
  <2>6. QED
    BY <1>12, <2>5 DEF w
<1>13. CASE Is(<<"sed", "-i.bak", "script">>, TRUE, {})
  <2>1. t = <<"sed", "-i.bak", "script">> /\ t[1] = "sed" /\ Tail(t) = <<"-i.bak", "script">>
    BY <1>13
  <2>2. head = "sed"
    BY <1>4, <1>8, <2>1
  <2>3. args = {"-i.bak", "script"} \union ToSet(r)
    BY <1>5, <1>9, <2>1
  <2>4. "-i.bak" \in InPlace /\ "-i.bak" \in Dashed
    BY DEF InPlace, Dashed
  <2> HIDE DEF w, head, args
  <2>5. CommandTargets(w) = args \ Dashed
    BY <1>7, <2>2, <2>3, <2>4
  <2>6. QED
    BY <1>13, <2>3, <2>4, <2>5 DEF w
<1>14. CASE Is(<<"dd", "if=in", "of=f">>, FALSE, {"f"})
  <2>1. t = <<"dd", "if=in", "of=f">> /\ t[1] = "dd" /\ Tail(t) = <<"if=in", "of=f">>
    BY <1>14
  <2>2. head = "dd"
    BY <1>4, <1>8, <2>1
  <2>3. args = {"if=in", "of=f"} \union ToSet(r)
    BY <1>5, <1>9, <2>1
  <2>4. DOMAIN OutputOf = {"of=f"} /\ OutputOf["of=f"] = "f" /\ "if=in" # "of=f"
    BY DEF OutputOf
  <2>5. args \intersect DOMAIN OutputOf = {"of=f"}
    BY <2>3, <2>4
  <2> HIDE DEF w, head, args
  <2>6. CommandTargets(w) = {OutputOf[a] : a \in args \intersect DOMAIN OutputOf}
    BY <1>7, <2>2
  <2>7. CommandTargets(w) = {"f"}
    BY <2>4, <2>5, <2>6
  <2>8. QED
    BY <1>14, <2>7 DEF w
<1>15. CASE Is(<<"git", "-c", "k=v", "am">>, FALSE, {"."})
  <2>1. t = <<"git", "-c", "k=v", "am">> /\ t[1] = "git" /\ Tail(t) = <<"-c", "k=v", "am">>
    BY <1>15
  <2>2. head = "git"
    BY <1>4, <1>8, <2>1
  <2>3. "-c" \in GitOptionsWithArg /\ "am" \notin Flags
    BY DEF GitOptionsWithArg, Flags
  <2>4. <<"-c", "k=v", "am">> \in Seq(EditWords) /\ Tail(w) = <<"-c", "k=v", "am">> \o r
    BY <1>4, <2>1
  <2> HIDE DEF w
  <2>5. At(GitSubcommand(w), 1) = "am"
    BY <1>4, <1>6, <2>2, <2>3, <2>4, GitSubcommandOf
  <2> HIDE DEF head, args
  <2>6. CommandTargets(w) = {"."}
    BY <1>7, <2>2, <2>5
  <2>7. QED
    BY <1>15, <2>6 DEF w
<1>16. CASE Is(<<"git", "-c", "am", "log">>, FALSE, {})
  <2>1. t = <<"git", "-c", "am", "log">> /\ t[1] = "git" /\ Tail(t) = <<"-c", "am", "log">>
    BY <1>16
  <2>2. head = "git"
    BY <1>4, <1>8, <2>1
  <2>3. "-c" \in GitOptionsWithArg /\ "log" \notin Flags
    BY DEF GitOptionsWithArg, Flags
  <2>4. <<"-c", "am", "log">> \in Seq(EditWords) /\ Tail(w) = <<"-c", "am", "log">> \o r
    BY <1>4, <2>1
  <2> HIDE DEF w
  <2>5. At(GitSubcommand(w), 1) = "log"
    BY <1>4, <1>6, <2>2, <2>3, <2>4, GitSubcommandOf
  <2> HIDE DEF head, args
  <2>6. CommandTargets(w) = {}
    BY <1>7, <2>2, <2>5
  <2>7. QED
    BY <1>16, <2>6 DEF w
<1> HIDE DEF Is
<1>17. QED
  BY <1>2, <1>10, <1>11, <1>12, <1>13, <1>14, <1>15, <1>16

\* The others are taken to write nothing but what they redirect.
LEMMA UnreadTargets ==
  ASSUME NEW e \in UnreadEditors, NEW r \in Seq(EditWords),
         ToSet(r) \intersect (InPlace \union DOMAIN OutputOf) = {}
  PROVE  CommandTargets(e.words \o r) = {}
<1> DEFINE t == e.words
           w == t \o r
           args == ToSet(Tail(w))
           head == Base(w[1])
           Is(u) == e.words = u
<1>1. ASSUME NEW u, NEW o, NEW x, e = Edits(u, o, x) PROVE Is(u)
  BY <1>1 DEF Edits
<1>2. Is(<<"cat>f">>) \/ Is(<<"sed", "-Ei", "script">>) \/ Is(<<"sudo", "tee">>)
  <2> HIDE DEF Is
  <2>1. QED
    BY <1>1 DEF UnreadEditors
<1>3. t \in Seq(EditWords) /\ t # <<>>
  BY EditorTypes DEF Editors
<1>4. Tail(w) = Tail(t) \o r /\ Tail(t) \in Seq(EditWords) /\ w # <<>> /\ w[1] = t[1]
  <2> HIDE DEF t
  <2>1. QED
    BY <1>3, TailConcat
<1>5. args = ToSet(Tail(t)) \union ToSet(r)
  <2>1. Tail(t) \in Seq(EditWords) /\ Tail(w) = Tail(t) \o r
    BY <1>4
  <2>2. ASSUME NEW x \in Seq(EditWords), NEW y \in Seq(EditWords)
        PROVE  ToSet(x \o y) = ToSet(x) \union ToSet(y)
    BY ToSetConcat
  <2> HIDE DEF t, w
  <2>3. QED
    BY <2>1, <2>2
<1>6. CommandTargets(w) =
        CASE head = "tee" -> args \ Dashed
          [] head = "sed" /\ args \intersect InPlace # {} -> args \ Dashed
          [] head = "dd" -> {OutputOf[a] : a \in args \intersect DOMAIN OutputOf}
          [] head = "git" /\ At(GitSubcommand(w), 1) \in {"apply", "am"} -> {"."}
          [] OTHER -> {}
  BY DEF CommandTargets
<1>7. \A a \in {"cat>f", "sed", "sudo"} : Base(a) = a
  BY Zenon DEF Base, Directories
<1>8. \A a, b : ToSet(<<a, b>>) = {a, b}
  BY DEF ToSet
<1>9. CASE Is(<<"sed", "-Ei", "script">>)
  <2>1. t = <<"sed", "-Ei", "script">> /\ t[1] = "sed" /\ Tail(t) = <<"-Ei", "script">>
    BY <1>9
  <2>2. head = "sed"
    BY <1>4, <1>7, <2>1
  <2>3. args = {"-Ei", "script"} \union ToSet(r)
    BY <1>5, <1>8, <2>1
  <2>4. args \intersect InPlace = {}
    <3>1. "-Ei" \notin InPlace /\ "script" \notin InPlace
      BY DEF InPlace
    <3>2. QED
      BY <2>3, <3>1
  <2> HIDE DEF w, head, args
  <2>5. CommandTargets(w) = {}
    BY <1>6, <2>2, <2>4
  <2>6. QED
    BY <2>5 DEF w
<1>10. CASE Is(<<"cat>f">>) \/ Is(<<"sudo", "tee">>)
  <2>1. t[1] = "cat>f" \/ t[1] = "sudo"
    BY <1>10
  <2>2. head = "cat>f" \/ head = "sudo"
    BY <1>4, <1>7, <2>1
  <2> HIDE DEF w, head, args
  <2>3. CommandTargets(w) = {}
    BY <1>6, <2>2
  <2>4. QED
    BY <2>3 DEF w
<1> HIDE DEF Is
<1>11. QED
  BY <1>2, <1>9, <1>10

\* What a command of any number of pieces redirects to.
LEMMA WrittenIs ==
  ASSUME NEW s \in Seq(EditPieces)
  PROVE  Written(s) = (UNION {p.writes : p \in ToSet(s) \ {Clobber}})
                        \union (IF Clobber \in ToSet(s) THEN {"|"} ELSE {})
<1>1. \A p \in ToSet(s) : RedirectionTargets(p.words) = IF p = Clobber THEN {"|"} ELSE p.writes
  <2>1. \A p \in ToSet(s) : p \in EditPieces
    BY DEF ToSet
  <2>2. QED
    BY <2>1, EditPieceTypes
<1>2. ASSUME NEW x
      PROVE  x \in Written(s) <=>
                \/ \E p \in ToSet(s) \ {Clobber} : x \in p.writes
                \/ Clobber \in ToSet(s) /\ x = "|"
  <2>1. x \in Written(s) <=> \E p \in ToSet(s) : x \in RedirectionTargets(p.words)
    BY DEF Written
  <2>2. QED
    BY <1>1, <2>1
<1>3. QED
  BY <1>2

\* The targets of a command of any number of pieces are the files it writes, but
\* for what the code does not read and what it takes for a file.
LEMMA AlwaysTargetsAsWritten ==
  ASSUME NEW e \in Editors, NEW s \in Seq(EditPieces)
  PROVE  TargetsAsWritten(e, s)
<1> DEFINE r == WordsOf(s)
           w == e.words \o r
           edits == e \in ReadEditors /\ e.operands
           operands == IF edits THEN {p \in ToSet(s) : p.operand} ELSE {}
           named == IF e \in ReadEditors THEN e.files ELSE {}
           written == UNION {p.writes : p \in ToSet(s) \ {Clobber}}
           pipe == IF Clobber \in ToSet(s) THEN {"|"} ELSE {}
           said == UNION {ToSet(p.words) : p \in operands}
           read == named \union written \union said
           syntax == UNION {ToSet(p.words) : p \in {p \in ToSet(s) : ~p.operand}}
<1>1. TargetsAsWritten(e, s) <=>
        /\ read \subseteq Targets(w)
        /\ Targets(w) \ read \subseteq
             (IF edits THEN {"script"} \union (syntax \ Dashed) ELSE {}) \union pipe
  BY DEF TargetsAsWritten, WordsOf
<1>2. EditInv(e.words, s)
  BY EditorTypes, EditInvHolds
<1>3. /\ r \in Seq(EditWords) /\ w # <<>> /\ RedirectionTargets(w) = Written(s)
      /\ ToSet(r) = Said(s)
  BY <1>2, EditorTypes DEF EditInv
<1>4. Targets(w) = Written(s) \union CommandTargets(w)
  BY <1>3 DEF Targets
<1>5. syntax = SyntaxWords(s) /\ said = IF edits THEN OperandWords(s) ELSE {}
  <2>1. syntax = SyntaxWords(s)
    BY DEF SyntaxWords
  <2>2. CASE edits
    BY <2>1, <2>2 DEF OperandWords
  <2>3. CASE ~edits
    <3>1. operands = {}
      BY <2>3
    <3> HIDE DEF operands, edits
    <3>2. said = {}
      BY <3>1
    <3>3. QED
      BY <2>1, <2>3, <3>2
  <2>4. QED
    BY <2>2, <2>3
<1>6. Written(s) = written \union pipe
  BY WrittenIs
<1>7. /\ Said(s) = OperandWords(s) \union SyntaxWords(s)
      /\ Said(s) \intersect (InPlace \union DOMAIN OutputOf) = {}
      /\ OperandWords(s) \intersect Dashed = {}
  BY SaidWords
<1> HIDE DEF r, w, syntax, written, said, pipe
<1>8. CASE e \in ReadEditors
  <2>1. \/ /\ e.operands /\ e.files = {}
           /\ CommandTargets(w) \ {"script"} \subseteq ToSet(r) \ Dashed
           /\ ToSet(r) \ Dashed \subseteq CommandTargets(w)
        \/ ~e.operands /\ CommandTargets(w) = e.files
    BY <1>3, <1>7, <1>8, CommandTargetsOf DEF w
  <2>2. named = e.files /\ (edits <=> e.operands)
    BY <1>8
  <2> HIDE DEF named, edits
  <2>3. QED
    BY <1>1, <1>3, <1>4, <1>5, <1>6, <1>7, <2>1, <2>2
<1>9. CASE e \notin ReadEditors
  <2>1. CommandTargets(w) = {}
    BY <1>3, <1>7, <1>9, UnreadTargets DEF w, Editors
  <2>2. named = {} /\ ~edits
    BY <1>9
  <2> HIDE DEF named, edits
  <2>3. QED
    BY <1>1, <1>4, <1>5, <1>6, <2>1, <2>2
<1>10. QED
  BY <1>8, <1>9

-----------------------------------------------------------------------------
(***************************************************************************)
(* What is left of the words when the first ones are dropped.              *)
(***************************************************************************)
\* The words from a position on.
LEMMA FromIs ==
  ASSUME NEW S, NEW words \in Seq(S), NEW i \in 1..Len(words) + 2
  PROVE  /\ From(words, i) \in Seq(S)
         /\ i # Len(words) + 2 => Len(From(words, i)) = Len(words) - i + 1
         /\ i >= Len(words) + 1 => From(words, i) = <<>>
         /\ \A j \in 1..Len(words) - i + 1 : From(words, i)[j] = words[i + j - 1]
<1>1. Len(words) \in Nat /\ i \in Nat /\ \A j \in 1..Len(words) : words[j] \in S
  OBVIOUS
<1>2. From(words, i) = [j \in 1..Len(words) - i + 1 |-> words[i + j - 1]]
  BY <1>1 DEF From
<1>3. \A j \in 1..Len(words) - i + 1 : i + j - 1 \in 1..Len(words)
  BY <1>1
<1>4. CASE i <= Len(words)
  <2> DEFINE f == [j \in 1..Len(words) - i + 1 |-> words[i + j - 1]]
  <2>1. f \in [1..Len(words) - i + 1 -> S] /\ Len(words) - i + 1 \in Nat
    BY <1>1, <1>3, <1>4
  <2>2. f \in Seq(S)
    BY <2>1, SeqDef
  <2>3. DOMAIN f = 1..Len(f) /\ Len(f) \in Nat /\ DOMAIN f = 1..Len(words) - i + 1
    BY <2>2, LenProperties
  <2>4. \A j \in 1..Len(words) - i + 1 : f[j] = words[i + j - 1]
    OBVIOUS
  <2> HIDE DEF f
  <2>5. Len(f) = Len(words) - i + 1
    BY <2>1, <2>3, SameBounds
  <2>6. f = From(words, i)
    BY <1>2 DEF f
  <2>7. QED
    BY <1>1, <1>4, <2>2, <2>4, <2>5, <2>6
<1>5. CASE ~(i <= Len(words))
  <2>1. 1..Len(words) - i + 1 = {}
    BY <1>1, <1>5
  <2>2. From(words, i) = <<>>
    BY <1>1, <1>5, SubSeqEmpty DEF From
  <2>3. i # Len(words) + 2 => Len(words) - i + 1 = 0
    BY <1>1, <1>5
  <2>4. QED
    BY <2>1, <2>2, <2>3
<1>6. QED
  BY <1>4, <1>5

\* The words from the first and from the second position on.
LEMMA FromFirst ==
  ASSUME NEW S, NEW words \in Seq(S)
  PROVE  /\ From(words, 1) = words
         /\ words # <<>> => Tail(words) = From(words, 2) /\ Len(words) \in Nat \ {0}
<1>1. From(words, 1) = words
  BY DEF From
<1>2. words # <<>> => Tail(words) = From(words, 2)
  BY DEF From
<1>3. QED
  BY <1>1, <1>2

\* Dropping words twice is dropping them once.
LEMMA FromFrom ==
  ASSUME NEW S, NEW words \in Seq(S), NEW i \in 1..Len(words) + 1,
         NEW j \in 1..Len(words) - i + 2
  PROVE  From(From(words, i), j) = From(words, i + j - 1)
<1> DEFINE a == From(words, i)
           b == From(words, i + j - 1)
           c == From(a, j)
<1>1. Len(words) \in Nat /\ i \in Nat /\ i \in 1..Len(words) + 2 /\ i # Len(words) + 2
      /\ i + j - 1 \in 1..Len(words) + 2 /\ i + j - 1 # Len(words) + 2
  OBVIOUS
<1>2. /\ a \in Seq(S) /\ Len(a) = Len(words) - i + 1
      /\ \A k \in 1..Len(words) - i + 1 : a[k] = words[i + k - 1]
  BY <1>1, FromIs
<1>3. /\ b \in Seq(S) /\ Len(b) = Len(words) - (i + j - 1) + 1
      /\ \A k \in 1..Len(words) - (i + j - 1) + 1 : b[k] = words[i + j - 1 + k - 1]
  BY <1>1, FromIs
<1> HIDE DEF a
<1>4. j \in 1..Len(a) + 2 /\ j # Len(a) + 2
  BY <1>1, <1>2
<1>5. /\ c \in Seq(S) /\ Len(c) = Len(a) - j + 1
      /\ \A k \in 1..Len(a) - j + 1 : c[k] = a[j + k - 1]
  <2>1. a \in Seq(S) /\ j \in 1..Len(a) + 2 /\ j # Len(a) + 2
    BY <1>2, <1>4
  <2>2. QED
    BY <2>1, FromIs
<1> HIDE DEF b, c
<1>6. Len(c) = Len(b)
  BY <1>1, <1>2, <1>3, <1>5
<1>7. ASSUME NEW k \in 1..Len(c) PROVE c[k] = b[k]
  <2>1. /\ k \in 1..Len(a) - j + 1 /\ j + k - 1 \in 1..Len(words) - i + 1
        /\ k \in 1..Len(words) - (i + j - 1) + 1
        /\ i + (j + k - 1) - 1 = i + j - 1 + k - 1
    BY <1>1, <1>2, <1>4, <1>5
  <2>2. c[k] = a[j + k - 1] /\ a[j + k - 1] = words[i + (j + k - 1) - 1]
        /\ b[k] = words[i + j - 1 + k - 1]
    BY <2>1, <1>2, <1>3, <1>5
  <2>3. QED
    BY <2>1, <2>2
<1>8. c = b
  BY <1>3, <1>5, <1>6, <1>7, SeqEqual
<1>9. QED
  BY <1>8 DEF a, b, c

\* Dropping the first part of a concatenation leaves words of the second.
LEMMA FromConcat ==
  ASSUME NEW S, NEW u \in Seq(S), NEW r \in Seq(S), NEW j \in 1..Len(r) + 1
  PROVE  From(u \o r, Len(u) + j) = From(r, j)
<1> DEFINE w == u \o r
           i == Len(u) + j
           a == From(w, i)
           b == From(r, j)
<1>1. /\ w \in Seq(S) /\ Len(u) \in Nat /\ Len(r) \in Nat /\ Len(w) = Len(u) + Len(r)
      /\ \A k \in 1..Len(r) : w[Len(u) + k] = r[k]
  BY ConcatAt
<1> HIDE DEF w
<1>2. i \in 1..Len(w) + 2 /\ i # Len(w) + 2 /\ j \in 1..Len(r) + 2 /\ j # Len(r) + 2
  BY <1>1
<1>3. /\ a \in Seq(S) /\ Len(a) = Len(w) - i + 1
      /\ \A k \in 1..Len(w) - i + 1 : a[k] = w[i + k - 1]
  <2> HIDE DEF i
  <2>1. w \in Seq(S)
    BY <1>1
  <2>2. QED
    BY <2>1, <1>2, FromIs
<1>4. /\ b \in Seq(S) /\ Len(b) = Len(r) - j + 1
      /\ \A k \in 1..Len(r) - j + 1 : b[k] = r[j + k - 1]
  BY <1>2, FromIs
<1> HIDE DEF a, b
<1>5. Len(a) = Len(b)
  BY <1>1, <1>3, <1>4
<1>6. ASSUME NEW k \in 1..Len(a) PROVE a[k] = b[k]
  <2>1. /\ k \in 1..Len(w) - i + 1 /\ k \in 1..Len(r) - j + 1
        /\ j + k - 1 \in 1..Len(r) /\ i + k - 1 = Len(u) + (j + k - 1)
    BY <1>1, <1>3
  <2>2. a[k] = w[i + k - 1] /\ b[k] = r[j + k - 1] /\ w[Len(u) + (j + k - 1)] = r[j + k - 1]
    BY <2>1, <1>1, <1>3, <1>4
  <2>3. QED
    BY <2>1, <2>2
<1>7. a = b
  BY <1>3, <1>4, <1>5, <1>6, SeqEqual
<1>8. QED
  BY <1>7 DEF a, b, w, i

\* What may be left of the words when some at the beginning are dropped.
Ends(words) == {From(words, k) : k \in 1..Len(words) + 1}

\* They are shorter, and closed under dropping the first word.
LEMMA EndsOf ==
  ASSUME NEW S, NEW words \in Seq(S)
  PROVE  /\ words \in Ends(words) /\ <<>> \in Ends(words)
         /\ \A v \in Ends(words) : v \in Seq(S) /\ (v = words \/ Len(v) < Len(words))
         /\ \A v \in Ends(words) : v # <<>> => Tail(v) \in Ends(words)
         /\ words # <<>> => Ends(Tail(words)) \subseteq Ends(words)
<1>1. /\ Len(words) \in Nat /\ 1 \in 1..Len(words) + 1 /\ Len(words) + 1 \in 1..Len(words) + 1
      /\ Len(words) + 1 \in 1..Len(words) + 2 /\ Len(words) + 1 >= Len(words) + 1
  OBVIOUS
<1>2. From(words, 1) = words /\ From(words, Len(words) + 1) = <<>>
  BY <1>1, FromFirst, FromIs
<1>3. words \in Ends(words) /\ <<>> \in Ends(words)
  BY <1>1, <1>2 DEF Ends
<1>4. ASSUME NEW k \in 1..Len(words) + 1
      PROVE  /\ From(words, k) \in Seq(S) /\ Len(From(words, k)) = Len(words) - k + 1
             /\ (From(words, k) = words \/ Len(From(words, k)) < Len(words))
  <2>1. k \in 1..Len(words) + 2 /\ k # Len(words) + 2
    BY <1>1
  <2>2. From(words, k) \in Seq(S) /\ Len(From(words, k)) = Len(words) - k + 1
    BY <2>1, FromIs
  <2>3. k = 1 \/ Len(words) - k + 1 < Len(words)
    BY <1>1
  <2>4. QED
    BY <1>2, <2>2, <2>3
<1>5. ASSUME NEW k \in 1..Len(words) + 1, From(words, k) # <<>>
      PROVE  Tail(From(words, k)) = From(words, k + 1) /\ k + 1 \in 1..Len(words) + 1
  <2> DEFINE v == From(words, k)
  <2>1. v \in Seq(S) /\ Len(v) = Len(words) - k + 1
    BY <1>4
  <2>2. v # <<>>
    BY <1>5
  <2> HIDE DEF v
  <2>3. Tail(v) = From(v, 2) /\ Len(v) \in Nat \ {0}
    BY <2>1, <2>2, FromFirst
  <2>4. 2 \in 1..Len(words) - k + 2 /\ k + 2 - 1 = k + 1 /\ k + 1 \in 1..Len(words) + 1
    BY <1>1, <2>1, <2>3
  <2>5. From(v, 2) = From(words, k + 2 - 1)
    BY <2>4, FromFrom DEF v
  <2>6. QED
    BY <2>3, <2>4, <2>5 DEF v
<1>6. \A v \in Ends(words) : v # <<>> => Tail(v) \in Ends(words)
  BY <1>5 DEF Ends
<1>7. ASSUME words # <<>>, NEW k \in 1..Len(Tail(words)) + 1
      PROVE  From(Tail(words), k) \in Ends(words)
  <2>1. Tail(words) = From(words, 2) /\ Len(words) \in Nat \ {0} /\ 2 \in 1..Len(words) + 1
    BY <1>7, FromFirst
  <2>2. Len(Tail(words)) = Len(words) - 2 + 1
    BY <2>1, <1>4
  <2>3. k \in 1..Len(words) - 2 + 2 /\ 2 + k - 1 \in 1..Len(words) + 1
    BY <2>1, <2>2
  <2>4. From(From(words, 2), k) = From(words, 2 + k - 1)
    BY <2>1, <2>3, FromFrom
  <2>5. QED
    BY <2>1, <2>3, <2>4 DEF Ends
<1>8. QED
  BY <1>3, <1>4, <1>6, <1>7 DEF Ends

\* AfterFlags, AfterMise and AfterNoise only drop words at the beginning.
LEMMA AfterFlagsEnds ==
  ASSUME NEW S, NEW words \in Seq(S), NEW skipped, NEW takesNext, None \notin skipped
  PROVE  AfterFlags(words, skipped, takesNext) \in Ends(words)
<1> DEFINE n == Len(words) + 2
           f == Skips(words, skipped, takesNext)
           Good == {j \in Nat : \A i \in 1..n : i + j >= n => f[i] \in Ends(words)}
<1>1. /\ AfterFlags(words, skipped, takesNext) = f[1]
      /\ \A i \in 1..n :
            /\ At(words, i) \notin skipped => f[i] = From(words, i)
            /\ At(words, i) \in skipped /\ words[i] = "--" => f[i] = From(words, i + 1)
            /\ At(words, i) \in skipped /\ words[i] # "--" =>
                  f[i] = f[IF words[i] \in takesNext THEN i + 2 ELSE i + 1]
  BY AfterFlagsScans
<1>2. Len(words) \in Nat /\ n \in Nat /\ 1 \in 1..n /\ n = Len(words) + 2
  OBVIOUS
<1> HIDE DEF f, n
<1>3. \A i \in 1..n : From(words, i) \in Ends(words)
  <2>1. ASSUME NEW i \in 1..n PROVE From(words, i) \in Ends(words)
    <3>1. CASE i = n
      <4>1. From(words, i) = <<>>
        <5>1. i \in 1..Len(words) + 2 /\ i >= Len(words) + 1
          BY <1>2, <3>1
        <5>2. QED
          BY <5>1, FromIs
      <4>2. QED
        BY <4>1, EndsOf
    <3>2. CASE i # n
      <4>1. i \in 1..Len(words) + 1
        BY <1>2, <3>2
      <4>2. QED
        BY <4>1 DEF Ends
    <3>3. QED
      BY <3>1, <3>2
  <2>2. QED
    BY <2>1
<1>4. ASSUME NEW i \in 1..n, At(words, i) \in skipped PROVE i + 2 \in 1..n /\ i + 1 \in 1..n
  <2>1. i \in DOMAIN words
    BY <1>4 DEF At
  <2>2. QED
    BY <1>2, <2>1
<1>5. 0 \in Good
  <2>1. ASSUME NEW i \in 1..n, i + 0 >= n PROVE f[i] \in Ends(words)
    <3>1. ~(i + 2 \in 1..n)
      BY <1>2, <2>1
    <3>2. At(words, i) \notin skipped
      BY <1>4, <3>1
    <3>3. QED
      BY <1>1, <1>3, <3>2
  <2>2. QED
    BY <2>1
<1>6. ASSUME NEW j \in Nat, j \in Good PROVE j + 1 \in Good
  <2>1. ASSUME NEW i \in 1..n, i + (j + 1) >= n PROVE f[i] \in Ends(words)
    <3>1. CASE At(words, i) \notin skipped
      BY <1>1, <1>3, <3>1
    <3>2. CASE At(words, i) \in skipped
      <4>1. i + 2 \in 1..n /\ i + 1 \in 1..n
        BY <1>4, <3>2
      <4>2. (i + 2) + j >= n /\ (i + 1) + j >= n
        BY <1>2, <2>1
      <4>3. f[i + 2] \in Ends(words) /\ f[i + 1] \in Ends(words)
        BY <1>6, <4>1, <4>2
      <4>4. QED
        BY <1>1, <1>3, <3>2, <4>1, <4>3
    <3>3. QED
      BY <3>1, <3>2
  <2>2. QED
    BY <2>1
<1> HIDE DEF Good
<1>7. n \in Good
  BY <1>2, <1>5, <1>6, Induction
<1>8. 1 + n >= n
  BY <1>2
<1>9. f[1] \in Ends(words)
  BY <1>2, <1>7, <1>8 DEF Good
<1>10. QED
  BY <1>1, <1>9

LEMMA AfterMiseEnds ==
  ASSUME NEW S, NEW words \in Seq(S)
  PROVE  AfterMise(words) \in Ends(words)
<1> DEFINE others == {i \in DOMAIN words : words[i] \notin Flags \union {"exec", "x"}}
           first == CHOOSE i \in others : \A j \in others : i <= j
<1>1. CASE others = {}
  BY <1>1, EndsOf DEF AfterMise
<1>2. CASE others # {}
  <2>1. others \subseteq Nat /\ DOMAIN words = 1..Len(words) /\ Len(words) \in Nat
    OBVIOUS
  <2> HIDE DEF others
  <2>2. \E i \in others : \A j \in others : i <= j
    <3>1. \E x \in others : \A y \in others : ~(<<y, x>> \in OpToRel(<, Nat))
      BY <1>2, <2>1, NatLessThanWellFounded, WFMin
    <3>2. PICK x \in others : \A y \in others : ~(y < x)
      BY <2>1, <3>1 DEF OpToRel
    <3>3. QED
      BY <2>1, <3>2
  <2>3. first \in others
    BY <2>2
  <2>4. AfterMise(words) = From(words, first)
    BY <1>2 DEF AfterMise, others
  <2> HIDE DEF first
  <2>5. first \in 1..Len(words) + 1
    BY <2>1, <2>3 DEF others
  <2>6. QED
    BY <2>4, <2>5 DEF Ends
<1>3. QED
  BY <1>1, <1>2

LEMMA AfterNoiseEnds ==
  ASSUME NEW S, NEW words \in Seq(S), words # <<>>
  PROVE  AfterNoise(words) \in Ends(words)
<1> DEFINE head == Base(words[1])
           rest == Tail(words)
           skipped == Flags \union Assignments
<1>1. AfterNoise(words) =
        CASE words[1] \in Assignments -> rest
          [] head \in DOMAIN FlagsWithArg ->
                AfterDuration(head, AfterFlags(rest, skipped, FlagsWithArg[head]))
          [] head = "mise" -> AfterMise(rest)
          [] OTHER -> words
  BY DEF AfterNoise
<1>2. rest \in Seq(S)
  OBVIOUS
<1>3. /\ words \in Ends(words) /\ rest \in Ends(words)
      /\ Ends(rest) \subseteq Ends(words)
      /\ \A v \in Ends(words) : v # <<>> => Tail(v) \in Ends(words)
  BY EndsOf
<1>4. None \notin skipped
  BY DEF None, Flags, Assignments
<1> HIDE DEF head, rest, skipped
<1>5. AfterMise(rest) \in Ends(words)
  BY <1>2, <1>3, AfterMiseEnds
<1>6. AfterDuration(head, AfterFlags(rest, skipped, FlagsWithArg[head])) \in Ends(words)
  <2>1. AfterFlags(rest, skipped, FlagsWithArg[head]) \in Ends(words)
    BY <1>2, <1>3, <1>4, AfterFlagsEnds
  <2>2. QED
    BY <1>3, <2>1 DEF AfterDuration
<1>7. QED
  BY <1>1, <1>3, <1>5, <1>6

-----------------------------------------------------------------------------
(***************************************************************************)
(* Wrappers are stripped one after the other.                              *)
(***************************************************************************)
\* What becomes of the last n words, if f says what becomes of fewer.
Stripping(f, words, n) ==
    LET last == From(words, Len(words) - n + 1)
        left == AfterNoise(last)
    IN IF last = <<>> \/ left = last THEN last ELSE f[Len(left)]

\* The function StripLeadingNoise chooses.
Strips(words) == CHOOSE f : f = [n \in 0..Len(words) |-> Stripping(f, words, n)]

\* The last n words and what is left of them.
LEMMA LastWords ==
  ASSUME NEW S, NEW words \in Seq(S), NEW n \in 0..Len(words)
  PROVE  /\ From(words, Len(words) - n + 1) \in Seq(S)
         /\ Len(From(words, Len(words) - n + 1)) = n
         /\ From(words, Len(words) - n + 1) = <<>> <=> n = 0
         /\ n # 0 /\ AfterNoise(From(words, Len(words) - n + 1))
                        # From(words, Len(words) - n + 1)
            => Len(AfterNoise(From(words, Len(words) - n + 1))) \in 0..n - 1
<1> DEFINE i == Len(words) - n + 1
           last == From(words, i)
<1>1. i \in 1..Len(words) + 2 /\ i # Len(words) + 2 /\ Len(words) - i + 1 = n /\ n \in Nat
  OBVIOUS
<1> HIDE DEF i
<1>2. last \in Seq(S) /\ Len(last) = n
  BY <1>1, FromIs
<1> HIDE DEF last
<1>3. last = <<>> <=> n = 0
  BY <1>1, <1>2
<1>4. ASSUME n # 0, AfterNoise(last) # last
      PROVE  Len(AfterNoise(last)) \in 0..n - 1
  <2>1. AfterNoise(last) \in Ends(last)
    BY <1>2, <1>3, <1>4, AfterNoiseEnds
  <2>2. AfterNoise(last) \in Seq(S) /\ Len(AfterNoise(last)) < Len(last)
    BY <1>2, <1>4, <2>1, EndsOf
  <2>3. Len(AfterNoise(last)) \in Nat
    BY <2>2
  <2>4. QED
    BY <1>1, <1>2, <2>2, <2>3
<1>5. QED
  BY <1>2, <1>3, <1>4 DEF last, i

\* The function StripLeadingNoise recurs by exists, so it may be unfolded.
LEMMA StripsExist ==
  ASSUME NEW S, NEW words \in Seq(S)
  PROVE  \E f : f = [n \in 0..Len(words) |-> Stripping(f, words, n)]
<1> DEFINE L == Len(words)
           Good == {m \in Nat : m <= L => \E f : f = [n \in 0..m |-> Stripping(f, words, n)]}
<1>0. L \in Nat
  OBVIOUS
<1>1. ASSUME NEW f, NEW g, NEW n \in 0..L, \A j \in 0..n - 1 : f[j] = g[j]
      PROVE  Stripping(f, words, n) = Stripping(g, words, n)
  <2> DEFINE last == From(words, Len(words) - n + 1)
  <2>1. /\ last = <<>> <=> n = 0
        /\ n # 0 /\ AfterNoise(last) # last => Len(AfterNoise(last)) \in 0..n - 1
    BY LastWords
  <2>2. Stripping(f, words, n) =
            IF last = <<>> \/ AfterNoise(last) = last THEN last ELSE f[Len(AfterNoise(last))]
    BY DEF Stripping
  <2>3. Stripping(g, words, n) =
            IF last = <<>> \/ AfterNoise(last) = last THEN last ELSE g[Len(AfterNoise(last))]
    BY DEF Stripping
  <2> HIDE DEF last
  <2>4. QED
    BY <1>1, <2>1, <2>2, <2>3
<1> HIDE DEF L
<1>2. 0 \in Good
  <2> DEFINE f == [n \in 0..0 |-> Stripping(<<>>, words, n)]
  <2>1. ASSUME NEW n \in 0..0, 0 <= L
        PROVE  Stripping(<<>>, words, n) = Stripping(f, words, n)
    <3>1. n \in 0..L /\ 0..n - 1 = {}
      BY <1>0, <2>1
    <3> HIDE DEF f
    <3>2. QED
      BY <1>1, <3>1
  <2>2. 0 <= L => f = [n \in 0..0 |-> Stripping(f, words, n)]
    BY <2>1
  <2>3. QED
    BY <2>2
<1>3. ASSUME NEW m \in Nat, m \in Good PROVE m + 1 \in Good
  <2> SUFFICES ASSUME m + 1 <= L
               PROVE  \E f : f = [n \in 0..m + 1 |-> Stripping(f, words, n)]
    OBVIOUS
  <2>1. PICK f : f = [n \in 0..m |-> Stripping(f, words, n)]
    BY <1>0, <1>3
  <2> DEFINE g == [n \in 0..m + 1 |-> IF n = m + 1 THEN Stripping(f, words, n) ELSE f[n]]
  <2>2. \A j \in 0..m : f[j] = g[j]
    OBVIOUS
  <2>3. ASSUME NEW n \in 0..m + 1 PROVE g[n] = Stripping(g, words, n)
    <3>1. n \in 0..L /\ \A j \in 0..n - 1 : j \in 0..m
      BY <1>0
    <3>2. g[n] = Stripping(f, words, n)
      <4>1. CASE n = m + 1
        BY <4>1
      <4>2. CASE n # m + 1
        <5>1. n \in 0..m
          BY <4>2
        <5>2. f[n] = Stripping(f, words, n)
          BY <2>1, <5>1
        <5>3. QED
          BY <2>2, <5>1, <5>2
      <4>3. QED
        BY <4>1, <4>2
    <3> HIDE DEF g
    <3>3. Stripping(f, words, n) = Stripping(g, words, n)
      BY <1>1, <2>2, <3>1
    <3>4. QED
      BY <3>2, <3>3
  <2>4. g = [n \in 0..m + 1 |-> g[n]]
    OBVIOUS
  <2> HIDE DEF g
  <2>5. g = [n \in 0..m + 1 |-> Stripping(g, words, n)]
    BY <2>3, <2>4
  <2>6. QED
    BY <2>5
<1> HIDE DEF Good
<1>4. L \in Good
  BY <1>0, <1>2, <1>3, Induction
<1>5. QED
  BY <1>0, <1>4 DEF Good, L

\* What StripLeadingNoise does with the last n words.
LEMMA StripIs ==
  ASSUME NEW S, NEW words \in Seq(S)
  PROVE  /\ StripLeadingNoise(words) = Strips(words)[Len(words)]
         /\ \A n \in 0..Len(words) : Strips(words)[n] = Stripping(Strips(words), words, n)
<1> DEFINE f == Strips(words)
<1>1. f = [n \in 0..Len(words) |-> Stripping(f, words, n)]
  BY StripsExist DEF Strips
<1>2. StripLeadingNoise(words) = f[Len(words)]
  BY DEF StripLeadingNoise, Strips, Stripping
<1> HIDE DEF f
<1>3. \A n \in 0..Len(words) : f[n] = Stripping(f, words, n)
  BY <1>1
<1>4. QED
  BY <1>2, <1>3 DEF f

\* What is stripped of the words is stripped of what is left of them.
LEMMA StripOnce ==
  ASSUME NEW S, NEW words \in Seq(S), words # <<>>
  PROVE  /\ AfterNoise(words) = words => StripLeadingNoise(words) = words
         /\ StripLeadingNoise(words) = StripLeadingNoise(AfterNoise(words))
<1> DEFINE L == Len(words)
           v == AfterNoise(words)
           f == Strips(words)
           g == Strips(v)
<1>1. L \in Nat \ {0} /\ From(words, L - L + 1) = words /\ L \in 0..L
  <2>1. L \in Nat \ {0} /\ L - L + 1 = 1
    OBVIOUS
  <2>2. QED
    BY <2>1, FromFirst
<1>2. /\ StripLeadingNoise(words) = f[L]
      /\ \A n \in 0..L : f[n] = Stripping(f, words, n)
  BY StripIs
<1>3. f[L] = Stripping(f, words, L)
  BY <1>1, <1>2
<1>4. f[L] = IF words = <<>> \/ v = words THEN words ELSE f[Len(v)]
  BY <1>1, <1>3 DEF Stripping
<1>5. v \in Ends(words)
  BY AfterNoiseEnds
<1>6. PICK k \in 1..L + 1 : v = From(words, k)
  BY <1>5 DEF Ends
<1>7. v \in Seq(S) /\ (v = words \/ Len(v) < L)
  BY <1>5, EndsOf
<1> HIDE DEF f, g, v, L
<1>8. /\ StripLeadingNoise(v) = g[Len(v)]
      /\ \A n \in 0..Len(v) : g[n] = Stripping(g, v, n)
  BY <1>7, StripIs DEF g
<1>9. CASE v = words
  BY <1>2, <1>4, <1>9 DEF v
<1>10. CASE v # words
  <2> DEFINE Same == {n \in Nat : \A j \in 0..Len(v) : j <= n => f[j] = g[j]}
  <2>1. Len(v) \in Nat /\ Len(v) = L - k + 1
    <3>1. k \in 1..Len(words) + 2 /\ k # Len(words) + 2
      BY <1>1 DEF L
    <3>2. QED
      BY <3>1, <1>6, <1>7, FromIs DEF L
  <2>2. ASSUME NEW n \in 0..Len(v), \A j \in 0..Len(v) : j < n => f[j] = g[j]
        PROVE  f[n] = g[n]
    <3> DEFINE last == From(v, Len(v) - n + 1)
    <3>1. From(words, L - n + 1) = last
      <4>1. Len(v) - n + 1 \in 1..Len(words) - k + 2 /\ k + (Len(v) - n + 1) - 1 = L - n + 1
        BY <1>1, <2>1 DEF L
      <4>2. k \in 1..Len(words) + 1
        BY DEF L
      <4>3. From(From(words, k), Len(v) - n + 1) = From(words, k + (Len(v) - n + 1) - 1)
        BY <4>1, <4>2, FromFrom
      <4>4. QED
        BY <4>1, <4>3, <1>6
    <3>2. n \in 0..L
      BY <1>1, <2>1
    <3>3. /\ last = <<>> <=> n = 0
          /\ n # 0 /\ AfterNoise(last) # last => Len(AfterNoise(last)) \in 0..n - 1
      BY <1>7, LastWords
    <3>4. f[n] = IF last = <<>> \/ AfterNoise(last) = last THEN last ELSE f[Len(AfterNoise(last))]
      <4>1. f[n] = Stripping(f, words, n)
        BY <1>2, <3>2
      <4>2. QED
        BY <4>1, <3>1 DEF Stripping, L
    <3>5. g[n] = IF last = <<>> \/ AfterNoise(last) = last THEN last ELSE g[Len(AfterNoise(last))]
      BY <1>8 DEF Stripping
    <3> HIDE DEF last
    <3>6. \A j \in 0..n - 1 : j \in 0..Len(v) /\ j < n
      BY <2>1
    <3>7. QED
      BY <2>2, <3>3, <3>4, <3>5, <3>6
  <2>3. 0 \in Same
    <3>1. ASSUME NEW j \in 0..Len(v), j <= 0 PROVE f[j] = g[j]
      <4>1. \A i \in 0..Len(v) : ~(i < j)
        BY <2>1, <3>1
      <4>2. QED
        BY <2>2, <4>1
    <3>2. QED
      BY <3>1
  <2>4. ASSUME NEW n \in Nat, n \in Same PROVE n + 1 \in Same
    <3>1. ASSUME NEW j \in 0..Len(v), j <= n + 1 PROVE f[j] = g[j]
      <4>1. \A i \in 0..Len(v) : i < j => i <= n
        BY <2>1, <3>1
      <4>2. \A i \in 0..Len(v) : i < j => f[i] = g[i]
        BY <2>4, <4>1
      <4>3. QED
        BY <2>2, <4>2
    <3>2. QED
      BY <3>1
  <2> HIDE DEF Same
  <2>5. Len(v) \in Same
    BY <2>1, <2>3, <2>4, Induction
  <2>6. f[Len(v)] = g[Len(v)]
    BY <2>1, <2>5 DEF Same
  <2>7. QED
    BY <1>2, <1>4, <1>8, <1>10, <2>6 DEF v
<1>11. QED
  BY <1>9, <1>10

Skippable == Flags \union Assignments

\* How the classes of words overlap.
LEMMA Kinds ==
  /\ None \notin Skippable /\ None \notin Flags
  /\ "--" \in Flags /\ "--" \notin Assignments
  /\ \A a \in Assignments : a # "--" /\ a \notin Flags \union {"exec", "x"} \union Durations
BY Zenon DEF Skippable, None, Flags, Assignments, Durations

\* The wrappers, by name.
LEMMA WrapperNames ==
  DOMAIN FlagsWithArg = {"command", "env", "exec", "ionice", "nice", "nohup", "setsid",
                         "stdbuf", "sudo", "time", "timeout"}
BY DEF FlagsWithArg

\* No assignment names a command.
LEMMA AssignmentsRun ==
  \A a \in Assignments : Base(a) \notin DOMAIN FlagsWithArg /\ Base(a) # "mise"
<1>1. \A a \in Assignments : Base(a) = a
  BY Zenon DEF Assignments, Base, Directories
<1>2. QED
  BY <1>1, WrapperNames, Zenon DEF Assignments

\* The words of a command that somebody runs: assignments and then the name of
\* a command.
Begin(r, a) ==
    /\ a \in Nat /\ a + 1 \in DOMAIN r
    /\ \A i \in 1..a : r[i] \in Assignments
    /\ r[a + 1] \notin Skippable \union {"exec", "x"} \union Durations

Runs(r) == \E a \in Nat : Begin(r, a)

\* So the command does not begin with a flag.
LEMMA RunsBegins ==
  ASSUME NEW S, NEW r \in Seq(S), NEW a, Begin(r, a)
  PROVE  /\ a \in Nat /\ Len(r) \in Nat \ {0} /\ a + 1 \in 1..Len(r) /\ 1 \in DOMAIN r /\ r # <<>>
         /\ r[1] \notin Flags \union {"exec", "x"} \union Durations
<1>1. a \in Nat /\ Len(r) \in Nat \ {0} /\ a + 1 \in 1..Len(r) /\ DOMAIN r = 1..Len(r) /\ 1 \in DOMAIN r
      /\ r # <<>>
  <2>1. a \in Nat /\ a + 1 \in 1..Len(r) /\ Len(r) \in Nat /\ DOMAIN r = 1..Len(r)
    BY DEF Begin
  <2>2. Len(r) # 0 /\ 1 \in 1..Len(r)
    BY <2>1
  <2>3. QED
    BY <2>1, <2>2
<1>2. CASE a = 0
  <2>1. r[1] \notin Skippable \union {"exec", "x"} \union Durations
    BY <1>2 DEF Begin
  <2>2. QED
    BY <1>1, <2>1 DEF Skippable
<1>3. CASE a # 0
  <2>1. 1 \in 1..a
    BY <1>1, <1>3
  <2>2. r[1] \in Assignments
    BY <2>1 DEF Begin
  <2>3. QED
    BY <1>1, <2>2, Kinds
<1>4. QED
  BY <1>2, <1>3

\* Assignments are stripped one by one.
LEMMA StripAssignments ==
  ASSUME NEW S, NEW r \in Seq(S), NEW a, Begin(r, a)
  PROVE  StripLeadingNoise(From(r, a + 1)) = StripLeadingNoise(r)
<1> DEFINE Good == {j \in Nat : j <= a => StripLeadingNoise(From(r, j + 1)) = StripLeadingNoise(r)}
<1>1. a \in Nat /\ Len(r) \in Nat /\ a + 1 \in 1..Len(r)
  BY RunsBegins
<1>2. 0 \in Good
  <2>1. From(r, 0 + 1) = r
    BY FromFirst
  <2>2. QED
    BY <2>1
<1>3. ASSUME NEW j \in Nat, j \in Good PROVE j + 1 \in Good
  <2> SUFFICES ASSUME j + 1 <= a
               PROVE  StripLeadingNoise(From(r, (j + 1) + 1)) = StripLeadingNoise(r)
    OBVIOUS
  <2> DEFINE v == From(r, j + 1)
  <2>1. StripLeadingNoise(v) = StripLeadingNoise(r)
    BY <1>1, <1>3
  <2>2. j + 1 \in 1..Len(r) + 2 /\ j + 1 # Len(r) + 2 /\ 1 \in 1..Len(r) - (j + 1) + 1
        /\ j + 1 + 1 - 1 = j + 1 /\ j + 1 \in 1..a
    BY <1>1
  <2>3. v \in Seq(S) /\ Len(v) = Len(r) - (j + 1) + 1 /\ v[1] = r[j + 1]
    <3>1. v \in Seq(S) /\ Len(v) = Len(r) - (j + 1) + 1
      BY <2>2, FromIs
    <3>2. v[1] = r[j + 1 + 1 - 1]
      BY <2>2, FromIs
    <3>3. QED
      BY <3>1, <3>2, <2>2
  <2>4. v[1] \in Assignments
    BY <2>2, <2>3 DEF Begin
  <2>5. From(v, 2) = From(r, (j + 1) + 1)
    <3>1. j + 1 \in 1..Len(r) + 1 /\ 2 \in 1..Len(r) - (j + 1) + 2 /\ (j + 1) + 2 - 1 = (j + 1) + 1
      BY <1>1
    <3>2. QED
      BY <3>1, FromFrom
  <2> HIDE DEF v
  <2>6. v # <<>> /\ Tail(v) = From(v, 2)
    <3>1. v # <<>>
      BY <2>2, <2>3
    <3>2. QED
      BY <3>1, <2>3, FromFirst
  <2>7. AfterNoise(v) = Tail(v)
    BY <2>4, AssignmentsRun, Zenon DEF AfterNoise
  <2>8. StripLeadingNoise(v) = StripLeadingNoise(AfterNoise(v))
    BY <2>3, <2>6, StripOnce
  <2>9. QED
    BY <2>1, <2>5, <2>6, <2>7, <2>8
<1> HIDE DEF Good
<1>4. a \in Good
  BY <1>1, <1>2, <1>3, Induction
<1>5. QED
  BY <1>1, <1>4 DEF Good

\* The scan for flags also skips the assignments that follow.
LEMMA SkipAssignments ==
  ASSUME NEW S, NEW u \in Seq(S), NEW r \in Seq(S), NEW a, Begin(r, a),
         NEW takesNext, takesNext \intersect Assignments = {}
  PROVE  Skips(u \o r, Skippable, takesNext)[Len(u) + 1] = From(r, a + 1)
<1> DEFINE w == u \o r
           n == Len(u)
           f == Skips(w, Skippable, takesNext)
           Good == {j \in Nat : j <= a => f[n + 1 + j] = f[n + 1]}
<1>1. /\ w \in Seq(S) /\ n \in Nat /\ Len(r) \in Nat /\ Len(w) = n + Len(r)
      /\ \A k \in 1..Len(r) : w[n + k] = r[k] /\ At(w, n + k) = r[k]
  BY ConcatAt
<1>2. a \in Nat /\ a + 1 \in 1..Len(r)
  BY RunsBegins
<1>3. From(w, n + (a + 1)) = From(r, a + 1)
  <2>1. a + 1 \in 1..Len(r) + 1
    BY <1>1, <1>2
  <2>2. QED
    BY <2>1, FromConcat
<1> HIDE DEF w, n
<1>4. \A i \in 1..Len(w) + 2 :
        /\ At(w, i) \notin Skippable => f[i] = From(w, i)
        /\ At(w, i) \in Skippable /\ w[i] # "--" =>
               f[i] = f[IF w[i] \in takesNext THEN i + 2 ELSE i + 1]
  <2>1. w \in Seq(S)
    BY <1>1
  <2>2. None \notin Skippable
    BY Kinds
  <2>3. QED
    BY <2>1, <2>2, AfterFlagsScans
<1> HIDE DEF f
<1>5. 0 \in Good
  <2>1. n + 1 + 0 = n + 1
    BY <1>1
  <2>2. QED
    BY <2>1
<1>6. ASSUME NEW j \in Nat, j \in Good PROVE j + 1 \in Good
  <2> SUFFICES ASSUME j + 1 <= a PROVE f[n + 1 + (j + 1)] = f[n + 1]
    OBVIOUS
  <2>1. /\ n + 1 + j \in 1..Len(w) + 2 /\ j + 1 \in 1..Len(r) /\ n + (j + 1) = n + 1 + j
        /\ n + 1 + j + 1 = n + 1 + (j + 1) /\ j + 1 \in 1..a
    BY <1>1, <1>2
  <2>2. w[n + 1 + j] = r[j + 1] /\ At(w, n + 1 + j) = r[j + 1]
    BY <1>1, <2>1
  <2>3. r[j + 1] \in Assignments
    BY <2>1 DEF Begin
  <2>4. r[j + 1] \in Skippable /\ r[j + 1] # "--" /\ r[j + 1] \notin takesNext
    BY <2>3, Kinds DEF Skippable
  <2>5. f[n + 1 + j] = f[n + 1 + j + 1]
    BY <1>4, <2>1, <2>2, <2>4
  <2>6. f[n + 1 + j] = f[n + 1]
    BY <1>2, <1>6
  <2>7. QED
    BY <2>1, <2>5, <2>6
<1> HIDE DEF Good
<1>7. a \in Good
  BY <1>2, <1>5, <1>6, Induction
<1>8. f[n + 1 + a] = f[n + 1]
  BY <1>2, <1>7 DEF Good
<1>9. n + 1 + a \in 1..Len(w) + 2 /\ n + (a + 1) = n + 1 + a
  BY <1>1, <1>2
<1>10. At(w, n + 1 + a) \notin Skippable
  BY <1>1, <1>2, <1>9 DEF Begin
<1>11. f[n + 1 + a] = From(w, n + 1 + a)
  BY <1>4, <1>9, <1>10
<1>12. QED
  BY <1>3, <1>8, <1>9, <1>11 DEF f, w, n

\* Their flags that take the next word.
LEMMA WrapperFlags ==
  /\ FlagsWithArg["command"] = {} /\ FlagsWithArg["stdbuf"] = {"-i", "-o", "-e"}
  /\ FlagsWithArg["env"] = {"-u", "-C"} /\ FlagsWithArg["nice"] = {"-n"}
  /\ FlagsWithArg["sudo"] = {"-u", "-g", "-C", "-p", "-r", "-t"}
  /\ FlagsWithArg["time"] = {"-o", "-f"} /\ FlagsWithArg["timeout"] = {"-s", "-k"}
BY DEF FlagsWithArg

WrapWords ==
    {"X=1", "LEFTHOOK=0", "/bin/env", "-i", "env", "-u", "HOME", "sudo", "bob", "--",
     "timeout", "-s", "KILL", "5s", "nice", "-n", "5", "command", "mise", "exec",
     "stdbuf", "-oL", "time", "-f", "%e",
     "git", "commit", "--no-verify", "/bin/git", "-C", "repo", "push", "config",
     "core.bare", "true", "-c", "k=v", "core.bare=true", "--git-dir", "log", "--get",
     "echo"}

\* All of u is skipped as the flags of a command and their arguments.
Flagged(u, takesNext) ==
    \/ u = <<>>
    \/ \E a \in Skippable \ (takesNext \union {"--"}) : u = <<a>>
    \/ \E a \in Skippable \intersect takesNext, b \in WrapWords : a # "--" /\ u = <<a, b>>
    \/ \E a, b \in Skippable \ (takesNext \union {"--"}) : u = <<a, b>>
    \/ \E a \in Skippable \intersect takesNext, b \in WrapWords,
          c \in Skippable \ (takesNext \union {"--"}) : a # "--" /\ u = <<a, b, c>>

\* Such words are skipped.
LEMMA FlaggedSkips ==
  ASSUME NEW u \in Seq(WrapWords), NEW r \in Seq(WrapWords), NEW takesNext, Flagged(u, takesNext)
  PROVE  AfterFlags(u \o r, Skippable, takesNext) = Skips(u \o r, Skippable, takesNext)[Len(u) + 1]
<1> DEFINE w == u \o r
           n == Len(u)
           f == Skips(w, Skippable, takesNext)
<1>1. /\ w \in Seq(WrapWords) /\ n \in Nat /\ Len(r) \in Nat /\ Len(w) = n + Len(r)
      /\ \A k \in 1..n : w[k] = u[k] /\ At(w, k) = u[k]
  BY ConcatAt
<1> HIDE DEF w
<1>2. /\ AfterFlags(w, Skippable, takesNext) = f[1]
      /\ \A i \in 1..Len(w) + 2 :
            At(w, i) \in Skippable /\ w[i] # "--" =>
                f[i] = f[IF w[i] \in takesNext THEN i + 2 ELSE i + 1]
  BY <1>1, Kinds, AfterFlagsScans
<1> HIDE DEF f
<1>3. ASSUME NEW i \in 1..n, u[i] \in Skippable \ (takesNext \union {"--"}) PROVE f[i] = f[i + 1]
  <2>1. i \in 1..Len(w) + 2
    BY <1>1
  <2>2. QED
    BY <1>1, <1>2, <1>3, <2>1
<1>4. ASSUME NEW i \in 1..n, u[i] \in Skippable, u[i] # "--", u[i] \in takesNext PROVE f[i] = f[i + 2]
  <2>1. i \in 1..Len(w) + 2
    BY <1>1
  <2>2. QED
    BY <1>1, <1>2, <1>4, <2>1
<1>5. CASE u = <<>>
  <2>1. n = 0
    BY <1>5
  <2>2. QED
    BY <1>2, <2>1 DEF f, w, n
<1>6. CASE \E a \in Skippable \ (takesNext \union {"--"}) : u = <<a>>
  <2>1. n = 1 /\ u[1] \in Skippable \ (takesNext \union {"--"})
    BY <1>6
  <2>2. f[1] = f[2]
    BY <1>3, <2>1
  <2>3. QED
    BY <1>2, <2>1, <2>2 DEF f, w, n
<1>7. CASE \E a \in Skippable \intersect takesNext, b \in WrapWords : a # "--" /\ u = <<a, b>>
  <2>1. n = 2 /\ u[1] \in Skippable /\ u[1] \in takesNext /\ u[1] # "--"
    BY <1>7
  <2>2. f[1] = f[3]
    BY <1>4, <2>1
  <2>3. QED
    BY <1>2, <2>1, <2>2 DEF f, w, n
<1>8. CASE \E a, b \in Skippable \ (takesNext \union {"--"}) : u = <<a, b>>
  <2>1. n = 2 /\ u[1] \in Skippable \ (takesNext \union {"--"})
        /\ u[2] \in Skippable \ (takesNext \union {"--"})
    BY <1>8
  <2>2. f[1] = f[2] /\ f[2] = f[3]
    BY <1>3, <2>1
  <2>3. QED
    BY <1>2, <2>1, <2>2 DEF f, w, n
<1>9. CASE \E a \in Skippable \intersect takesNext, b \in WrapWords,
              c \in Skippable \ (takesNext \union {"--"}) : a # "--" /\ u = <<a, b, c>>
  <2>1. n = 3 /\ u[1] \in Skippable /\ u[1] \in takesNext /\ u[1] # "--"
        /\ u[3] \in Skippable \ (takesNext \union {"--"})
    BY <1>9
  <2>2. f[1] = f[3] /\ f[3] = f[4]
    BY <1>3, <1>4, <2>1
  <2>3. QED
    BY <1>2, <2>1, <2>2 DEF f, w, n
<1>10. QED
  BY <1>5, <1>6, <1>7, <1>8, <1>9 DEF Flagged

\* A word, some more and a command.
LEMMA PrependIs ==
  ASSUME NEW S, NEW h \in S, NEW u \in Seq(S), NEW r \in Seq(S)
  PROVE  /\ (<<h>> \o u) \o r \in Seq(S) /\ (<<h>> \o u) \o r # <<>>
         /\ ((<<h>> \o u) \o r)[1] = h /\ Tail((<<h>> \o u) \o r) = u \o r
<1> DEFINE a == <<h>> \o u
<1>1. <<h>> \in Seq(S) /\ <<h>> # <<>> /\ Tail(<<h>>) = <<>> /\ <<h>>[1] = h
  OBVIOUS
<1>2. a \in Seq(S)
  BY <1>1, ConcatProperties
<1>3. Tail(a) = <<>> \o u /\ a # <<>> /\ a[1] = h
  BY <1>1, TailConcat
<1>4. <<>> \o u = u
  OBVIOUS
<1> HIDE DEF a
<1>5. a \o r \in Seq(S) /\ Tail(a \o r) = u \o r /\ a \o r # <<>> /\ (a \o r)[1] = h
  <2>1. a \in Seq(S) /\ r \in Seq(S) /\ a # <<>>
    BY <1>2, <1>3
  <2>2. Tail(a \o r) = Tail(a) \o r /\ a \o r # <<>> /\ (a \o r)[1] = a[1]
    BY <2>1, TailConcat
  <2>3. a \o r \in Seq(S)
    BY <2>1, ConcatProperties
  <2>4. QED
    BY <1>3, <1>4, <2>2, <2>3
<1>6. QED
  BY <1>5 DEF a

\* A wrapper and its flags change nothing about what is stripped to.
LEMMA WrapperStripped ==
  ASSUME NEW h \in WrapWords, Base(h) \in DOMAIN FlagsWithArg, Base(h) # "timeout",
         h \notin Assignments,
         NEW u \in Seq(WrapWords), Flagged(u, FlagsWithArg[Base(h)]),
         FlagsWithArg[Base(h)] \intersect Assignments = {},
         NEW r \in Seq(WrapWords), Runs(r)
  PROVE  StripLeadingNoise((<<h>> \o u) \o r) = StripLeadingNoise(r)
<1> DEFINE w == (<<h>> \o u) \o r
           takesNext == FlagsWithArg[Base(h)]
<1>1. w \in Seq(WrapWords) /\ w # <<>> /\ w[1] = h /\ Tail(w) = u \o r
  BY PrependIs, SMTT(60)
<1> HIDE DEF w
<1>2. PICK a : Begin(r, a)
  BY DEF Runs
<1>3. AfterNoise(w) = AfterDuration(Base(h), AfterFlags(u \o r, Flags \union Assignments, takesNext))
  <2> DEFINE h1 == Base(h)
             left == AfterDuration(h1, AfterFlags(u \o r, Flags \union Assignments, FlagsWithArg[h1]))
  <2>1. AfterNoise(w) = CASE h \in Assignments -> u \o r
                          [] h1 \in DOMAIN FlagsWithArg -> left
                          [] h1 = "mise" -> AfterMise(u \o r)
                          [] OTHER -> w
    BY <1>1 DEF AfterNoise
  <2>2. h1 \in DOMAIN FlagsWithArg /\ h \notin Assignments /\ h1 # "mise"
    BY WrapperNames
  <2> HIDE DEF left, h1
  <2>3. AfterNoise(w) = left
    BY <2>1, <2>2, Zenon
  <2>4. QED
    BY <2>3 DEF left, h1
<1>4. AfterNoise(w) = AfterFlags(u \o r, Skippable, takesNext)
  BY <1>3 DEF AfterDuration, Skippable
<1> HIDE DEF takesNext
<1>5. AfterFlags(u \o r, Skippable, takesNext) = From(r, a + 1)
  <2>1. Flagged(u, takesNext) /\ takesNext \intersect Assignments = {}
    BY DEF takesNext
  <2>2. QED
    BY <1>2, <2>1, FlaggedSkips, SkipAssignments
<1>6. StripLeadingNoise(w) = StripLeadingNoise(AfterNoise(w))
  BY <1>1, StripOnce
<1>7. StripLeadingNoise(From(r, a + 1)) = StripLeadingNoise(r)
  BY <1>2, StripAssignments
<1>8. QED
  BY <1>4, <1>5, <1>6, <1>7 DEF w

\* The commands the wrappers run by.
LEMMA BaseOf ==
  /\ Base("/bin/env") = "env" /\ Base("env") = "env" /\ Base("nice") = "nice"
  /\ Base("command") = "command" /\ Base("stdbuf") = "stdbuf" /\ Base("time") = "time"
  /\ Base("sudo") = "sudo" /\ Base("timeout") = "timeout" /\ Base("mise") = "mise"
BY Zenon DEF Base, Directories

Heads == {"/bin/env", "env", "nice", "command", "stdbuf", "time", "sudo", "timeout", "mise"}

\* None of them is a flag, an assignment or a duration.
LEMMA HeadsRun ==
  \A h \in Heads : /\ h \in WrapWords /\ h \notin Assignments
                   /\ h \notin Skippable \union {"exec", "x"} \union Durations
<1>1. \A h \in Heads : h \in WrapWords
  BY DEF Heads, WrapWords
<1>2. \A h \in Heads : h \notin Assignments
  BY Zenon DEF Heads, Assignments
<1>3. \A h \in Heads : h \notin Flags
  BY Zenon DEF Heads, Flags
<1>4. \A h \in Heads : h \notin {"exec", "x"} \union Durations
  BY Zenon DEF Heads, Durations
<1>5. QED
  BY <1>1, <1>2, <1>3, <1>4 DEF Skippable

\* What may be put before a command that somebody runs is one too.
LEMMA HeadRuns ==
  ASSUME NEW h \in Heads, NEW u \in Seq(WrapWords), NEW r \in Seq(WrapWords)
  PROVE  Runs((<<h>> \o u) \o r)
<1> DEFINE w == (<<h>> \o u) \o r
<1>1. w \in Seq(WrapWords) /\ w # <<>> /\ w[1] = h
  BY HeadsRun, PrependIs
<1>2. h \notin Skippable \union {"exec", "x"} \union Durations
  BY HeadsRun
<1> HIDE DEF w
<1>3. 1 \in DOMAIN w
  BY <1>1
<1>4. Begin(w, 0)
  BY <1>1, <1>2, <1>3 DEF Begin
<1>5. Runs(w)
  BY <1>4 DEF Runs
<1>6. QED
  BY <1>5 DEF w

\* An assignment in front of a command that somebody runs is stripped.
LEMMA AssignmentStripped ==
  ASSUME NEW x \in Assignments, x \in WrapWords, NEW r \in Seq(WrapWords), Runs(r)
  PROVE  StripLeadingNoise(<<x>> \o r) = StripLeadingNoise(r) /\ Runs(<<x>> \o r)
<1> DEFINE t == <<x>>
           w == t \o r
<1>1. t \in Seq(WrapWords) /\ t # <<>> /\ Tail(t) = <<>> /\ t[1] = x /\ Len(t) = 1
  OBVIOUS
<1>2. <<>> \o r = r
  OBVIOUS
<1> HIDE DEF t
<1>3. w \in Seq(WrapWords) /\ w # <<>> /\ w[1] = x /\ Tail(w) = r
  <2>1. Tail(w) = Tail(t) \o r /\ w # <<>> /\ w[1] = t[1]
    BY <1>1, TailConcat
  <2>2. w \in Seq(WrapWords)
    BY <1>1, ConcatProperties
  <2>3. QED
    BY <1>1, <1>2, <2>1, <2>2
<1>4. /\ Len(r) \in Nat /\ Len(w) = 1 + Len(r)
      /\ \A k \in 1..Len(r) : w[1 + k] = r[k]
  <2>1. /\ Len(r) \in Nat /\ Len(w) = Len(t) + Len(r)
        /\ \A k \in 1..Len(r) : w[Len(t) + k] = r[k]
    <3>1. t \in Seq(WrapWords)
      BY <1>1
    <3>2. QED
      BY <3>1, ConcatAt
  <2> HIDE DEF w
  <2>2. QED
    BY <1>1, <2>1
<1> HIDE DEF w
<1>5. AfterNoise(w) = r
  BY <1>3, AssignmentsRun, Zenon DEF AfterNoise
<1>6. StripLeadingNoise(w) = StripLeadingNoise(r)
  BY <1>3, <1>5, StripOnce
<1>7. Runs(w)
  <2>1. PICK a : Begin(r, a)
    BY DEF Runs
  <2>2. a \in Nat /\ a + 1 \in 1..Len(r)
    BY <2>1, RunsBegins
  <2>3. a + 1 \in Nat /\ (a + 1) + 1 \in DOMAIN w /\ w[(a + 1) + 1] = r[a + 1]
    <3>1. (a + 1) + 1 \in 1..1 + Len(r) /\ 1 + (a + 1) = (a + 1) + 1 /\ a + 1 \in Nat
      BY <1>4, <2>2
    <3>2. DOMAIN w = 1..1 + Len(r)
      BY <1>3, <1>4
    <3>3. QED
      BY <1>4, <2>2, <3>1, <3>2
  <2>4. ASSUME NEW i \in 1..a + 1 PROVE w[i] \in Assignments
    <3>1. CASE i = 1
      BY <1>3, <3>1
    <3>2. CASE i # 1
      <4>1. i - 1 \in 1..Len(r) /\ i - 1 \in 1..a /\ 1 + (i - 1) = i
        BY <1>4, <2>2, <3>2
      <4>2. w[i] = r[i - 1]
        BY <1>4, <4>1
      <4>3. QED
        BY <2>1, <4>1, <4>2 DEF Begin
    <3>3. QED
      BY <3>1, <3>2
  <2>5. r[a + 1] \notin Skippable \union {"exec", "x"} \union Durations
    BY <2>1 DEF Begin
  <2>6. Begin(w, a + 1)
    BY <2>3, <2>4, <2>5 DEF Begin
  <2>7. QED
    BY <2>3, <2>6 DEF Runs
<1>8. QED
  BY <1>6, <1>7 DEF w, t

\* So is sudo with its user and the end of its flags,
LEMMA SudoStripped ==
  ASSUME NEW r \in Seq(WrapWords), Runs(r)
  PROVE  StripLeadingNoise((<<"sudo">> \o <<"-u", "bob", "--">>) \o r) = StripLeadingNoise(r)
<1> DEFINE u == <<"-u", "bob", "--">>
           w == (<<"sudo">> \o u) \o r
           v == u \o r
           takesNext == FlagsWithArg["sudo"]
           f == Skips(v, Skippable, takesNext)
<1>1. u \in Seq(WrapWords) /\ Len(u) = 3 /\ u[1] = "-u" /\ u[2] = "bob" /\ u[3] = "--"
  BY DEF WrapWords
<1>2. "sudo" \in WrapWords /\ "sudo" \in DOMAIN FlagsWithArg /\ "sudo" \notin Assignments
  BY HeadsRun, WrapperNames DEF Heads
<1> HIDE DEF u
<1>3. w \in Seq(WrapWords) /\ w # <<>> /\ w[1] = "sudo" /\ Tail(w) = v
  <2>1. u \in Seq(WrapWords) /\ "sudo" \in WrapWords
    BY <1>1, <1>2
  <2>2. QED
    BY <2>1, PrependIs, SMTT(30)
<1>4. /\ v \in Seq(WrapWords) /\ Len(r) \in Nat /\ Len(v) = 3 + Len(r)
      /\ \A k \in 1..3 : v[k] = u[k] /\ At(v, k) = u[k]
  <2>1. /\ v \in Seq(WrapWords) /\ Len(r) \in Nat /\ Len(v) = Len(u) + Len(r)
        /\ \A k \in 1..Len(u) : v[k] = u[k] /\ At(v, k) = u[k]
    <3>1. u \in Seq(WrapWords)
      BY <1>1
    <3>2. QED
      BY <3>1, ConcatAt
  <2> HIDE DEF v
  <2>2. QED
    BY <1>1, <2>1
<1>5. From(v, 4) = r
  <2>1. 1 \in 1..Len(r) + 1
    BY <1>4
  <2>2. From(v, Len(u) + 1) = From(r, 1)
    BY <1>1, <2>1, FromConcat
  <2>3. QED
    BY <1>1, <2>2, FromFirst
<1> HIDE DEF w, v
<1>6. AfterNoise(w) = AfterFlags(v, Skippable, takesNext)
  <2>1. AfterNoise(w) = AfterDuration("sudo", AfterFlags(v, Flags \union Assignments, takesNext))
    BY <1>2, <1>3, BaseOf, Zenon DEF AfterNoise
  <2>2. "sudo" # "timeout"
    OBVIOUS
  <2>3. QED
    BY <2>1, <2>2, Zenon DEF AfterDuration, Skippable
<1>7. "-u" \in Skippable /\ "-u" \in takesNext /\ "-u" # "--" /\ "--" \in Skippable
  BY WrapperFlags DEF Skippable, Flags
<1> HIDE DEF takesNext
<1>8. /\ AfterFlags(v, Skippable, takesNext) = f[1]
      /\ \A i \in 1..Len(v) + 2 :
           /\ At(v, i) \in Skippable /\ v[i] = "--" => f[i] = From(v, i + 1)
           /\ At(v, i) \in Skippable /\ v[i] # "--" =>
                f[i] = f[IF v[i] \in takesNext THEN i + 2 ELSE i + 1]
  BY <1>4, Kinds, AfterFlagsScans
<1> HIDE DEF f
<1>9. f[1] = f[3]
  <2>1. 1 \in 1..Len(v) + 2 /\ 1 \in 1..3 /\ 1 + 2 = 3
    BY <1>4
  <2>2. v[1] = "-u" /\ At(v, 1) = "-u"
    BY <1>1, <1>4
  <2>3. f[1] = f[1 + 2]
    BY <1>7, <1>8, <2>1, <2>2
  <2>4. QED
    BY <2>3
<1>10. f[3] = From(v, 4)
  <2>1. 3 \in 1..Len(v) + 2 /\ 3 \in 1..3 /\ 3 + 1 = 4
    BY <1>4
  <2>2. v[3] = "--" /\ At(v, 3) = "--"
    BY <1>1, <1>4
  <2>3. f[3] = From(v, 3 + 1)
    BY <1>7, <1>8, <2>1, <2>2
  <2>4. QED
    BY <2>3
<1>11. StripLeadingNoise(w) = StripLeadingNoise(r)
  BY <1>3, <1>5, <1>6, <1>8, <1>9, <1>10, StripOnce
<1>12. QED
  BY <1>11 DEF w, u

\* timeout with its signal and its duration,
LEMMA TimeoutStripped ==
  ASSUME NEW r \in Seq(WrapWords), Runs(r)
  PROVE  StripLeadingNoise((<<"timeout">> \o <<"-s", "KILL", "5s">>) \o r) = StripLeadingNoise(r)
<1> DEFINE u == <<"-s", "KILL", "5s">>
           w == (<<"timeout">> \o u) \o r
           v == u \o r
           d == From(v, 3)
           takesNext == FlagsWithArg["timeout"]
           f == Skips(v, Skippable, takesNext)
<1>1. u \in Seq(WrapWords) /\ Len(u) = 3 /\ u[1] = "-s" /\ u[2] = "KILL" /\ u[3] = "5s"
  BY DEF WrapWords
<1>2. "timeout" \in WrapWords /\ "timeout" \in DOMAIN FlagsWithArg /\ "timeout" \notin Assignments
  BY HeadsRun, WrapperNames DEF Heads
<1> HIDE DEF u
<1>3. w \in Seq(WrapWords) /\ w # <<>> /\ w[1] = "timeout" /\ Tail(w) = v
  <2>1. u \in Seq(WrapWords) /\ "timeout" \in WrapWords
    BY <1>1, <1>2
  <2>2. QED
    BY <2>1, PrependIs, SMTT(30)
<1>4. /\ v \in Seq(WrapWords) /\ Len(r) \in Nat /\ Len(v) = 3 + Len(r)
      /\ \A k \in 1..3 : v[k] = u[k] /\ At(v, k) = u[k]
  <2>1. /\ v \in Seq(WrapWords) /\ Len(r) \in Nat /\ Len(v) = Len(u) + Len(r)
        /\ \A k \in 1..Len(u) : v[k] = u[k] /\ At(v, k) = u[k]
    <3>1. u \in Seq(WrapWords)
      BY <1>1
    <3>2. QED
      BY <3>1, ConcatAt
  <2> HIDE DEF v
  <2>2. QED
    BY <1>1, <2>1
<1>5. From(v, 4) = r
  <2>1. 1 \in 1..Len(r) + 1
    BY <1>4
  <2>2. From(v, Len(u) + 1) = From(r, 1)
    BY <1>1, <2>1, FromConcat
  <2>3. QED
    BY <1>1, <2>2, FromFirst
<1> HIDE DEF w, v
<1>6. d # <<>> /\ d[1] = "5s" /\ Tail(d) = r
  <2>1. /\ 3 \in 1..Len(v) + 2 /\ 3 # Len(v) + 2 /\ 1 \in 1..Len(v) - 3 + 1 /\ 3 + 1 - 1 = 3
        /\ 3 \in 1..Len(v) + 1 /\ 2 \in 1..Len(v) - 3 + 2 /\ 3 + 2 - 1 = 4 /\ Len(v) - 3 + 1 # 0
        /\ 3 \in 1..3
    BY <1>4
  <2>2. d \in Seq(WrapWords) /\ Len(d) = Len(v) - 3 + 1 /\ d[1] = v[3]
    <3>1. d \in Seq(WrapWords) /\ Len(d) = Len(v) - 3 + 1
      BY <1>4, <2>1, FromIs
    <3>2. d[1] = v[3 + 1 - 1]
      BY <1>4, <2>1, FromIs
    <3>3. QED
      BY <3>1, <3>2, <2>1
  <2>3. From(d, 2) = r
    <3>1. From(d, 2) = From(v, 3 + 2 - 1)
      BY <1>4, <2>1, FromFrom
    <3>2. QED
      BY <1>5, <2>1, <3>1
  <2> HIDE DEF d
  <2>4. d # <<>>
    BY <2>1, <2>2
  <2>5. Tail(d) = From(d, 2)
    BY <2>2, <2>4, FromFirst
  <2>6. QED
    BY <1>1, <1>4, <2>1, <2>2, <2>3, <2>4, <2>5
<1>7. "-s" \in Skippable /\ "-s" \in takesNext /\ "-s" # "--" /\ "5s" \notin Skippable /\ "5s" \in Durations
  BY WrapperFlags DEF Skippable, Flags, Assignments, Durations
<1>8. AfterNoise(w) = AfterDuration("timeout", AfterFlags(v, Skippable, takesNext))
  BY <1>2, <1>3, BaseOf, Zenon DEF AfterNoise, Skippable
<1> HIDE DEF takesNext
<1>9. /\ AfterFlags(v, Skippable, takesNext) = f[1]
      /\ \A i \in 1..Len(v) + 2 :
           /\ At(v, i) \notin Skippable => f[i] = From(v, i)
           /\ At(v, i) \in Skippable /\ v[i] # "--" =>
                f[i] = f[IF v[i] \in takesNext THEN i + 2 ELSE i + 1]
  BY <1>4, Kinds, AfterFlagsScans
<1> HIDE DEF f
<1>10. f[1] = f[3]
  <2>1. 1 \in 1..Len(v) + 2 /\ 1 \in 1..3 /\ 1 + 2 = 3
    BY <1>4
  <2>2. v[1] = "-s" /\ At(v, 1) = "-s"
    BY <1>1, <1>4
  <2>3. f[1] = f[1 + 2]
    BY <1>7, <1>9, <2>1, <2>2
  <2>4. QED
    BY <2>3
<1>11. f[3] = d
  <2>1. 3 \in 1..Len(v) + 2 /\ 3 \in 1..3
    BY <1>4
  <2>2. At(v, 3) = "5s"
    BY <1>1, <1>4
  <2>3. QED
    BY <1>7, <1>9, <2>1, <2>2
<1>12. AfterNoise(w) = r
  <2>1. AfterFlags(v, Skippable, takesNext) = d
    BY <1>9, <1>10, <1>11
  <2> HIDE DEF d
  <2>2. AfterDuration("timeout", d) = r
    BY <1>6, <1>7, Zenon DEF AfterDuration
  <2>3. QED
    BY <1>8, <2>1, <2>2
<1>13. StripLeadingNoise(w) = StripLeadingNoise(r)
  BY <1>3, <1>12, StripOnce
<1>14. QED
  BY <1>13 DEF w, u

\* and mise, which skips exec and the flags without looking at their arguments.
LEMMA MiseStripped ==
  ASSUME NEW r \in Seq(WrapWords), Runs(r)
  PROVE  StripLeadingNoise((<<"mise">> \o <<"exec", "--">>) \o r) = StripLeadingNoise(r)
<1> DEFINE u == <<"exec", "--">>
           w == (<<"mise">> \o u) \o r
           v == u \o r
           others == {i \in DOMAIN v : v[i] \notin Flags \union {"exec", "x"}}
<1>1. u \in Seq(WrapWords) /\ Len(u) = 2 /\ u[1] = "exec" /\ u[2] = "--"
  BY DEF WrapWords
<1>2. "mise" \in WrapWords /\ "mise" \notin DOMAIN FlagsWithArg /\ "mise" \notin Assignments
  BY HeadsRun, WrapperNames DEF Heads
<1> HIDE DEF u
<1>3. w \in Seq(WrapWords) /\ w # <<>> /\ w[1] = "mise" /\ Tail(w) = v
  <2>1. u \in Seq(WrapWords) /\ "mise" \in WrapWords
    BY <1>1, <1>2
  <2>2. QED
    BY <2>1, PrependIs, SMTT(30)
<1>4. /\ v \in Seq(WrapWords) /\ Len(r) \in Nat /\ Len(v) = 2 + Len(r)
      /\ \A k \in 1..2 : v[k] = u[k]
      /\ \A k \in 1..Len(r) : v[2 + k] = r[k]
  <2>1. /\ v \in Seq(WrapWords) /\ Len(r) \in Nat /\ Len(v) = Len(u) + Len(r)
        /\ \A k \in 1..Len(u) : v[k] = u[k]
        /\ \A k \in 1..Len(r) : v[Len(u) + k] = r[k]
    <3>1. u \in Seq(WrapWords)
      BY <1>1
    <3>2. QED
      BY <3>1, ConcatAt
  <2> HIDE DEF v
  <2>2. QED
    BY <1>1, <2>1
<1>5. From(v, 3) = r
  <2>1. 1 \in 1..Len(r) + 1
    BY <1>4
  <2>2. From(v, Len(u) + 1) = From(r, 1)
    BY <1>1, <2>1, FromConcat
  <2>3. QED
    BY <1>1, <2>2, FromFirst
<1> HIDE DEF w, v
<1>6. 1 \in 1..Len(r) /\ r[1] \notin Flags \union {"exec", "x"}
  <2>1. PICK a : Begin(r, a)
    BY DEF Runs
  <2>2. 1 \in DOMAIN r /\ r[1] \notin Flags \union {"exec", "x"} \union Durations
    BY <2>1, RunsBegins
  <2>3. QED
    BY <2>2
<1>7. "exec" \in Flags \union {"exec", "x"} /\ "--" \in Flags \union {"exec", "x"}
  BY DEF Flags
<1>8. 3 \in others
  <2>1. 3 \in DOMAIN v /\ 2 + 1 = 3
    BY <1>4, <1>6
  <2>2. v[3] = r[1]
    BY <1>4, <1>6, <2>1
  <2>3. QED
    BY <1>6, <2>1, <2>2
<1>9. others \subseteq 1..Len(v) /\ 1 \notin others /\ 2 \notin others
  <2>1. v[1] = "exec" /\ v[2] = "--"
    BY <1>1, <1>4
  <2>2. DOMAIN v = 1..Len(v)
    BY <1>4
  <2>3. QED
    BY <1>7, <2>1, <2>2
<1>10. AfterMise(v) = From(v, CHOOSE i \in others : \A j \in others : i <= j)
  BY <1>8, Zenon DEF AfterMise
<1>11. (CHOOSE i \in others : \A j \in others : i <= j) = 3
  <2> HIDE DEF others
  <2>1. \A j \in others : j \in Nat /\ 3 <= j
    BY <1>4, <1>9
  <2>2. \A i \in others : (\A j \in others : i <= j) => i = 3
    BY <1>8, <2>1
  <2>3. QED
    BY <1>8, <2>1, <2>2
<1> HIDE DEF others
<1>12. AfterNoise(w) = r
  <2>1. AfterNoise(w) = AfterMise(v)
    BY <1>2, <1>3, BaseOf, Zenon DEF AfterNoise
  <2>2. QED
    BY <1>5, <1>10, <1>11, <2>1
<1>13. StripLeadingNoise(w) = StripLeadingNoise(r)
  BY <1>3, <1>12, StripOnce
<1>14. QED
  BY <1>13 DEF w, u

-----------------------------------------------------------------------------
(***************************************************************************)
(* Any number of wrappers is stripped.                                     *)
(***************************************************************************)
\* The words between the wrappers and what they run.
LEMMA WrapWordsAre ==
  /\ Assignments \subseteq WrapWords
  /\ {"-i", "X=1", "-u", "HOME", "LEFTHOOK=0", "-n", "5", "-oL", "-f", "%e"} \subseteq WrapWords
  /\ {"-i", "X=1", "-u", "LEFTHOOK=0", "-n", "-oL", "-f"} \subseteq Skippable
BY DEF Assignments, WrapWords, Skippable, Flags

\* No assignment is taken for a flag's argument.
LEMMA NoAssignmentTakesNext ==
  \A h \in {"env", "nice", "command", "stdbuf", "time"} : FlagsWithArg[h] \intersect Assignments = {}
<1>1. /\ {} \intersect Assignments = {} /\ {"-i", "-o", "-e"} \intersect Assignments = {}
      /\ {"-u", "-C"} \intersect Assignments = {} /\ {"-n"} \intersect Assignments = {}
      /\ {"-o", "-f"} \intersect Assignments = {}
  BY Zenon DEF Assignments
<1>2. QED
  BY <1>1, WrapperFlags

Ordinary == {"/bin/env", "env", "nice", "command", "stdbuf", "time"}

\* What stands between one of them and what it runs.
FlaggedBy(h, u) ==
    CASE h = "/bin/env" -> u = <<"-i", "X=1">>
      [] h = "env" -> u = <<"-u", "HOME", "LEFTHOOK=0">>
      [] h = "nice" -> u = <<"-n", "5">>
      [] h = "command" -> u = <<>>
      [] h = "stdbuf" -> u = <<"-oL">>
      [] h = "time" -> u = <<"-f", "%e">>

\* Those words are flags and their arguments.
LEMMA FlaggedWrappers ==
  /\ Flagged(<<"-i", "X=1">>, FlagsWithArg["env"])
  /\ Flagged(<<"-u", "HOME", "LEFTHOOK=0">>, FlagsWithArg["env"])
  /\ Flagged(<<"-n", "5">>, FlagsWithArg["nice"])
  /\ Flagged(<<>>, FlagsWithArg["command"])
  /\ Flagged(<<"-oL">>, FlagsWithArg["stdbuf"])
  /\ Flagged(<<"-f", "%e">>, FlagsWithArg["time"])
<1>1. Flagged(<<>>, FlagsWithArg["command"])
  BY DEF Flagged
<1>2. Flagged(<<"-oL">>, FlagsWithArg["stdbuf"])
  <2>1. "-oL" \in Skippable \ ({"-i", "-o", "-e"} \union {"--"})
    BY WrapWordsAre
  <2>2. QED
    BY <2>1, WrapperFlags DEF Flagged
<1>3. Flagged(<<"-f", "%e">>, FlagsWithArg["time"])
  <2>1. "-f" \in Skippable \intersect {"-o", "-f"} /\ "-f" # "--" /\ "%e" \in WrapWords
    BY WrapWordsAre
  <2>2. QED
    BY <2>1, WrapperFlags DEF Flagged
<1>4. Flagged(<<"-n", "5">>, FlagsWithArg["nice"])
  <2>1. "-n" \in Skippable \intersect {"-n"} /\ "-n" # "--" /\ "5" \in WrapWords
    BY WrapWordsAre
  <2>2. QED
    BY <2>1, WrapperFlags DEF Flagged
<1>5. Flagged(<<"-i", "X=1">>, FlagsWithArg["env"])
  <2>1. "-i" \in Skippable \ ({"-u", "-C"} \union {"--"}) /\ "X=1" \in Skippable \ ({"-u", "-C"} \union {"--"})
    BY WrapWordsAre
  <2>2. QED
    BY <2>1, WrapperFlags DEF Flagged
<1>6. Flagged(<<"-u", "HOME", "LEFTHOOK=0">>, FlagsWithArg["env"])
  <2>1. /\ "-u" \in Skippable \intersect {"-u", "-C"} /\ "-u" # "--" /\ "HOME" \in WrapWords
        /\ "LEFTHOOK=0" \in Skippable \ ({"-u", "-C"} \union {"--"})
    BY WrapWordsAre
  <2>2. QED
    BY <2>1, WrapperFlags DEF Flagged
<1>7. QED
  BY <1>1, <1>2, <1>3, <1>4, <1>5, <1>6

\* Wrappers that have nothing but flags are stripped.
LEMMA OrdinaryStripped ==
  ASSUME NEW h \in Heads, NEW base \in {"env", "nice", "command", "stdbuf", "time"}, Base(h) = base,
         NEW u \in Seq(WrapWords), Flagged(u, FlagsWithArg[base]),
         NEW r \in Seq(WrapWords), Runs(r)
  PROVE  StripLeadingNoise((<<h>> \o u) \o r) = StripLeadingNoise(r)
<1>1. Base(h) \in DOMAIN FlagsWithArg /\ Base(h) # "timeout"
  BY WrapperNames
<1>2. FlagsWithArg[Base(h)] \intersect Assignments = {}
  BY NoAssignmentTakesNext
<1>3. Flagged(u, FlagsWithArg[Base(h)])
  OBVIOUS
<1>4. h \in WrapWords /\ h \notin Assignments
  BY HeadsRun
<1>5. QED
  BY <1>1, <1>2, <1>3, <1>4, WrapperStripped

\* A wrapper in front of a command that somebody runs is stripped, and the two
\* are again a command that somebody runs.
LEMMA WrapperIsStripped ==
  ASSUME NEW w \in Wrappers, NEW r \in Seq(WrapWords), Runs(r)
  PROVE  StripLeadingNoise(w \o r) = StripLeadingNoise(r) /\ Runs(w \o r)
<1> DEFINE Fine(v) == StripLeadingNoise(v \o r) = StripLeadingNoise(r) /\ Runs(v \o r)
<1>1. ASSUME NEW x \in Assignments PROVE Fine(<<x>>)
  <2>1. x \in WrapWords
    BY WrapWordsAre
  <2>2. QED
    BY <2>1, AssignmentStripped
<1>2. ASSUME NEW h \in Heads, NEW base \in {"env", "nice", "command", "stdbuf", "time"}, Base(h) = base,
             NEW u \in Seq(WrapWords), Flagged(u, FlagsWithArg[base])
      PROVE  Fine(<<h>> \o u)
  BY <1>2, OrdinaryStripped, HeadRuns
<1>3. Fine(<<"X=1">>) /\ Fine(<<"LEFTHOOK=0">>)
  <2>1. "X=1" \in Assignments /\ "LEFTHOOK=0" \in Assignments
    BY DEF Assignments
  <2> HIDE DEF Fine
  <2>2. QED
    BY <1>1, <2>1
<1>4. Fine(<<"/bin/env", "-i", "X=1">>)
  <2>1. <<"-i", "X=1">> \in Seq(WrapWords) /\ <<"/bin/env", "-i", "X=1">> = <<"/bin/env">> \o <<"-i", "X=1">>
    BY WrapWordsAre
  <2> HIDE DEF Fine
  <2>2. Fine(<<"/bin/env">> \o <<"-i", "X=1">>)
    BY <1>2, <2>1, BaseOf, FlaggedWrappers DEF Heads
  <2>3. QED
    BY <2>1, <2>2
<1>5. Fine(<<"env", "-u", "HOME", "LEFTHOOK=0">>)
  <2>1. /\ <<"-u", "HOME", "LEFTHOOK=0">> \in Seq(WrapWords)
        /\ <<"env", "-u", "HOME", "LEFTHOOK=0">> = <<"env">> \o <<"-u", "HOME", "LEFTHOOK=0">>
    BY WrapWordsAre
  <2> HIDE DEF Fine
  <2>2. Fine(<<"env">> \o <<"-u", "HOME", "LEFTHOOK=0">>)
    BY <1>2, <2>1, BaseOf, FlaggedWrappers DEF Heads
  <2>3. QED
    BY <2>1, <2>2
<1>6. Fine(<<"nice", "-n", "5">>)
  <2>1. <<"-n", "5">> \in Seq(WrapWords) /\ <<"nice", "-n", "5">> = <<"nice">> \o <<"-n", "5">>
    BY WrapWordsAre
  <2> HIDE DEF Fine
  <2>2. Fine(<<"nice">> \o <<"-n", "5">>)
    BY <1>2, <2>1, BaseOf, FlaggedWrappers DEF Heads
  <2>3. QED
    BY <2>1, <2>2
<1>7. Fine(<<"command">>)
  <2>1. <<>> \in Seq(WrapWords) /\ <<"command">> = <<"command">> \o <<>>
    OBVIOUS
  <2> HIDE DEF Fine
  <2>2. Fine(<<"command">> \o <<>>)
    BY <1>2, <2>1, BaseOf, FlaggedWrappers DEF Heads
  <2>3. QED
    BY <2>1, <2>2
<1>8. Fine(<<"stdbuf", "-oL">>)
  <2>1. <<"-oL">> \in Seq(WrapWords) /\ <<"stdbuf", "-oL">> = <<"stdbuf">> \o <<"-oL">>
    BY WrapWordsAre
  <2> HIDE DEF Fine
  <2>2. Fine(<<"stdbuf">> \o <<"-oL">>)
    BY <1>2, <2>1, BaseOf, FlaggedWrappers DEF Heads
  <2>3. QED
    BY <2>1, <2>2
<1>9. Fine(<<"time", "-f", "%e">>)
  <2>1. <<"-f", "%e">> \in Seq(WrapWords) /\ <<"time", "-f", "%e">> = <<"time">> \o <<"-f", "%e">>
    BY WrapWordsAre
  <2> HIDE DEF Fine
  <2>2. Fine(<<"time">> \o <<"-f", "%e">>)
    BY <1>2, <2>1, BaseOf, FlaggedWrappers DEF Heads
  <2>3. QED
    BY <2>1, <2>2
<1>10. Fine(<<"sudo", "-u", "bob", "--">>)
  <2>1. /\ <<"-u", "bob", "--">> \in Seq(WrapWords) /\ "sudo" \in Heads
        /\ <<"sudo", "-u", "bob", "--">> = <<"sudo">> \o <<"-u", "bob", "--">>
    BY DEF WrapWords, Heads
  <2>2. Fine(<<"sudo">> \o <<"-u", "bob", "--">>)
    BY <2>1, SudoStripped, HeadRuns
  <2> HIDE DEF Fine
  <2>3. QED
    BY <2>1, <2>2
<1>11. Fine(<<"timeout", "-s", "KILL", "5s">>)
  <2>1. /\ <<"-s", "KILL", "5s">> \in Seq(WrapWords) /\ "timeout" \in Heads
        /\ <<"timeout", "-s", "KILL", "5s">> = <<"timeout">> \o <<"-s", "KILL", "5s">>
    BY DEF WrapWords, Heads
  <2>2. Fine(<<"timeout">> \o <<"-s", "KILL", "5s">>)
    BY <2>1, TimeoutStripped, HeadRuns
  <2> HIDE DEF Fine
  <2>3. QED
    BY <2>1, <2>2
<1>12. Fine(<<"mise", "exec", "--">>)
  <2>1. /\ <<"exec", "--">> \in Seq(WrapWords) /\ "mise" \in Heads
        /\ <<"mise", "exec", "--">> = <<"mise">> \o <<"exec", "--">>
    BY DEF WrapWords, Heads
  <2>2. Fine(<<"mise">> \o <<"exec", "--">>)
    BY <2>1, MiseStripped, HeadRuns
  <2> HIDE DEF Fine
  <2>3. QED
    BY <2>1, <2>2
<1> HIDE DEF Fine
<1>13. Fine(w)
  BY <1>3, <1>4, <1>5, <1>6, <1>7, <1>8, <1>9, <1>10, <1>11, <1>12, Zenon DEF Wrappers
<1>14. QED
  BY <1>13 DEF Fine

\* The wrappers are words.
LEMMA WrappersAreWords ==
  /\ Wrappers \subseteq Seq(WrapWords)
  /\ \A s \in Seq(Wrappers) : s \in Seq(Seq(WrapWords)) /\ FlattenSeq(s) \in Seq(WrapWords)
<1>1. /\ "X=1" \in WrapWords /\ "LEFTHOOK=0" \in WrapWords /\ "/bin/env" \in WrapWords /\ "-i" \in WrapWords
      /\ "env" \in WrapWords /\ "-u" \in WrapWords /\ "HOME" \in WrapWords /\ "sudo" \in WrapWords
      /\ "bob" \in WrapWords /\ "--" \in WrapWords /\ "timeout" \in WrapWords /\ "-s" \in WrapWords
      /\ "KILL" \in WrapWords /\ "5s" \in WrapWords /\ "nice" \in WrapWords /\ "-n" \in WrapWords
      /\ "5" \in WrapWords /\ "command" \in WrapWords /\ "mise" \in WrapWords /\ "exec" \in WrapWords
      /\ "stdbuf" \in WrapWords /\ "-oL" \in WrapWords /\ "time" \in WrapWords /\ "-f" \in WrapWords
      /\ "%e" \in WrapWords
  BY DEF WrapWords
<1>2. ASSUME NEW a \in WrapWords, NEW b \in WrapWords, NEW c \in WrapWords, NEW d \in WrapWords
      PROVE  <<a>> \in Seq(WrapWords) /\ <<a, b>> \in Seq(WrapWords) /\ <<a, b, c>> \in Seq(WrapWords)
             /\ <<a, b, c, d>> \in Seq(WrapWords)
  OBVIOUS
<1>3. ASSUME NEW w \in Wrappers PROVE w \in Seq(WrapWords)
  <2>1. /\ <<"X=1">> \in Seq(WrapWords) /\ <<"LEFTHOOK=0">> \in Seq(WrapWords)
        /\ <<"command">> \in Seq(WrapWords)
    BY <1>1, <1>2
  <2>2. /\ <<"nice", "-n", "5">> \in Seq(WrapWords) /\ <<"/bin/env", "-i", "X=1">> \in Seq(WrapWords)
        /\ <<"time", "-f", "%e">> \in Seq(WrapWords)
    BY <1>1, <1>2
  <2>3. /\ <<"mise", "exec", "--">> \in Seq(WrapWords) /\ <<"stdbuf", "-oL">> \in Seq(WrapWords)
    BY <1>1, <1>2
  <2>4. /\ <<"env", "-u", "HOME", "LEFTHOOK=0">> \in Seq(WrapWords)
        /\ <<"sudo", "-u", "bob", "--">> \in Seq(WrapWords)
        /\ <<"timeout", "-s", "KILL", "5s">> \in Seq(WrapWords)
    BY <1>1, <1>2
  <2>5. QED
    BY <2>1, <2>2, <2>3, <2>4, Zenon DEF Wrappers
<1>4. ASSUME NEW s \in Seq(Wrappers) PROVE s \in Seq(Seq(WrapWords))
  BY <1>3
<1>5. QED
  BY <1>3, <1>4, FlattenType

\* However many wrappers are stacked around it, the command that somebody runs
\* is stripped to the same words.
LEMMA WrappersStripped ==
  ASSUME NEW s \in Seq(Wrappers), NEW r \in Seq(WrapWords), Runs(r)
  PROVE  StripLeadingNoise(FlattenSeq(s) \o r) = StripLeadingNoise(r)
<1> DEFINE Good == {t \in Seq(Wrappers) : \A v \in Seq(WrapWords) : Runs(v) =>
                        StripLeadingNoise(FlattenSeq(t) \o v) = StripLeadingNoise(v)}
<1>1. <<>> \in Good
  <2>1. \A v \in Seq(WrapWords) : FlattenSeq(<<>>) \o v = v
    BY FlattenEmpty
  <2>2. <<>> \in Seq(Wrappers)
    OBVIOUS
  <2>3. QED
    BY <2>1, <2>2, Zenon
<1>2. ASSUME NEW t \in Seq(Wrappers), NEW w \in Wrappers, t \in Good PROVE Append(t, w) \in Good
  <2> SUFFICES ASSUME NEW v \in Seq(WrapWords), Runs(v)
               PROVE  StripLeadingNoise(FlattenSeq(Append(t, w)) \o v) = StripLeadingNoise(v)
    OBVIOUS
  <2>1. /\ w \in Seq(WrapWords) /\ t \in Seq(Seq(WrapWords)) /\ FlattenSeq(t) \in Seq(WrapWords)
    BY WrappersAreWords
  <2>2. FlattenSeq(Append(t, w)) = FlattenSeq(t) \o w
    BY <2>1, FlattenAppend
  <2>3. (FlattenSeq(t) \o w) \o v = FlattenSeq(t) \o (w \o v) /\ w \o v \in Seq(WrapWords)
    <3> DEFINE x == FlattenSeq(t)
    <3>1. w \in Seq(WrapWords) /\ x \in Seq(WrapWords)
      BY <2>1
    <3> HIDE DEF x
    <3>2. (x \o w) \o v = x \o (w \o v)
      BY <3>1, ConcatAssociative, SMTT(30)
    <3>3. w \o v \in Seq(WrapWords)
      BY <3>1, ConcatProperties
    <3>4. QED
      BY <3>2, <3>3 DEF x
  <2>4. StripLeadingNoise(w \o v) = StripLeadingNoise(v) /\ Runs(w \o v)
    BY WrapperIsStripped
  <2>5. StripLeadingNoise(FlattenSeq(t) \o (w \o v)) = StripLeadingNoise(w \o v)
    BY <1>2, <2>3, <2>4
  <2>6. QED
    BY <2>2, <2>3, <2>4, <2>5
<1> HIDE DEF Good
<1>3. Seq(Wrappers) \subseteq Good
  BY <1>1, <1>2, SequenceInduction
<1>4. QED
  BY <1>3 DEF Good

\* The words of stacked wrappers are the words of each.
LEMMA WordsOfWrappers ==
  ASSUME NEW s \in Seq(Wrappers)
  PROVE  ToSet(FlattenSeq(s)) = UNION {ToSet(w) : w \in ToSet(s)}
<1> DEFINE Good == {t \in Seq(Wrappers) : ToSet(FlattenSeq(t)) = UNION {ToSet(w) : w \in ToSet(t)}}
<1>1. <<>> \in Good
  <2>1. ToSet(<<>>) = {}
    BY DEF ToSet
  <2>2. QED
    BY <2>1, FlattenEmpty
<1>2. ASSUME NEW t \in Seq(Wrappers), NEW w \in Wrappers, t \in Good PROVE Append(t, w) \in Good
  <2>1. /\ w \in Seq(WrapWords) /\ t \in Seq(Seq(WrapWords)) /\ FlattenSeq(t) \in Seq(WrapWords)
    BY WrappersAreWords
  <2>2. FlattenSeq(Append(t, w)) = FlattenSeq(t) \o w
    BY <2>1, FlattenAppend
  <2>3. ToSet(FlattenSeq(t) \o w) = ToSet(FlattenSeq(t)) \union ToSet(w)
    BY <2>1, ToSetConcat
  <2>4. ToSet(Append(t, w)) = ToSet(t) \union {w}
    BY ToSetAppend
  <2>5. (UNION {ToSet(v) : v \in ToSet(t) \union {w}}) = (UNION {ToSet(v) : v \in ToSet(t)}) \union ToSet(w)
    BY Zenon
  <2>6. ToSet(FlattenSeq(t)) = UNION {ToSet(v) : v \in ToSet(t)}
    BY <1>2
  <2>7. ToSet(FlattenSeq(Append(t, w))) = UNION {ToSet(v) : v \in ToSet(Append(t, w))}
    BY <2>2, <2>3, <2>4, <2>5, <2>6
  <2>8. Append(t, w) \in Seq(Wrappers)
    OBVIOUS
  <2>9. QED
    BY <2>7, <2>8
<1> HIDE DEF Good
<1>3. Seq(Wrappers) \subseteq Good
  BY <1>1, <1>2, SequenceInduction
<1>4. QED
  BY <1>3 DEF Good

\* Of the words that are stripped, one switches lefthook off exactly when one
\* of the wrappers says so.
LEMMA LefthookDisabled ==
  ASSUME NEW s \in Seq(Wrappers), NEW r \in Seq(WrapWords), Runs(r), StripLeadingNoise(r) = r
  PROVE  /\ StripLeadingNoise(FlattenSeq(s) \o r) = r
         /\ DisablesLefthook(FlattenSeq(s) \o r) <=>
                \E w \in ToSet(s) : ToSet(w) \intersect LefthookOff # {}
<1> DEFINE u == FlattenSeq(s)
           v == u \o r
<1>1. u \in Seq(WrapWords)
  BY WrappersAreWords
<1>2. StripLeadingNoise(v) = r
  BY WrappersStripped
<1>3. ToSet(u) = UNION {ToSet(w) : w \in ToSet(s)}
  BY WordsOfWrappers
<1> HIDE DEF u
<1>4. /\ Len(u) \in Nat /\ Len(r) \in Nat /\ Len(v) = Len(u) + Len(r) /\ DOMAIN u = 1..Len(u)
      /\ \A i \in 1..Len(u) : v[i] = u[i]
  BY <1>1, ConcatAt
<1> HIDE DEF v
<1>5. Len(v) - Len(StripLeadingNoise(v)) = Len(u)
  BY <1>2, <1>4
<1>6. DisablesLefthook(v) <=> \E i \in 1..Len(u) : u[i] \in LefthookOff
  BY <1>4, <1>5 DEF DisablesLefthook
<1>7. (\E i \in 1..Len(u) : u[i] \in LefthookOff) <=> \E x \in ToSet(u) : x \in LefthookOff
  BY <1>4, Zenon DEF ToSet
<1>8. (\E x \in ToSet(u) : x \in LefthookOff) <=> \E w \in ToSet(s) : ToSet(w) \intersect LefthookOff # {}
  BY <1>3, Zenon
<1>9. QED
  BY <1>2, <1>6, <1>7, <1>8 DEF u, v

-----------------------------------------------------------------------------
(***************************************************************************)
(* What git is refused for.                                                *)
(***************************************************************************)
\* What git is refused for, given the words from its subcommand on.
ReasonFor(git) ==
    LET args == ToSet(From(git, 2))
    IN CASE git[1] \in {"commit", "push"} /\ "--no-verify" \in args -> "no-verify"
         [] git[1] = "config" /\ "--get" \notin args
               /\ \/ "core.bare" \in args /\ args \intersect Truthy # {}
                  \/ "core.bare=true" \in args -> "core.bare"
         [] OTHER -> None

\* GitReason asks for lefthook first.
LEMMA ReasonOf ==
  ASSUME NEW words
  PROVE  LET git == GitSubcommand(StripLeadingNoise(words))
         IN GitReason(words) = IF DisablesLefthook(words) THEN "lefthook"
                               ELSE IF git # <<>> THEN ReasonFor(git) ELSE None
<1>1. CASE DisablesLefthook(words)
  BY <1>1, Zenon DEF GitReason
<1>2. CASE ~DisablesLefthook(words)
  BY <1>2, Zenon DEF GitReason, ReasonFor
<1>3. QED
  BY <1>1, <1>2

\* The words of short commands.
LEMMA ToSetOfWords == \A a, b : ToSet(<<a>>) = {a} /\ ToSet(<<a, b>>) = {a, b}
<1> TAKE a, b
<1>1. DOMAIN <<a>> = {1} /\ DOMAIN <<a, b>> = {1, 2}
  OBVIOUS
<1>2. <<a>>[1] = a /\ <<a, b>>[1] = a /\ <<a, b>>[2] = b
  OBVIOUS
<1>3. QED
  BY <1>1, <1>2, Zenon DEF ToSet

LEMMA ToSetOfThree == \A a, b, c : ToSet(<<a, b, c>>) = {a, b, c}
<1> TAKE a, b, c
<1>1. DOMAIN <<a, b, c>> = {1, 2, 3}
  OBVIOUS
<1>2. <<a, b, c>>[1] = a /\ <<a, b, c>>[2] = b /\ <<a, b, c>>[3] = c
  OBVIOUS
<1>3. QED
  BY <1>1, <1>2, Zenon DEF ToSet

\* A command that no wrapper begins is left as it is.
LEMMA NothingStripped ==
  ASSUME NEW h \in {"git", "/bin/git", "echo"}, NEW x \in Seq(WrapWords)
  PROVE  /\ <<h>> \o x \in Seq(WrapWords) /\ StripLeadingNoise(<<h>> \o x) = <<h>> \o x
         /\ Runs(<<h>> \o x) /\ <<h>> \o x # <<>> /\ (<<h>> \o x)[1] = h /\ Tail(<<h>> \o x) = x
<1> DEFINE w == <<h>> \o x
<1>1. h \in WrapWords
  BY DEF WrapWords
<1>2. w \in Seq(WrapWords) /\ w # <<>> /\ w[1] = h /\ Tail(w) = x
  <2> DEFINE t == <<h>>
  <2>1. t \in Seq(WrapWords) /\ t # <<>> /\ Tail(t) = <<>> /\ t[1] = h
    BY <1>1
  <2>2. <<>> \o x = x
    OBVIOUS
  <2> HIDE DEF t
  <2>3. Tail(t \o x) = Tail(t) \o x /\ t \o x # <<>> /\ (t \o x)[1] = t[1]
    BY <2>1, TailConcat
  <2>4. t \o x \in Seq(WrapWords)
    BY <2>1, ConcatProperties
  <2>5. QED
    BY <2>1, <2>2, <2>3, <2>4 DEF t
<1> HIDE DEF w
<1>3. h \notin Assignments
  BY Zenon DEF Assignments
<1>4. Base(h) \notin DOMAIN FlagsWithArg /\ Base(h) # "mise"
  <2>1. Base(h) \in {"git", "echo"}
    BY Zenon DEF Base, Directories
  <2>2. QED
    BY <2>1, WrapperNames, Zenon
<1>5. AfterNoise(w) = w
  BY <1>2, <1>3, <1>4, Zenon DEF AfterNoise
<1>6. StripLeadingNoise(w) = w
  BY <1>2, <1>5, StripOnce
<1>7. h \notin Flags \union {"exec", "x"} \union Durations
  BY Zenon DEF Flags, Durations
<1>8. Runs(w)
  <2>1. 1 \in DOMAIN w
    BY <1>2
  <2>2. h \notin Skippable \union {"exec", "x"} \union Durations
    BY <1>3, <1>7 DEF Skippable
  <2>3. Begin(w, 0)
    BY <1>2, <2>1, <2>2 DEF Begin
  <2>4. QED
    BY <2>3 DEF Runs
<1>9. QED
  BY <1>2, <1>6, <1>8 DEF w

\* The subcommand of git is its first word that is no flag and no argument of one.
LEMMA GitWithoutFlags ==
  ASSUME NEW words \in Seq(WrapWords), words # <<>>, Base(words[1]) = "git",
         Tail(words) # <<>>, Tail(words)[1] \notin Flags
  PROVE  GitSubcommand(words) = Tail(words)
<1> DEFINE u == Tail(words)
           f == Skips(u, Flags, GitOptionsWithArg)
<1>1. u \in Seq(WrapWords) /\ Len(u) \in Nat /\ 1 \in 1..Len(u) /\ 1 \in 1..Len(u) + 2
  OBVIOUS
<1>2. GitSubcommand(words) = AfterFlags(u, Flags, GitOptionsWithArg)
  BY DEF GitSubcommand
<1>3. u[1] \notin Flags
  OBVIOUS
<1> HIDE DEF u
<1>4. /\ AfterFlags(u, Flags, GitOptionsWithArg) = f[1]
      /\ \A i \in 1..Len(u) + 2 : At(u, i) \notin Flags => f[i] = From(u, i)
  BY <1>1, Kinds, AfterFlagsScans
<1>5. At(u, 1) = u[1]
  BY <1>1 DEF At
<1>6. f[1] = From(u, 1)
  BY <1>1, <1>3, <1>4, <1>5
<1>7. From(u, 1) = u
  BY <1>1, FromFirst
<1>8. QED
  BY <1>2, <1>4, <1>6, <1>7 DEF u

\* Two words and some more.
LEMMA AfterTwo ==
  ASSUME NEW S, NEW p \in Seq(S), NEW y \in Seq(S), Len(p) = 2, y # <<>>
  PROVE  /\ p \o y \in Seq(S) /\ Len(p \o y) = 2 + Len(y) /\ From(p \o y, 3) = y
         /\ (p \o y)[1] = p[1] /\ At(p \o y, 1) = p[1]
         /\ (p \o y)[3] = y[1] /\ At(p \o y, 3) = y[1]
<1> DEFINE u == p \o y
<1>1. /\ u \in Seq(S) /\ Len(u) = Len(p) + Len(y)
      /\ \A i \in 1..Len(p) : u[i] = p[i] /\ At(u, i) = p[i]
      /\ \A k \in 1..Len(y) : u[Len(p) + k] = y[k] /\ At(u, Len(p) + k) = y[k]
  <2>1. /\ u \in Seq(S) /\ Len(u) = Len(p) + Len(y)
        /\ \A i \in 1..Len(p) : u[i] = p[i] /\ At(u, i) = At(p, i) /\ At(p, i) = p[i]
        /\ \A k \in 1..Len(y) : u[Len(p) + k] = y[k] /\ At(u, Len(p) + k) = y[k]
    <3>1. ASSUME NEW t \in Seq(S), NEW q \in Seq(S)
          PROVE  /\ t \o q \in Seq(S) /\ Len(t \o q) = Len(t) + Len(q)
                 /\ \A i \in 1..Len(t) : (t \o q)[i] = t[i] /\ At(t \o q, i) = At(t, i) /\ At(t, i) = t[i]
                 /\ \A k \in 1..Len(q) : (t \o q)[Len(t) + k] = q[k] /\ At(t \o q, Len(t) + k) = q[k]
      BY ConcatAt
    <3>2. QED
      BY <3>1
  <2> HIDE DEF u
  <2>2. QED
    BY <2>1
<1>2. 1 \in 1..Len(y) + 1 /\ 1 \in 1..Len(y) /\ Len(p) + 1 = 3 /\ 1 \in 1..Len(p)
  OBVIOUS
<1>3. From(u, 3) = y
  <2>1. From(u, Len(p) + 1) = From(y, 1)
    BY <1>2, FromConcat
  <2>2. QED
    BY <1>2, <2>1, FromFirst
<1> HIDE DEF u
<1>4. QED
  BY <1>1, <1>2, <1>3 DEF u

\* An option of git with its argument is skipped.
LEMMA GitWithFlag ==
  ASSUME NEW words \in Seq(WrapWords), NEW p \in Seq(WrapWords), NEW y \in Seq(WrapWords),
         words # <<>>, Base(words[1]) = "git", Tail(words) = p \o y,
         Len(p) = 2, p[1] \in GitOptionsWithArg, y # <<>>, y[1] \notin Flags
  PROVE  GitSubcommand(words) = y
<1> DEFINE u == p \o y
           f == Skips(u, Flags, GitOptionsWithArg)
           a == p[1]
           c == y[1]
<1>1. GitSubcommand(words) = AfterFlags(u, Flags, GitOptionsWithArg)
  BY DEF GitSubcommand
<1>2. a \in GitOptionsWithArg /\ c \notin Flags /\ Len(y) \in Nat
  OBVIOUS
<1>3. /\ u \in Seq(WrapWords) /\ Len(u) = 2 + Len(y) /\ u[1] = a /\ At(u, 1) = a /\ u[3] = c
      /\ At(u, 3) = c /\ From(u, 3) = y
  <2>1. p \in Seq(WrapWords) /\ Len(p) = 2 /\ y \in Seq(WrapWords) /\ y # <<>>
    OBVIOUS
  <2>2. QED
    BY <2>1, AfterTwo
<1> HIDE DEF u, a, c
<1>4. a \in Flags /\ a # "--"
  BY <1>2 DEF GitOptionsWithArg, Flags
<1>5. /\ AfterFlags(u, Flags, GitOptionsWithArg) = f[1]
      /\ \A i \in 1..Len(u) + 2 :
            /\ At(u, i) \notin Flags => f[i] = From(u, i)
            /\ At(u, i) \in Flags /\ u[i] # "--" =>
                    f[i] = f[IF u[i] \in GitOptionsWithArg THEN i + 2 ELSE i + 1]
  <2>1. u \in Seq(WrapWords) /\ None \notin Flags
    BY <1>3, Kinds
  <2>2. QED
    BY <2>1, AfterFlagsScans
<1> HIDE DEF f
<1>6. 1 \in 1..Len(u) + 2 /\ 3 \in 1..Len(u) + 2 /\ 1 + 2 = 3
  BY <1>2, <1>3
<1>7. f[1] = f[1 + 2]
  BY <1>2, <1>3, <1>4, <1>5, <1>6
<1>8. f[3] = From(u, 3)
  BY <1>2, <1>3, <1>5, <1>6
<1>9. QED
  BY <1>1, <1>3, <1>5, <1>6, <1>7, <1>8

\* What ReasonFor says of a subcommand c and the words x after it.
ReasonWith(c, args) ==
    CASE c \in {"commit", "push"} /\ "--no-verify" \in args -> "no-verify"
      [] c = "config" /\ "--get" \notin args
            /\ \/ "core.bare" \in args /\ args \intersect Truthy # {}
               \/ "core.bare=true" \in args -> "core.bare"
      [] OTHER -> None

LEMMA ReasonForWith ==
  ASSUME NEW S, NEW c \in S, NEW x \in Seq(S)
  PROVE  <<c>> \o x # <<>> /\ ReasonFor(<<c>> \o x) = ReasonWith(c, ToSet(x))
<1> DEFINE t == <<c>>
           g == t \o x
<1>1. t \in Seq(S) /\ t # <<>> /\ Tail(t) = <<>> /\ t[1] = c
  OBVIOUS
<1>2. <<>> \o x = x
  OBVIOUS
<1> HIDE DEF t
<1>3. Tail(g) = x /\ g # <<>> /\ g[1] = c /\ g \in Seq(S)
  <2>1. Tail(g) = Tail(t) \o x /\ g # <<>> /\ g[1] = t[1]
    BY <1>1, TailConcat
  <2>2. g \in Seq(S)
    BY <1>1, ConcatProperties
  <2>3. QED
    BY <1>1, <1>2, <2>1, <2>2
<1> HIDE DEF g
<1>4. From(g, 2) = x
  BY <1>3, FromFirst
<1>5. ReasonFor(g) = ReasonWith(c, ToSet(x))
  BY <1>3, <1>4, Zenon DEF ReasonFor, ReasonWith
<1>6. QED
  BY <1>3, <1>5 DEF g, t

\* What git is refused for in the commands the wrappers are put around.
LEMMA Refusals ==
  /\ ReasonWith("commit", {"--no-verify"}) = "no-verify"
  /\ ReasonWith("push", {"--no-verify"}) = "no-verify"
  /\ ReasonWith("config", {"core.bare", "true"}) = "core.bare"
  /\ ReasonWith("config", {"core.bare=true"}) = "core.bare"
  /\ ReasonWith("log", {"--no-verify"}) = None
  /\ ReasonWith("config", {"--get", "core.bare", "true"}) = None
<1>1. ReasonWith("commit", {"--no-verify"}) = "no-verify"
  BY Zenon DEF ReasonWith
<1>2. ReasonWith("push", {"--no-verify"}) = "no-verify"
  BY Zenon DEF ReasonWith
<1>3. ReasonWith("config", {"core.bare", "true"}) = "core.bare"
  <2>1. "true" \in {"core.bare", "true"} \intersect Truthy
    BY Zenon DEF Truthy
  <2>2. QED
    BY <2>1, Zenon DEF ReasonWith
<1>4. ReasonWith("config", {"core.bare=true"}) = "core.bare"
  BY Zenon DEF ReasonWith
<1>5. ReasonWith("log", {"--no-verify"}) = None
  BY Zenon DEF ReasonWith
<1>6. ReasonWith("config", {"--get", "core.bare", "true"}) = None
  BY Zenon DEF ReasonWith
<1>7. QED
  BY <1>1, <1>2, <1>3, <1>4, <1>5, <1>6

\* inv is a command that somebody runs, without a wrapper, and git's for reason.
JudgedAs(inv, reason) ==
    /\ inv \in Seq(WrapWords) /\ Runs(inv) /\ StripLeadingNoise(inv) = inv
    /\ (IF GitSubcommand(inv) # <<>> THEN ReasonFor(GitSubcommand(inv)) ELSE None) = reason

\* A git command without options before its subcommand,
LEMMA JudgedWithoutFlags ==
  ASSUME NEW c \in WrapWords, c \notin Flags, NEW x \in Seq(WrapWords)
  PROVE  JudgedAs(<<"git">> \o (<<c>> \o x), ReasonWith(c, ToSet(x)))
<1> DEFINE y == <<c>> \o x
           inv == <<"git">> \o y
<1>1. y \in Seq(WrapWords) /\ y # <<>> /\ y[1] = c
  OBVIOUS
<1>2. ReasonFor(y) = ReasonWith(c, ToSet(x))
  BY ReasonForWith
<1> HIDE DEF y
<1>3. /\ inv \in Seq(WrapWords) /\ StripLeadingNoise(inv) = inv
      /\ Runs(inv) /\ inv # <<>> /\ inv[1] = "git" /\ Tail(inv) = y
  BY <1>1, NothingStripped
<1> HIDE DEF inv
<1>4. Base(inv[1]) = "git"
  BY <1>3, Zenon DEF Base, Directories
<1>5. GitSubcommand(inv) = y
  BY <1>1, <1>3, <1>4, GitWithoutFlags
<1>6. JudgedAs(inv, ReasonWith(c, ToSet(x)))
  BY <1>1, <1>2, <1>3, <1>5 DEF JudgedAs
<1>7. QED
  BY <1>6 DEF inv, y

\* one with an option and its argument,
LEMMA JudgedWithFlag ==
  ASSUME NEW h \in {"git", "/bin/git"}, NEW a \in WrapWords, NEW b \in WrapWords, NEW c \in WrapWords,
         a \in GitOptionsWithArg, c \notin Flags, NEW x \in Seq(WrapWords)
  PROVE  JudgedAs(<<h>> \o (<<a, b>> \o (<<c>> \o x)), ReasonWith(c, ToSet(x)))
<1> DEFINE p == <<a, b>>
           z == <<c>> \o x
           y == p \o z
           inv == <<h>> \o y
<1>1. /\ p \in Seq(WrapWords) /\ Len(p) = 2 /\ p[1] = a
      /\ z \in Seq(WrapWords) /\ z # <<>> /\ z[1] = c
  OBVIOUS
<1>2. ReasonFor(z) = ReasonWith(c, ToSet(x))
  BY ReasonForWith
<1> HIDE DEF z, p
<1>3. y \in Seq(WrapWords)
  BY <1>1, ConcatProperties
<1>4. /\ inv \in Seq(WrapWords) /\ StripLeadingNoise(inv) = inv
      /\ Runs(inv) /\ inv # <<>> /\ inv[1] = h /\ Tail(inv) = y
  <2> HIDE DEF y
  <2>1. QED
    BY <1>3, NothingStripped
<1> HIDE DEF inv
<1>5. Base(inv[1]) = "git"
  BY <1>4, Zenon DEF Base, Directories
<1>6. GitSubcommand(inv) = z
  BY <1>1, <1>4, <1>5, GitWithFlag
<1>7. JudgedAs(inv, ReasonWith(c, ToSet(x)))
  BY <1>1, <1>2, <1>4, <1>6 DEF JudgedAs
<1>8. QED
  BY <1>7 DEF inv, y, z, p

\* and so all that the wrappers are put around.
LEMMA InvocationsJudged == \A i \in Invocations : JudgedAs(i[1], i[2])
<1>1. ASSUME NEW c \in WrapWords, c \notin Flags, NEW x \in Seq(WrapWords)
      PROVE  JudgedAs(<<"git">> \o (<<c>> \o x), ReasonWith(c, ToSet(x)))
  BY <1>1, JudgedWithoutFlags
<1>2. ASSUME NEW h \in {"git", "/bin/git"}, NEW a \in WrapWords, NEW b \in WrapWords, NEW c \in WrapWords,
             a \in GitOptionsWithArg, c \notin Flags, NEW x \in Seq(WrapWords)
      PROVE  JudgedAs(<<h>> \o (<<a, b>> \o (<<c>> \o x)), ReasonWith(c, ToSet(x)))
  BY <1>2, JudgedWithFlag
<1>3. /\ "commit" \in WrapWords /\ "--no-verify" \in WrapWords /\ "-C" \in WrapWords /\ "repo" \in WrapWords
      /\ "push" \in WrapWords /\ "config" \in WrapWords /\ "core.bare" \in WrapWords /\ "true" \in WrapWords
      /\ "-c" \in WrapWords /\ "k=v" \in WrapWords /\ "core.bare=true" \in WrapWords
      /\ "--git-dir" \in WrapWords /\ "log" \in WrapWords /\ "--get" \in WrapWords
      /\ "git" \in WrapWords /\ "LEFTHOOK=0" \in WrapWords
  BY DEF WrapWords
<1>4. /\ "commit" \notin Flags /\ "push" \notin Flags /\ "config" \notin Flags /\ "log" \notin Flags
      /\ "-C" \in GitOptionsWithArg /\ "-c" \in GitOptionsWithArg /\ "--git-dir" \in GitOptionsWithArg
  BY Zenon DEF Flags, GitOptionsWithArg
<1>5. JudgedAs(<<"git", "commit", "--no-verify">>, "no-verify")
  <2>1. /\ <<"--no-verify">> \in Seq(WrapWords)
        /\ <<"git", "commit", "--no-verify">> = <<"git">> \o (<<"commit">> \o <<"--no-verify">>)
    BY <1>3
  <2>2. JudgedAs(<<"git">> \o (<<"commit">> \o <<"--no-verify">>),
               ReasonWith("commit", ToSet(<<"--no-verify">>)))
    BY <1>1, <1>3, <1>4, <2>1
  <2>3. QED
    BY <2>1, <2>2, ToSetOfWords, Refusals
<1>6. JudgedAs(<<"/bin/git", "-C", "repo", "push", "--no-verify">>, "no-verify")
  <2>1. /\ <<"--no-verify">> \in Seq(WrapWords)
        /\ <<"/bin/git", "-C", "repo", "push", "--no-verify">>
             = <<"/bin/git">> \o (<<"-C", "repo">> \o (<<"push">> \o <<"--no-verify">>))
    BY <1>3
  <2>2. JudgedAs(<<"/bin/git">> \o (<<"-C", "repo">> \o (<<"push">> \o <<"--no-verify">>)),
               ReasonWith("push", ToSet(<<"--no-verify">>)))
    BY <1>2, <1>3, <1>4, <2>1
  <2>3. QED
    BY <2>1, <2>2, ToSetOfWords, Refusals
<1>7. JudgedAs(<<"git", "config", "core.bare", "true">>, "core.bare")
  <2>1. /\ <<"core.bare", "true">> \in Seq(WrapWords)
        /\ <<"git", "config", "core.bare", "true">> = <<"git">> \o (<<"config">> \o <<"core.bare", "true">>)
    BY <1>3
  <2>2. JudgedAs(<<"git">> \o (<<"config">> \o <<"core.bare", "true">>),
               ReasonWith("config", ToSet(<<"core.bare", "true">>)))
    BY <1>1, <1>3, <1>4, <2>1
  <2>3. QED
    BY <2>1, <2>2, ToSetOfWords, Refusals
<1>8. JudgedAs(<<"git", "-c", "k=v", "config", "core.bare=true">>, "core.bare")
  <2>1. /\ <<"core.bare=true">> \in Seq(WrapWords)
        /\ <<"git", "-c", "k=v", "config", "core.bare=true">>
             = <<"git">> \o (<<"-c", "k=v">> \o (<<"config">> \o <<"core.bare=true">>))
    BY <1>3
  <2>2. JudgedAs(<<"git">> \o (<<"-c", "k=v">> \o (<<"config">> \o <<"core.bare=true">>)),
               ReasonWith("config", ToSet(<<"core.bare=true">>)))
    BY <1>2, <1>3, <1>4, <2>1
  <2>3. QED
    BY <2>1, <2>2, ToSetOfWords, Refusals
<1>9. JudgedAs(<<"git", "--git-dir", "commit", "log", "--no-verify">>, None)
  <2>1. /\ <<"--no-verify">> \in Seq(WrapWords)
        /\ <<"git", "--git-dir", "commit", "log", "--no-verify">>
             = <<"git">> \o (<<"--git-dir", "commit">> \o (<<"log">> \o <<"--no-verify">>))
    BY <1>3
  <2>2. JudgedAs(<<"git">> \o (<<"--git-dir", "commit">> \o (<<"log">> \o <<"--no-verify">>)),
               ReasonWith("log", ToSet(<<"--no-verify">>)))
    BY <1>2, <1>3, <1>4, <2>1
  <2>3. QED
    BY <2>1, <2>2, ToSetOfWords, Refusals
<1>10. JudgedAs(<<"git", "config", "--get", "core.bare", "true">>, None)
  <2>1. /\ <<"--get", "core.bare", "true">> \in Seq(WrapWords)
        /\ <<"git", "config", "--get", "core.bare", "true">>
             = <<"git">> \o (<<"config">> \o <<"--get", "core.bare", "true">>)
    BY <1>3
  <2>2. JudgedAs(<<"git">> \o (<<"config">> \o <<"--get", "core.bare", "true">>),
               ReasonWith("config", ToSet(<<"--get", "core.bare", "true">>)))
    BY <1>1, <1>3, <1>4, <2>1
  <2>3. ToSet(<<"--get", "core.bare", "true">>) = {"--get", "core.bare", "true"}
    BY Zenon, ToSetOfThree
  <2>4. ReasonWith("config", {"--get", "core.bare", "true"}) = None
    BY Refusals
  <2>5. QED
    BY <2>1, <2>2, <2>3, <2>4, Zenon
<1>11. JudgedAs(<<"echo", "git", "commit", "--no-verify", "LEFTHOOK=0">>, None)
  <2> DEFINE x == <<"git", "commit", "--no-verify", "LEFTHOOK=0">>
             inv == <<"echo">> \o x
  <2>1. /\ x \in Seq(WrapWords)
        /\ <<"echo", "git", "commit", "--no-verify", "LEFTHOOK=0">> = inv
    BY <1>3
  <2> HIDE DEF x
  <2>2. /\ inv \in Seq(WrapWords) /\ StripLeadingNoise(inv) = inv
        /\ Runs(inv) /\ inv # <<>> /\ inv[1] = "echo" /\ Tail(inv) = x
    BY <2>1, NothingStripped
  <2> HIDE DEF inv
  <2>3. Base(inv[1]) # "git"
    BY <2>2, Zenon DEF Base, Directories
  <2>4. GitSubcommand(inv) = <<>>
    BY <2>3 DEF GitSubcommand
  <2>5. JudgedAs(inv, None)
    BY <2>2, <2>4 DEF JudgedAs
  <2>6. QED
    BY <2>1, <2>5
<1>12. ASSUME NEW i \in Invocations PROVE JudgedAs(i[1], i[2])
  <2>1. ASSUME NEW v, NEW reason, i = <<v, reason>>, JudgedAs(v, reason) PROVE JudgedAs(i[1], i[2])
    BY <2>1
  <2>2. QED
    BY <1>5, <1>6, <1>7, <1>8, <1>9, <1>10, <1>11, <2>1, Zenon DEF Invocations
<1>13. QED
  BY <1>12

\* Wrappers change nothing about what git is refused for, but that they may
\* switch lefthook off, however many of them there are.
LEMMA AlwaysTransparent ==
  ASSUME NEW s \in Seq(Wrappers)
  PROVE  WrappersTransparentFor(s)
<1> SUFFICES ASSUME NEW i \in Invocations
             PROVE  GitReason(FlattenSeq(s) \o i[1]) =
                        IF \E w \in ToSet(s) : ToSet(w) \intersect LefthookOff # {}
                        THEN "lefthook" ELSE i[2]
  BY DEF WrappersTransparentFor
<1> DEFINE inv == i[1]
           v == FlattenSeq(s) \o inv
           off == \E w \in ToSet(s) : ToSet(w) \intersect LefthookOff # {}
<1>1. JudgedAs(inv, i[2])
  BY InvocationsJudged
<1> HIDE DEF inv
<1>2. /\ inv \in Seq(WrapWords) /\ Runs(inv) /\ StripLeadingNoise(inv) = inv
      /\ (IF GitSubcommand(inv) # <<>> THEN ReasonFor(GitSubcommand(inv)) ELSE None) = i[2]
  BY <1>1 DEF JudgedAs
<1>3. StripLeadingNoise(v) = inv /\ (DisablesLefthook(v) <=> off)
  BY <1>2, LefthookDisabled
<1> HIDE DEF v, off
<1>4. GitReason(v) = IF off THEN "lefthook" ELSE i[2]
  BY <1>2, <1>3, ReasonOf
<1>5. QED
  BY <1>4 DEF v, off, inv

-----------------------------------------------------------------------------
(***************************************************************************)
(* Here-documents: what one holds depends on its terminator alone, and the *)
(* segments that spell a terminator are as many as the bodies it ends.     *)
(***************************************************************************)
\* What ends the here-documents that are still to be read.
Pending == {<<>>, <<"M">>, <<"A">>, <<"B">>, <<"A", "B">>}

LEMMA PendingTail == \A s \in Pending \ {<<>>} : Tail(s) \in Pending
<1>1. /\ Tail(<<"M">>) = <<>> /\ Tail(<<"A">>) = <<>> /\ Tail(<<"B">>) = <<>>
      /\ Tail(<<"A", "B">>) = <<"B">>
  OBVIOUS
<1>2. QED
  BY <1>1 DEF Pending

\* The line mentions m, and o are the terminators of its own here-documents.
Reads(line, m, o) == line.mention = m /\ line.own = o

LEMMA LineShapes ==
  ASSUME NEW line \in HeredocLines
  PROVE  \/ Reads(line, None, <<>>)
         \/ \E m \in {"M", "A"} : Reads(line, m, <<>>)
         \/ \E a \in {"A", "B"} : Reads(line, None, <<a>>)
         \/ Reads(line, None, <<"A", "B">>)
         \/ Reads(line, "M", <<"A">>)
<1>1. ASSUME NEW m, NEW o, NEW e, line = Line(m, o, e) PROVE Reads(line, m, o)
  BY <1>1 DEF Line, Reads
<1>2. \/ Reads(line, None, <<>>) \/ Reads(line, "M", <<>>) \/ Reads(line, "A", <<>>)
      \/ Reads(line, None, <<"A">>) \/ Reads(line, None, <<"B">>)
      \/ Reads(line, None, <<"A", "B">>) \/ Reads(line, "M", <<"A">>)
  BY <1>1 DEF HeredocLines
<1>3. QED
  BY <1>2

\* What the patterns and the shell read in a line that is not crowded is the same,
\* and they name nothing that it neither mentions nor has.
ReadAlike(line) ==
    /\ line.own \in Pending /\ Named[line] \in Pending
    /\ ~Crowded(line) /\ line.own # <<>> =>
          \E name : line.own = <<name>> /\ Named[line] = <<name>>
    /\ \A name :
          /\ ~Crowded(line) /\ name \in ToSet(line.own) => Named[line] = <<name>>
          /\ Named[line] = <<name>> => line.mention = name \/ name \in ToSet(line.own)

LEMMA LinesReadAlike == \A line \in HeredocLines : ReadAlike(line)
<1> SUFFICES ASSUME NEW line \in HeredocLines PROVE ReadAlike(line)
  OBVIOUS
<1> DEFINE m == line.mention
           o == line.own
<1>1. Named[line] = CASE m # None -> <<m>>
                      [] m = None /\ o # <<>> -> <<Head(o)>>
                      [] OTHER -> <<>>
  BY DEF Named
<1>2. ToSet(<<>>) = {} /\ \A a, b : ToSet(<<a>>) = {a} /\ ToSet(<<a, b>>) = {a, b}
  BY DEF ToSet
<1>3. "M" # None /\ "A" # None /\ "B" # None /\ "M" # "A"
  BY DEF None
<1>4. /\ \A a : <<a>> # <<>> /\ Head(<<a>>) = a /\ Len(<<a>>) = 1
      /\ \A a, b : <<a, b>> # <<>> /\ Head(<<a, b>>) = a /\ Len(<<a, b>>) = 2
      /\ \A a, b : <<a>> = <<b>> => a = b
  OBVIOUS
<1>5. CASE Reads(line, None, <<>>)
  <2>1. m = None /\ o = <<>>
    BY <1>5 DEF Reads
  <2>2. Named[line] = <<>>
    BY <1>1, <2>1
  <2>3. QED
    BY <1>2, <1>4, <2>1, <2>2 DEF ReadAlike, Pending
<1>6. CASE \E x \in {"M", "A"} : Reads(line, x, <<>>)
  <2>1. o = <<>> /\ m \in {"M", "A"} /\ m # None
    BY <1>3, <1>6 DEF Reads
  <2>2. Named[line] = <<m>>
    BY <1>1, <2>1
  <2>3. <<m>> \in Pending
    BY <2>1 DEF Pending
  <2>4. QED
    BY <1>2, <1>4, <2>1, <2>2, <2>3 DEF ReadAlike, Pending
<1>7. CASE \E a \in {"A", "B"} : Reads(line, None, <<a>>)
  <2>1. PICK a \in {"A", "B"} : m = None /\ o = <<a>>
    BY <1>7 DEF Reads
  <2>2. Named[line] = <<a>>
    BY <1>1, <1>4, <2>1
  <2>3. <<a>> \in Pending
    BY DEF Pending
  <2>4. ToSet(o) = {a}
    BY <1>2, <2>1
  <2>5. QED
    BY <1>4, <2>1, <2>2, <2>3, <2>4 DEF ReadAlike
<1>8. CASE Reads(line, None, <<"A", "B">>)
  <2>1. m = None /\ o = <<"A", "B">>
    BY <1>8 DEF Reads
  <2>2. Named[line] = <<"A">>
    BY <1>1, <1>4, <2>1
  <2>3. "A" \in ToSet(o)
    BY <1>2, <2>1
  <2>4. Crowded(line)
    BY <1>4, <2>1 DEF Crowded
  <2>5. QED
    BY <1>4, <2>1, <2>2, <2>3, <2>4 DEF ReadAlike, Pending
<1>9. CASE Reads(line, "M", <<"A">>)
  <2>1. m = "M" /\ o = <<"A">>
    BY <1>9 DEF Reads
  <2>2. Named[line] = <<"M">>
    BY <1>1, <1>3, <2>1
  <2>3. Crowded(line)
    BY <1>3, <1>4, <2>1 DEF Crowded
  <2>4. QED
    BY <1>4, <2>1, <2>2, <2>3 DEF ReadAlike, Pending
<1>10. QED
  BY <1>5, <1>6, <1>7, <1>8, <1>9, LineShapes

\* What the patterns and the shell read in a line is pending after it.
LEMMA LineFacts ==
  /\ Named \in [HeredocLines -> Pending] /\ Real \in [HeredocLines -> Pending]
  /\ \A line \in HeredocLines : Real[line] = line.own
<1>1. \A line \in HeredocLines : line.own \in Pending /\ Named[line] \in Pending
  BY LinesReadAlike DEF ReadAlike
<1>2. DOMAIN Named = HeredocLines /\ Named = [line \in HeredocLines |-> Named[line]]
  BY DEF Named
<1>3. \A line \in HeredocLines : Real[line] = line.own
  BY DEF Real
<1>4. Real = [line \in HeredocLines |-> line.own]
  BY DEF Real
<1>5. QED
  BY <1>1, <1>2, <1>3, <1>4

\* Within, whose definition chooses a recursive function, is that scan.
LEMMA WithinScans ==
  ASSUME NEW lines \in Seq(HeredocLines), NEW opens \in [HeredocLines -> Pending]
  PROVE  /\ Within(lines, opens)[1] = <<>>
         /\ \A i \in 1..Len(lines) :
                Within(lines, opens)[i + 1] =
                    IF Within(lines, opens)[i] = <<>> THEN opens[lines[i]]
                    ELSE IF lines[i].ends = Head(Within(lines, opens)[i])
                         THEN Tail(Within(lines, opens)[i])
                         ELSE Within(lines, opens)[i]
<1> DEFINE n == Len(lines) + 1
           after(before, i) == IF before = <<>> THEN opens[lines[i]]
                               ELSE IF lines[i].ends = Head(before) THEN Tail(before)
                                    ELSE before
           next == [x \in Pending \X Nat |->
                       IF x[2] \in 2..n THEN after(x[1], x[2] - 1) ELSE <<>>]
           step(f, i) == IF i = 1 THEN <<>>
            ELSE IF f[i - 1] = <<>> THEN opens[lines[i - 1]]
                 ELSE IF lines[i - 1].ends = Head(f[i - 1]) THEN Tail(f[i - 1])
                      ELSE f[i - 1]
           within == CHOOSE f : f = [i \in 1..Len(lines) + 1 |-> step(f, i)]
<1>1. Len(lines) \in Nat /\ n \in Nat /\ <<>> \in Pending
  BY DEF Pending
<1>2. ASSUME NEW i \in 1..Len(lines) PROVE lines[i] \in HeredocLines
  OBVIOUS
<1>3. next \in [Pending \X Nat -> Pending]
  <2>1. ASSUME NEW before \in Pending, NEW i \in 2..n PROVE after(before, i - 1) \in Pending
    <3>1. i - 1 \in 1..Len(lines)
      BY <1>1
    <3>2. before # <<>> => Tail(before) \in Pending
      BY PendingTail
    <3>3. QED
      BY <3>1, <3>2, <1>1, <1>2
  <2> HIDE DEF after
  <2>2. QED
    BY <2>1, <1>1
<1>4. \E f : f = [i \in 1..Len(lines) + 1 |-> step(f, i)]
  <2>1. PICK f \in [1..n -> Pending] : Scans(f, n, <<>>, next)
    BY <1>1, <1>3, ScanExists
  <2>2. ASSUME NEW i \in 1..n PROVE f[i] = step(f, i)
    <3>1. f[i] = IF i = 1 THEN <<>> ELSE next[<<f[i - 1], i>>]
      BY <2>1 DEF Scans
    <3>2. CASE i = 1
      BY <3>1, <3>2
    <3>3. CASE i # 1
      <4>1. i \in 2..n /\ i - 1 \in 1..n /\ i \in Nat
        BY <3>3, <1>1
      <4>2. f[i - 1] \in Pending
        BY <2>1, <4>1
      <4>3. next[<<f[i - 1], i>>] = after(f[i - 1], i - 1)
        <5> HIDE DEF after
        <5> QED BY <4>1, <4>2
      <4>4. QED
        BY <3>1, <3>3, <4>3
    <3>4. QED
      BY <3>2, <3>3
  <2> HIDE DEF step
  <2>3. f = [i \in 1..n |-> f[i]]
    BY <2>1
  <2>4. QED
    BY <2>2, <2>3
<1>5. within = [i \in 1..Len(lines) + 1 |-> step(within, i)]
  <2> HIDE DEF step
  <2>1. QED
    BY <1>4
<1>6. Within(lines, opens) = within
  BY DEF Within
<1> HIDE DEF within, step
<1>7. QED
  <2>1. within[1] = <<>>
    BY <1>1, <1>5 DEF step
  <2>2. ASSUME NEW i \in 1..Len(lines)
        PROVE  within[i + 1] = after(within[i], i)
    <3>1. i + 1 \in 1..Len(lines) + 1 /\ i + 1 # 1 /\ (i + 1) - 1 = i
      BY <1>1
    <3>2. within[i + 1] = step(within, i + 1)
      BY <1>5, <3>1
    <3>3. QED
      BY <3>1, <3>2 DEF step
  <2>3. QED
    BY <1>6, <2>1, <2>2

\* The lines that follow line i up to the one that spells term, less that one.
Until(lines, i, term) ==
    {j \in i + 1..Len(lines) : \A k \in i + 1..j : lines[k].ends # term}

\* What the first here-document of a line holds depends on its terminator alone.
LEMMA BodyIsUntil ==
  ASSUME NEW lines \in Seq(HeredocLines), NEW opens \in [HeredocLines -> Pending],
         NEW i \in 1..Len(lines), Within(lines, opens)[i] = <<>>,
         opens[lines[i]] # <<>>
  PROVE  Body(lines, opens, i) = Until(lines, i, Head(opens[lines[i]]))
<1> DEFINE w == Within(lines, opens)
           term == opens[lines[i]]
           Good == {m \in Nat :
                      (/\ i + m <= Len(lines)
                       /\ \A k \in i + 1..i + m : lines[k].ends # Head(term))
                      => w[i + m + 1] = term}
<1>1. \A k \in 1..Len(lines) :
         w[k + 1] = IF w[k] = <<>> THEN opens[lines[k]]
                    ELSE IF lines[k].ends = Head(w[k]) THEN Tail(w[k]) ELSE w[k]
  BY WithinScans
<1>2. w[i] = <<>> /\ term # <<>> /\ i \in Nat /\ Len(lines) \in Nat /\ i <= Len(lines)
  OBVIOUS
<1>3. Body(lines, opens, i) =
        {j \in i + 1..Len(lines) :
            \A k \in i + 1..j : w[k] # <<>> /\ lines[k].ends # Head(term)}
  BY DEF Body
<1>4. w[i + 1] = term
  BY <1>1, <1>2
<1> HIDE DEF w, term
<1>5. 0 \in Good
  BY <1>2, <1>4
<1>6. ASSUME NEW m \in Nat, m \in Good PROVE m + 1 \in Good
  <2> SUFFICES ASSUME i + (m + 1) <= Len(lines),
                      \A k \in i + 1..i + (m + 1) : lines[k].ends # Head(term)
               PROVE  w[i + (m + 1) + 1] = term
    OBVIOUS
  <2>1. \A k \in i + 1..i + m : lines[k].ends # Head(term)
    BY <1>2
  <2>2. w[i + m + 1] = term
    BY <2>1, <1>6, <1>2
  <2>3. i + m + 1 \in 1..Len(lines) /\ i + m + 1 \in i + 1..i + (m + 1)
        /\ i + (m + 1) + 1 = (i + m + 1) + 1
    BY <1>2
  <2>4. lines[i + m + 1].ends # Head(term)
    BY <2>3
  <2>5. QED
    BY <1>1, <1>2, <2>2, <2>3, <2>4
<1>7. Nat \subseteq Good
  <2> HIDE DEF Good
  <2> QED BY <1>5, <1>6, Induction
<1>8. ASSUME NEW j \in i + 1..Len(lines), \A k \in i + 1..j : lines[k].ends # Head(term),
             NEW k \in i + 1..j
      PROVE  w[k] # <<>>
  <2>1. k - 1 - i \in Nat /\ i + (k - 1 - i) <= Len(lines)
        /\ i + (k - 1 - i) + 1 = k /\ i + (k - 1 - i) <= j
    BY <1>2
  <2>2. \A l \in i + 1..i + (k - 1 - i) : lines[l].ends # Head(term)
    BY <1>2, <1>8, <2>1
  <2>3. k - 1 - i \in Good
    BY <1>7, <2>1
  <2>4. w[i + (k - 1 - i) + 1] = term
    BY <2>1, <2>2, <2>3
  <2>5. QED
    BY <2>1, <2>4, <1>2
<1>9. QED
  BY <1>3, <1>8 DEF Until, term

\* Of some numbers, only one is at its place.
LEMMA AtItsPlace ==
  ASSUME NEW pool \in SUBSET Nat, NEW i \in pool, NEW j \in pool,
         Cardinality({k \in pool : k <= j}) = Cardinality({k \in pool : k <= i})
  PROVE  i = j
<1>1. ASSUME NEW a \in pool, NEW b \in pool, a < b,
             Cardinality({k \in pool : k <= a}) = Cardinality({k \in pool : k <= b})
      PROVE  FALSE
  <2> DEFINE A == {k \in pool : k <= a}
             B == {k \in pool : k <= b}
  <2>1. a \in Nat /\ b \in Nat /\ \A k \in pool : k \in Nat
    OBVIOUS
  <2>2. ASSUME NEW k \in pool
        PROVE  (k <= b => k \in 0..b) /\ (k <= a => k <= b) /\ b <= b /\ ~(b <= a)
    BY <2>1, <1>1
  <2>3. B \subseteq 0..b /\ A \subseteq B /\ b \in B /\ b \notin A
    BY <2>2, Zenon
  <2>4. Cardinality(A) = Cardinality(B)
    BY <1>1
  <2> HIDE DEF A, B
  <2>5. IsFiniteSet(0..b)
    BY <2>1, FS_Interval
  <2>6. IsFiniteSet(B)
    BY <2>3, <2>5, FS_Subset
  <2>7. Cardinality(B) = Cardinality(A) => B = A
    BY <2>6, <2>3, FS_Subset
  <2>8. QED
    BY <2>3, <2>4, <2>7
<1>2. i \in Nat /\ j \in Nat
  OBVIOUS
<1>3. i < j \/ j < i \/ i = j
  BY <1>2
<1>4. QED
  BY <1>1, <1>3

\* So a segment is handed the body it reads, if the scan can tell it from others.
LEMMA AlwaysOwnBodies ==
  ASSUME NEW lines \in Seq(HeredocLines)
  PROVE  OwnBodies(lines)
<1> SUFFICES ASSUME NEW i \in KeptLines(lines), Within(lines, Real)[i] = <<>>,
                    ToldApart(lines, i)
             PROVE  Claimed(lines, i) = IF lines[i].own = <<>> THEN {}
                                        ELSE Body(lines, Real, i)
  BY DEF OwnBodies
<1>1. /\ i \in 1..Len(lines) /\ Len(lines) \in Nat /\ lines[i] \in HeredocLines
      /\ Within(lines, Named)[i] = <<>>
      /\ KeptLines(lines) \in SUBSET Nat
      /\ \A j \in KeptLines(lines) : lines[j] \in HeredocLines
  BY DEF KeptLines
<1>2. CASE lines[i].own = <<>>
  <2>1. ToSet(lines[i].own) = {}
    BY <1>2 DEF ToSet
  <2>2. QED
    BY <1>2, <2>1 DEF Claimed
<1>3. CASE lines[i].own # <<>>
  <2>1. /\ \A j \in KeptLines(lines) : j <= i => ~Crowded(lines[j])
        /\ \A j \in KeptLines(lines) : j < i => lines[j].mention \notin ToSet(lines[i].own)
    BY DEF ToldApart
  <2>2. ~Crowded(lines[i])
    BY <1>1, <2>1
  <2>3. PICK name : lines[i].own = <<name>> /\ Named[lines[i]] = <<name>>
    BY <1>1, <1>3, <2>2, LinesReadAlike DEF ReadAlike
  <2>4. ToSet(lines[i].own) = {name}
    BY <2>3 DEF ToSet
  <2> DEFINE pool == {j \in KeptLines(lines) : Named[lines[j]] = <<name>>}
             asking == {j \in KeptLines(lines) : j <= i /\ name \in ToSet(lines[j].own)}
             due == {j \in pool : Cardinality({k \in pool : k <= j}) = Cardinality(asking)}
  <2>5. Due(lines, i, name) = due
    BY DEF Due
  <2>6. i \in pool /\ pool \in SUBSET Nat
    BY <1>1, <2>3
  <2>7. ASSUME NEW j \in KeptLines(lines), j <= i
        PROVE  Named[lines[j]] = <<name>> <=> name \in ToSet(lines[j].own)
    <3>1. j = i \/ j < i
      BY <1>1, <2>7
    <3>2. ReadAlike(lines[j]) /\ ~Crowded(lines[j])
      BY <1>1, <2>1, <2>7, LinesReadAlike
    <3>3. name \in ToSet(lines[j].own) => Named[lines[j]] = <<name>>
      BY <3>2 DEF ReadAlike
    <3>4. j < i => lines[j].mention # name
      BY <2>1, <2>4
    <3>5. Named[lines[j]] = <<name>> => lines[j].mention = name \/ name \in ToSet(lines[j].own)
      BY <3>2 DEF ReadAlike
    <3>6. j = i => name \in ToSet(lines[j].own)
      BY <2>4
    <3>7. QED
      BY <3>1, <3>3, <3>4, <3>5, <3>6
  <2>8. asking = {k \in pool : k <= i}
    BY <2>7
  <2>9. due = {j \in pool : Cardinality({k \in pool : k <= j}) =
                            Cardinality({k \in pool : k <= i})}
    BY <2>8
  <2>10. due = {i}
    <3> HIDE DEF pool, asking, due
    <3>1. \A j \in due : j \in pool /\ i = j
      BY <2>6, <2>9, AtItsPlace
    <3>2. i \in due
      BY <2>6, <2>9
    <3>3. QED
      BY <3>1, <3>2
  <2>11. Claimed(lines, i) = Body(lines, Named, i)
    <3> HIDE DEF due
    <3>1. UNION {Due(lines, i, x) : x \in ToSet(lines[i].own)} = {i}
      BY <2>4, <2>5, <2>10
    <3>2. QED
      BY <3>1 DEF Claimed
  <2>12. Head(<<name>>) = name /\ <<name>> # <<>>
    OBVIOUS
  <2>13. Body(lines, Named, i) = Until(lines, i, name)
    BY <1>1, <2>3, <2>12, BodyIsUntil, LineFacts
  <2>14. Body(lines, Real, i) = Until(lines, i, name)
    <3>1. Real[lines[i]] = <<name>> /\ Real \in [HeredocLines -> Pending]
      BY <1>1, <2>3, LineFacts
    <3>2. Within(lines, Real)[i] = <<>>
      OBVIOUS
    <3>3. QED
      BY <1>1, <2>12, <3>1, <3>2, BodyIsUntil
  <2>15. QED
    BY <1>3, <2>11, <2>13, <2>14
<1>4. QED
  BY <1>2, <1>3

-----------------------------------------------------------------------------
(***************************************************************************)
(* Comments: the scan for them passes from one piece to the next.          *)
(***************************************************************************)
\* What the scan of _strip_jsonc_comments knows after char, before next.
ReadOn(before, char, next) ==
    CASE before = "value" /\ char = "q" -> "string"
      [] before = "value" /\ <<char, next>> = <<"/", "/">> -> "line"
      [] before = "value" /\ <<char, next>> = <<"/", "*">> -> "open"
      [] before = "string" /\ char = "q" -> "value"
      [] before = "string" /\ char = "\\" -> "escaped"
      [] before = "escaped" -> "string"
      [] before = "line" /\ next = "nl" -> "value"
      [] before = "open" -> "block"
      [] before = "block" /\ <<char, next>> = <<"*", "/">> -> "close"
      [] before = "close" -> "value"
      [] OTHER -> before

Values == {"value", "string", "escaped"}
Readings == Values \union {"line", "open", "block", "close"}

LEMMA ReadOnType ==
  ASSUME NEW before \in Readings, NEW char, NEW next
  PROVE  ReadOn(before, char, next) \in Readings
BY DEF ReadOn, Readings, Values

\* Reading, whose definition chooses a recursive function, is that scan.
LEMMA ReadingScans ==
  ASSUME NEW S, NEW text \in Seq(S)
  PROVE  /\ Reading(text)[1] = "value"
         /\ \A i \in 1..Len(text) :
                Reading(text)[i + 1] = ReadOn(Reading(text)[i], text[i], At(text, i + 1))
<1> DEFINE n == Len(text) + 1
           next == [x \in Readings \X Nat |-> ReadOn(x[1], At(text, x[2] - 1), At(text, x[2]))]
           step(f, i) ==
            IF i = 1 THEN "value"
            ELSE LET before == f[i - 1]
                     char == text[i - 1]
                     pair == <<char, At(text, i)>>
                 IN CASE before = "value" /\ char = "q" -> "string"
                      [] before = "value" /\ pair = <<"/", "/">> -> "line"
                      [] before = "value" /\ pair = <<"/", "*">> -> "open"
                      [] before = "string" /\ char = "q" -> "value"
                      [] before = "string" /\ char = "\\" -> "escaped"
                      [] before = "escaped" -> "string"
                      [] before = "line" /\ At(text, i) = "nl" -> "value"
                      [] before = "open" -> "block"
                      [] before = "block" /\ pair = <<"*", "/">> -> "close"
                      [] before = "close" -> "value"
                      [] OTHER -> before
           reading == CHOOSE f : f = [i \in 1..Len(text) + 1 |-> step(f, i)]
<1>1. Len(text) \in Nat /\ n \in Nat /\ DOMAIN text = 1..Len(text) /\ "value" \in Readings
  BY DEF Readings, Values
<1>2. next \in [Readings \X Nat -> Readings]
  BY ReadOnType
<1>3. ASSUME NEW f, NEW i \in 2..n
      PROVE  step(f, i) = ReadOn(f[i - 1], text[i - 1], At(text, i))
  BY <1>1 DEF ReadOn
<1>4. \E f : f = [i \in 1..Len(text) + 1 |-> step(f, i)]
  <2>1. PICK f \in [1..n -> Readings] : Scans(f, n, "value", next)
    BY <1>1, <1>2, ScanExists
  <2>2. ASSUME NEW i \in 1..n PROVE f[i] = step(f, i)
    <3>1. f[i] = IF i = 1 THEN "value" ELSE next[<<f[i - 1], i>>]
      BY <2>1 DEF Scans
    <3>2. CASE i = 1
      BY <3>1, <3>2
    <3>3. CASE i # 1
      <4>1. i \in 2..n /\ i - 1 \in 1..n /\ i \in Nat /\ i - 1 \in DOMAIN text
        BY <3>3, <1>1
      <4>2. f[i - 1] \in Readings
        BY <2>1, <4>1
      <4>3. next[<<f[i - 1], i>>] = ReadOn(f[i - 1], text[i - 1], At(text, i))
        BY <4>1, <4>2 DEF At
      <4>4. QED
        BY <3>1, <3>3, <4>1, <4>3, <1>3
    <3>4. QED
      BY <3>2, <3>3
  <2> HIDE DEF step
  <2>3. f = [i \in 1..n |-> f[i]]
    BY <2>1
  <2>4. QED
    BY <2>2, <2>3
<1>5. reading = [i \in 1..Len(text) + 1 |-> step(reading, i)]
  <2> HIDE DEF step
  <2>1. QED
    BY <1>4
<1>6. Reading(text) = reading
  BY DEF Reading
<1> HIDE DEF reading, step
<1>7. QED
  <2>1. reading[1] = "value"
    BY <1>1, <1>5 DEF step
  <2>2. ASSUME NEW i \in 1..Len(text)
        PROVE  reading[i + 1] = ReadOn(reading[i], text[i], At(text, i + 1))
    <3>1. i + 1 \in 2..n /\ i + 1 \in 1..Len(text) + 1 /\ (i + 1) - 1 = i
      BY <1>1
    <3>2. QED
      BY <1>3, <1>5, <3>1
  <2>3. QED
    BY <1>6, <2>1, <2>2

\* What is known within a text does not depend on what follows it.
LEMMA ReadingOfPrefix ==
  ASSUME NEW S, NEW t \in Seq(S), NEW q \in Seq(S)
  PROVE  \A i \in 1..Len(t) : Reading(t \o q)[i] = Reading(t)[i]
<1> DEFINE u == t \o q
           Same == {i \in 1..Len(t) : Reading(u)[i] = Reading(t)[i]}
<1>1. /\ u \in Seq(S) /\ Len(t) \in Nat /\ Len(u) = Len(t) + Len(q) /\ Len(q) \in Nat
      /\ \A i \in 1..Len(t) : u[i] = t[i] /\ At(u, i) = At(t, i)
  BY ConcatAt
<1> HIDE DEF u
<1>2. /\ Reading(u)[1] = "value" /\ Reading(t)[1] = "value"
      /\ \A i \in 1..Len(u) : Reading(u)[i + 1] = ReadOn(Reading(u)[i], u[i], At(u, i + 1))
      /\ \A i \in 1..Len(t) : Reading(t)[i + 1] = ReadOn(Reading(t)[i], t[i], At(t, i + 1))
  BY <1>1, ReadingScans
<1>3. CASE Len(t) = 0
  BY <1>3
<1>4. CASE Len(t) # 0
  <2>1. 1 \in Same
    BY <1>1, <1>2, <1>4
  <2>2. ASSUME NEW i \in 1..Len(t) - 1, Reading(u)[i] = Reading(t)[i] PROVE i + 1 \in Same
    <3>1. i \in 1..Len(t) /\ i + 1 \in 1..Len(t) /\ i \in 1..Len(u)
      BY <1>1
    <3>2. Reading(u)[i + 1] = ReadOn(Reading(u)[i], u[i], At(u, i + 1))
      BY <1>2, <3>1
    <3>3. Reading(t)[i + 1] = ReadOn(Reading(t)[i], t[i], At(t, i + 1))
      BY <1>2, <3>1
    <3>4. QED
      BY <1>1, <2>2, <3>1, <3>2, <3>3
  <2>3. \A i \in 1..Len(t) - 1 : i \in Same => i + 1 \in Same
    BY <2>2
  <2> HIDE DEF Same
  <2>4. 1..Len(t) \subseteq Same
    BY <1>1, <2>1, <2>3, InductionUpTo
  <2>5. QED
    BY <2>4 DEF Same, u
<1>5. QED
  BY <1>3, <1>4

\* f is what is known within a piece, and before c, which follows it.
ReadThrough(f, q, c) ==
    /\ \A k \in 1..Len(q) - 1 : f[k + 1] = ReadOn(f[k], q[k], q[k + 1])
    /\ f[Len(q) + 1] = ReadOn(f[Len(q)], q[Len(q)], c)

\* A character is left if it is in a value and begins no comment.
Shown(f, k) == f[k] \in Values /\ f[k + 1] \notin {"line", "open"}

\* The last characters of a piece are left, as many as it says, and it leaves
\* nothing open.
LEMMA PieceRead ==
  ASSUME NEW q \in ConfigPieces, NEW f, NEW next, ReadThrough(f, q, next), f[1] = "value"
  PROVE  /\ Len(q) \in Nat \ {0} /\ Left(q) \in 0..Len(q)
         /\ \A k \in 1..Len(q) : Shown(f, k) <=> k + Left(q) > Len(q)
         /\ \A c : ReadOn(f[Len(q)], q[Len(q)], c) = "value"
         /\ f[Len(q) + 1] = "value"
<1> DEFINE Steps(n) == \A k \in 1..n - 1 : f[k + 1] = ReadOn(f[k], q[k], q[k + 1])
<1>1. Steps(2) => f[2] = ReadOn(f[1], q[1], q[2])
  OBVIOUS
<1>2. Steps(3) => Steps(2) /\ f[3] = ReadOn(f[2], q[2], q[3])
  OBVIOUS
<1>3. Steps(4) => Steps(3) /\ f[4] = ReadOn(f[3], q[3], q[4])
  OBVIOUS
<1>4. Steps(5) => Steps(4) /\ f[5] = ReadOn(f[4], q[4], q[5])
  OBVIOUS
<1>5. Steps(6) => Steps(5) /\ f[6] = ReadOn(f[5], q[5], q[6])
  OBVIOUS
<1>6. Steps(7) => Steps(6) /\ f[7] = ReadOn(f[6], q[6], q[7])
  OBVIOUS
<1>7. Steps(Len(q))
  BY DEF ReadThrough
<1> HIDE DEF Steps
<1>8. CASE q = <<"x">>
  <2>1. Len(q) = 1 /\ q[1] = "x"
    BY <1>8
  <2>2. Left(q) = 1
    BY <2>1 DEF Left
  <2>4. \A c : ReadOn(f[1], q[1], c) = "value"
    BY <2>1 DEF ReadOn
  <2>5. f[2] = "value"
    BY <2>1, <2>4 DEF ReadThrough
  <2>6. /\ Shown(f, 1)
    BY <2>5 DEF Shown, Values
  <2>7. QED
    BY <2>1, <2>2, <2>4, <2>5, <2>6
<1>9. CASE q = <<"q", "/", "/", "q">>
  <2>1. Len(q) = 4 /\ q[1] = "q" /\ q[2] = "/" /\ q[3] = "/" /\ q[4] = "q"
    BY <1>9
  <2>2. Left(q) = 4
    BY <2>1 DEF Left
  <2>3. f[2] = "string" /\ f[3] = "string" /\ f[4] = "string"
    BY <1>3, <1>2, <1>1, <1>7, <2>1 DEF ReadOn
  <2>4. \A c : ReadOn(f[4], q[4], c) = "value"
    BY <2>1, <2>3 DEF ReadOn
  <2>5. f[5] = "value"
    BY <2>1, <2>4 DEF ReadThrough
  <2>6. /\ Shown(f, 1)
        /\ Shown(f, 2)
        /\ Shown(f, 3)
        /\ Shown(f, 4)
    BY <2>3, <2>5 DEF Shown, Values
  <2>7. QED
    BY <2>1, <2>2, <2>4, <2>5, <2>6
<1>10. CASE q = <<"q", "\\", "q", "/", "*", "q">>
  <2>1. Len(q) = 6 /\ q[1] = "q" /\ q[2] = "\\" /\ q[3] = "q" /\ q[4] = "/" /\ q[5] = "*" /\ q[6] = "q"
    BY <1>10
  <2>2. Left(q) = 6
    BY <2>1 DEF Left
  <2>3. f[2] = "string" /\ f[3] = "escaped" /\ f[4] = "string" /\ f[5] = "string" /\ f[6] = "string"
    BY <1>5, <1>4, <1>3, <1>2, <1>1, <1>7, <2>1 DEF ReadOn
  <2>4. \A c : ReadOn(f[6], q[6], c) = "value"
    BY <2>1, <2>3 DEF ReadOn
  <2>5. f[7] = "value"
    BY <2>1, <2>4 DEF ReadThrough
  <2>6. /\ Shown(f, 1)
        /\ Shown(f, 2)
        /\ Shown(f, 3)
        /\ Shown(f, 4)
        /\ Shown(f, 5)
        /\ Shown(f, 6)
    BY <2>3, <2>5 DEF Shown, Values
  <2>7. QED
    BY <2>1, <2>2, <2>4, <2>5, <2>6
<1>11. CASE q = <<"q", "\\", "\\", "q">>
  <2>1. Len(q) = 4 /\ q[1] = "q" /\ q[2] = "\\" /\ q[3] = "\\" /\ q[4] = "q"
    BY <1>11
  <2>2. Left(q) = 4
    BY <2>1 DEF Left
  <2>3. f[2] = "string" /\ f[3] = "escaped" /\ f[4] = "string"
    BY <1>3, <1>2, <1>1, <1>7, <2>1 DEF ReadOn
  <2>4. \A c : ReadOn(f[4], q[4], c) = "value"
    BY <2>1, <2>3 DEF ReadOn
  <2>5. f[5] = "value"
    BY <2>1, <2>4 DEF ReadThrough
  <2>6. /\ Shown(f, 1)
        /\ Shown(f, 2)
        /\ Shown(f, 3)
        /\ Shown(f, 4)
    BY <2>3, <2>5 DEF Shown, Values
  <2>7. QED
    BY <2>1, <2>2, <2>4, <2>5, <2>6
<1>12. CASE q = <<"/", "/", "q", "nl">>
  <2>1. Len(q) = 4 /\ q[1] = "/" /\ q[2] = "/" /\ q[3] = "q" /\ q[4] = "nl"
    BY <1>12
  <2>2. Left(q) = 1
    BY <2>1 DEF Left
  <2>3. f[2] = "line" /\ f[3] = "line" /\ f[4] = "value"
    BY <1>3, <1>2, <1>1, <1>7, <2>1 DEF ReadOn
  <2>4. \A c : ReadOn(f[4], q[4], c) = "value"
    BY <2>1, <2>3 DEF ReadOn
  <2>5. f[5] = "value"
    BY <2>1, <2>4 DEF ReadThrough
  <2>6. /\ ~Shown(f, 1)
        /\ ~Shown(f, 2)
        /\ ~Shown(f, 3)
        /\ Shown(f, 4)
    BY <2>3, <2>5 DEF Shown, Values
  <2>7. QED
    BY <2>1, <2>2, <2>4, <2>5, <2>6
<1>13. CASE q = <<"/", "/", "/", "*", "nl">>
  <2>1. Len(q) = 5 /\ q[1] = "/" /\ q[2] = "/" /\ q[3] = "/" /\ q[4] = "*" /\ q[5] = "nl"
    BY <1>13
  <2>2. Left(q) = 1
    BY <2>1 DEF Left
  <2>3. f[2] = "line" /\ f[3] = "line" /\ f[4] = "line" /\ f[5] = "value"
    BY <1>4, <1>3, <1>2, <1>1, <1>7, <2>1 DEF ReadOn
  <2>4. \A c : ReadOn(f[5], q[5], c) = "value"
    BY <2>1, <2>3 DEF ReadOn
  <2>5. f[6] = "value"
    BY <2>1, <2>4 DEF ReadThrough
  <2>6. /\ ~Shown(f, 1)
        /\ ~Shown(f, 2)
        /\ ~Shown(f, 3)
        /\ ~Shown(f, 4)
        /\ Shown(f, 5)
    BY <2>3, <2>5 DEF Shown, Values
  <2>7. QED
    BY <2>1, <2>2, <2>4, <2>5, <2>6
<1>14. CASE q = <<"/", "*", "/", "q", "*", "*", "/">>
  <2>1. Len(q) = 7 /\ q[1] = "/" /\ q[2] = "*" /\ q[3] = "/" /\ q[4] = "q" /\ q[5] = "*" /\ q[6] = "*" /\ q[7] = "/"
    BY <1>14
  <2>2. Left(q) = 0
    BY <2>1 DEF Left
  <2>3. f[2] = "open" /\ f[3] = "block" /\ f[4] = "block" /\ f[5] = "block" /\ f[6] = "block" /\ f[7] = "close"
    BY <1>6, <1>5, <1>4, <1>3, <1>2, <1>1, <1>7, <2>1 DEF ReadOn
  <2>4. \A c : ReadOn(f[7], q[7], c) = "value"
    BY <2>1, <2>3 DEF ReadOn
  <2>5. f[8] = "value"
    BY <2>1, <2>4 DEF ReadThrough
  <2>6. /\ ~Shown(f, 1)
        /\ ~Shown(f, 2)
        /\ ~Shown(f, 3)
        /\ ~Shown(f, 4)
        /\ ~Shown(f, 5)
        /\ ~Shown(f, 6)
        /\ ~Shown(f, 7)
    BY <2>3, <2>5 DEF Shown, Values
  <2>7. QED
    BY <2>1, <2>2, <2>4, <2>5, <2>6
<1>15. CASE q = <<"/", "*", "/", "/", "nl", "*", "/">>
  <2>1. Len(q) = 7 /\ q[1] = "/" /\ q[2] = "*" /\ q[3] = "/" /\ q[4] = "/" /\ q[5] = "nl" /\ q[6] = "*" /\ q[7] = "/"
    BY <1>15
  <2>2. Left(q) = 0
    BY <2>1 DEF Left
  <2>3. f[2] = "open" /\ f[3] = "block" /\ f[4] = "block" /\ f[5] = "block" /\ f[6] = "block" /\ f[7] = "close"
    BY <1>6, <1>5, <1>4, <1>3, <1>2, <1>1, <1>7, <2>1 DEF ReadOn
  <2>4. \A c : ReadOn(f[7], q[7], c) = "value"
    BY <2>1, <2>3 DEF ReadOn
  <2>5. f[8] = "value"
    BY <2>1, <2>4 DEF ReadThrough
  <2>6. /\ ~Shown(f, 1)
        /\ ~Shown(f, 2)
        /\ ~Shown(f, 3)
        /\ ~Shown(f, 4)
        /\ ~Shown(f, 5)
        /\ ~Shown(f, 6)
        /\ ~Shown(f, 7)
    BY <2>3, <2>5 DEF Shown, Values
  <2>7. QED
    BY <2>1, <2>2, <2>4, <2>5, <2>6
<1>16. QED
  BY <1>8, <1>9, <1>10, <1>11, <1>12, <1>13, <1>14, <1>15 DEF ConfigPieces

\* The characters of a configuration, and how many of a piece may be left.
ConfigChars == {"x", "q", "/", "\\", "*", "nl"}

LEMMA ConfigTypes ==
  ASSUME NEW p \in ConfigPieces
  PROVE  p \in Seq(ConfigChars) /\ Len(p) \in Nat \ {0}
<1> DEFINE C == ConfigChars
<1>1. "x" \in C /\ "q" \in C /\ "/" \in C /\ "\\" \in C /\ "*" \in C /\ "nl" \in C
  BY DEF ConfigChars
<1> HIDE DEF C
<1> SUFFICES p \in Seq(C) /\ Len(p) \in Nat \ {0}
  BY DEF C
<1>2. \/ \E a \in C : p = <<a>>
      \/ \E a, b, c, d \in C : p = <<a, b, c, d>>
      \/ \E a, b, c, d, e \in C : p = <<a, b, c, d, e>>
      \/ \E a, b, c, d, e, f \in C : p = <<a, b, c, d, e, f>>
      \/ \E a, b, c, d, e, f, g \in C : p = <<a, b, c, d, e, f, g>>
  BY <1>1, Zenon DEF ConfigPieces
<1>3. CASE \E a \in C : p = <<a>>
  BY <1>3
<1>4. CASE \E a, b, c, d \in C : p = <<a, b, c, d>>
  BY <1>4
<1>5. CASE \E a, b, c, d, e \in C : p = <<a, b, c, d, e>>
  BY <1>5
<1>6. CASE \E a, b, c, d, e, f \in C : p = <<a, b, c, d, e, f>>
  BY <1>6
<1>7. CASE \E a, b, c, d, e, f, g \in C : p = <<a, b, c, d, e, f, g>>
  BY <1>7
<1>8. QED
  BY <1>2, <1>3, <1>4, <1>5, <1>6, <1>7

\* What is left of the pieces.
Leavings(s) ==
    UNION {Offset(s, k + 1) - Left(s[k]) + 1..Offset(s, k + 1) : k \in DOMAIN s}

LEMMA LeavingsAppend ==
  ASSUME NEW S, NEW s \in Seq(Seq(S)), NEW p \in Seq(S), NEW e, e = Len(FlattenSeq(s)) + Len(p)
  PROVE  Leavings(Append(s, p)) = Leavings(s) \union (e - Left(p) + 1..e)
<1> DEFINE t == Append(s, p)
           n == Len(s)
           span(v, k) == Offset(v, k + 1) - Left(v[k]) + 1..Offset(v, k + 1)
<1>1. /\ n \in Nat /\ DOMAIN s = 1..n /\ DOMAIN t = 1..n + 1
      /\ t[n + 1] = p /\ \A k \in 1..n : t[k] = s[k]
  BY AppendProperties
<1>2. /\ \A k \in 1..n + 1 : Offset(t, k) = Offset(s, k)
      /\ Offset(t, n + 2) = e
  BY OffsetAppend
<1> HIDE DEF t, n
<1>3. \A k \in 1..n : span(t, k) = span(s, k)
  <2>1. ASSUME NEW k \in 1..n PROVE Offset(t, k + 1) = Offset(s, k + 1) /\ t[k] = s[k]
    <3>1. k + 1 \in 1..n + 1
      BY <1>1
    <3>2. QED
      BY <1>1, <1>2, <3>1
  <2>2. QED
    BY <2>1
<1>4. span(t, n + 1) = e - Left(p) + 1..e
  <2>1. (n + 1) + 1 = n + 2
    BY <1>1
  <2>2. QED
    BY <1>1, <1>2, <2>1
<1>5. DOMAIN t = 1..n \union {n + 1}
  BY <1>1
<1>6. /\ \A x : x \in Leavings(t) <=> \E k \in DOMAIN t : x \in span(t, k)
      /\ \A x : x \in Leavings(s) <=> \E k \in 1..n : x \in span(s, k)
  BY <1>1 DEF Leavings
<1> HIDE DEF span
<1>7. \A x : x \in Leavings(t) <=> x \in Leavings(s) \/ x \in e - Left(p) + 1..e
  BY <1>3, <1>4, <1>5, <1>6, Zenon
<1>8. QED
  BY <1>7 DEF t

\* Whatever is appended to a text, it begins in a value.
Through(text) ==
    Len(text) # 0 => \A c : ReadOn(Reading(text)[Len(text)], text[Len(text)], c) = "value"

\* A piece more at the end of such a text.
LEMMA UncommentedConcat ==
  ASSUME NEW S, NEW t \in Seq(S), NEW q \in Seq(S), q \in ConfigPieces, Through(t),
         NEW e, e = Len(t) + Len(q)
  PROVE  /\ Uncommented(t \o q) = Uncommented(t) \union (e - Left(q) + 1..e)
         /\ Through(t \o q)
<1> DEFINE u == t \o q
           n == Len(t)
           L == Len(q)
           R == Reading(u)
           f == [k \in 1..L + 1 |-> R[n + k]]
<1>1. /\ u \in Seq(S) /\ n \in Nat /\ L \in Nat /\ Len(u) = n + L
      /\ DOMAIN u = 1..n + L /\ DOMAIN t = 1..n /\ DOMAIN q = 1..L
      /\ \A i \in 1..n : u[i] = t[i] /\ At(u, i) = At(t, i) /\ At(t, i) = t[i]
      /\ \A k \in 1..L : u[n + k] = q[k] /\ At(u, n + k) = q[k]
  BY ConcatAt
<1>2. /\ R[1] = "value"
      /\ \A i \in 1..n + L : R[i + 1] = ReadOn(R[i], u[i], At(u, i + 1))
  BY <1>1, ReadingScans
<1>3. \A i \in 1..n : R[i] = Reading(t)[i]
  BY ReadingOfPrefix
<1>4. /\ n # 0 => \A c : ReadOn(Reading(t)[n], t[n], c) = "value"
      /\ \A i \in 1..n : Reading(t)[i + 1] = ReadOn(Reading(t)[i], t[i], At(t, i + 1))
  BY <1>1, ReadingScans DEF Through
<1>5. L \in Nat \ {0} /\ Left(q) \in 0..L
  <2>1. L \in Nat \ {0}
    BY ConfigTypes
  <2>2. QED
    BY <2>1 DEF Left
<1> HIDE DEF u, n, L, R
<1>6. R[n + 1] = "value" /\ (n # 0 => Reading(t)[n + 1] = "value")
  <2>1. CASE n = 0
    BY <1>2, <2>1
  <2>2. CASE n # 0
    <3>1. n \in 1..n /\ n \in 1..n + L
      BY <1>1, <2>2
    <3>2. QED
      BY <1>1, <1>2, <1>3, <1>4, <2>2, <3>1
  <2>3. QED
    BY <2>1, <2>2
<1>7. \A i \in 1..n : R[i + 1] = Reading(t)[i + 1]
  <2>1. ASSUME NEW i \in 1..n PROVE R[i + 1] = Reading(t)[i + 1]
    <3>1. CASE i = n
      BY <1>1, <1>6, <3>1
    <3>2. CASE i # n
      <4>1. i + 1 \in 1..n
        BY <1>1, <3>2
      <4>2. QED
        BY <1>3, <4>1
    <3>3. QED
      BY <3>1, <3>2
  <2>2. QED
    BY <2>1
<1>8. \A k \in 1..L + 1 : f[k] = R[n + k]
  OBVIOUS
<1> HIDE DEF f
<1>9. ASSUME NEW k \in 1..L
      PROVE  f[k + 1] = ReadOn(f[k], q[k], At(u, (n + k) + 1))
  <2>1. k \in 1..L + 1 /\ k + 1 \in 1..L + 1 /\ n + k \in 1..n + L /\ n + (k + 1) = (n + k) + 1
    BY <1>1
  <2>2. R[(n + k) + 1] = ReadOn(R[n + k], u[n + k], At(u, (n + k) + 1))
    BY <1>2, <2>1
  <2>3. u[n + k] = q[k]
    BY <1>1
  <2>4. f[k + 1] = R[(n + k) + 1] /\ f[k] = R[n + k]
    BY <1>8, <2>1
  <2>5. QED
    BY <2>2, <2>3, <2>4
<1>10. ReadThrough(f, q, At(u, (n + L) + 1)) /\ f[1] = "value"
  <2>1. L \in 1..L /\ 1 \in 1..L + 1
    BY <1>1, <1>5
  <2>2. f[L + 1] = ReadOn(f[L], q[L], At(u, (n + L) + 1))
    BY <1>9, <2>1
  <2>3. ASSUME NEW k \in 1..L - 1 PROVE f[k + 1] = ReadOn(f[k], q[k], q[k + 1])
    <3>1. k \in 1..L /\ k + 1 \in 1..L /\ n + (k + 1) = (n + k) + 1
      BY <1>1
    <3>2. At(u, (n + k) + 1) = q[k + 1]
      BY <1>1, <3>1
    <3>3. QED
      BY <1>9, <3>1, <3>2
  <2>4. f[1] = "value"
    BY <1>6, <1>8, <2>1
  <2>5. QED
    BY <2>2, <2>3, <2>4 DEF ReadThrough, L
<1>11. /\ \A k \in 1..L : Shown(f, k) <=> k + Left(q) > L
       /\ \A c : ReadOn(f[L], q[L], c) = "value"
  BY <1>10, PieceRead DEF L
<1> DEFINE shows(r, i) == r[i] \in Values /\ r[i + 1] \notin {"line", "open"}
<1>12. /\ \A i : i \in Uncommented(u) <=> i \in 1..n + L /\ shows(R, i)
       /\ \A i : i \in Uncommented(t) <=> i \in 1..n /\ shows(Reading(t), i)
  BY <1>1 DEF Uncommented, Values, R
<1>13. \A i \in 1..n : shows(R, i) <=> shows(Reading(t), i)
  BY <1>3, <1>7
<1>14. \A k \in 1..L : shows(R, n + k) <=> k + Left(q) > L
  <2>1. ASSUME NEW k \in 1..L PROVE shows(R, n + k) <=> Shown(f, k)
    <3>1. k \in 1..L + 1 /\ k + 1 \in 1..L + 1 /\ n + (k + 1) = (n + k) + 1
      BY <1>1
    <3>2. f[k] = R[n + k] /\ f[k + 1] = R[(n + k) + 1]
      BY <1>8, <3>1
    <3>3. QED
      BY <3>2 DEF Shown
  <2>2. QED
    BY <1>11, <2>1
<1> HIDE DEF shows
<1>15. ASSUME NEW i
       PROVE  i \in Uncommented(u) <=> i \in Uncommented(t) \/ i \in e - Left(q) + 1..e
  <2>0. e = n + L
    BY DEF n, L
  <2>1. CASE i \in 1..n
    <3>1. i \in 1..n + L /\ i \notin e - Left(q) + 1..e
      BY <1>1, <1>5, <2>0, <2>1
    <3>2. QED
      BY <1>12, <1>13, <2>1, <3>1
  <2>2. CASE i \in n + 1..n + L
    <3>1. i - n \in 1..L /\ n + (i - n) = i /\ i \notin 1..n /\ i \in 1..n + L
      BY <1>1, <2>2
    <3>2. shows(R, i) <=> (i - n) + Left(q) > L
      BY <1>14, <3>1
    <3>3. i \in e - Left(q) + 1..e <=> (i - n) + Left(q) > L
      BY <1>1, <1>5, <2>0, <2>2, SMTT(60)
    <3>4. QED
      BY <1>12, <3>1, <3>2, <3>3
  <2>3. CASE i \notin 1..n + L
    <3>1. i \notin 1..n /\ i \notin e - Left(q) + 1..e
      BY <1>1, <1>5, <2>0, <2>3
    <3>2. QED
      BY <1>12, <2>3, <3>1
  <2>4. 1..n + L = 1..n \union (n + 1..n + L)
    BY <1>1
  <2>5. QED
    BY <2>1, <2>2, <2>3, <2>4
<1>16. Uncommented(u) = Uncommented(t) \union (e - Left(q) + 1..e)
  BY <1>15
<1>17. Through(u)
  <2>1. L \in 1..L /\ L \in 1..L + 1
    BY <1>5
  <2>2. R[n + L] = f[L] /\ u[n + L] = q[L]
    BY <1>1, <1>8, <2>1
  <2>3. QED
    BY <1>1, <1>11, <2>2 DEF Through, R
<1>18. QED
  BY <1>16, <1>17 DEF u

\* So a configuration of any length is left as it was built.
LEMMA AlwaysUncommented ==
  ASSUME NEW s \in Seq(ConfigPieces)
  PROVE  UncommentedAsBuilt(s)
<1> DEFINE Good == {v \in Seq(ConfigPieces) :
                      /\ Through(FlattenSeq(v))
                      /\ Uncommented(FlattenSeq(v)) = Leavings(v)}
<1>1. <<>> \in Good
  <2>1. Through(<<>>) /\ Uncommented(<<>>) = {} /\ Leavings(<<>>) = {}
    BY DEF Through, Uncommented, Leavings
  <2>2. <<>> \in Seq(ConfigPieces)
    OBVIOUS
  <2>3. QED
    BY <2>1, <2>2, FlattenEmpty, Zenon
<1>2. ASSUME NEW v \in Seq(ConfigPieces), NEW p \in ConfigPieces, v \in Good
      PROVE  Append(v, p) \in Good
  <2> DEFINE t == FlattenSeq(v)
             e == Len(t) + Len(p)
  <2>1. p \in Seq(ConfigChars) /\ v \in Seq(Seq(ConfigChars))
    BY ConfigTypes, SeqMonotonic
  <2>2. t \in Seq(ConfigChars) /\ FlattenSeq(Append(v, p)) = t \o p
    BY <2>1, FlattenType, FlattenAppend
  <2>3. Leavings(Append(v, p)) = Leavings(v) \union (e - Left(p) + 1..e)
    BY <2>1, LeavingsAppend
  <2>4. Through(t) /\ Uncommented(t) = Leavings(v)
    BY <1>2
  <2> HIDE DEF t
  <2>5. /\ Uncommented(t \o p) = Uncommented(t) \union (e - Left(p) + 1..e)
        /\ Through(t \o p)
    BY <2>1, <2>2, <2>4, UncommentedConcat
  <2>6. Append(v, p) \in Seq(ConfigPieces)
    BY AppendProperties
  <2>7. QED
    BY <2>2, <2>3, <2>4, <2>5, <2>6
<1> HIDE DEF Good
<1>3. Seq(ConfigPieces) \subseteq Good
  BY <1>1, <1>2, SequenceInduction
<1>4. Uncommented(FlattenSeq(s)) = Leavings(s)
  BY <1>3 DEF Good
<1>5. QED
  BY <1>4 DEF UncommentedAsBuilt, Leavings
=============================================================================
