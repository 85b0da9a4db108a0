--------------------------- MODULE Transcripts_proofs ---------------------------
(***************************************************************************)
(* The theorems of Transcripts and Codec, for every stream of a provider.  *)
(*                                                                         *)
(* The accumulator of a decoder tells, event by event, what the provider   *)
(* said so far (CodecInv).  What an encoder writes is read back, event by  *)
(* event, into the turn it was given; this does not depend on where the    *)
(* turn came from, and the commands that write recordings use it too.      *)
(***************************************************************************)
EXTENDS Codec, FiniteSetTheorems, FunctionTheorems, SequenceTheorems, WellFoundedInduction, TLAPS

(***************************************************************************)
(* Sequences                                                               *)
(***************************************************************************)

\* The elements of a sequence that is appended to, cut, or changed at one place.
LEMMA AppendAny ==
  ASSUME NEW s, s \in Seq(Range(s)), NEW x
  PROVE  /\ Append(s, x) \in Seq(Range(Append(s, x)))
         /\ Len(s) \in Nat /\ DOMAIN s = 1 .. Len(s)
         /\ Len(Append(s, x)) = Len(s) + 1
         /\ DOMAIN Append(s, x) = 1 .. (Len(s) + 1)
         /\ \A i \in 1 .. Len(s) : Append(s, x)[i] = s[i]
         /\ Append(s, x)[Len(s) + 1] = x
<1> DEFINE S == Range(s) \cup {x}
<1>1. s \in Seq(S) BY SeqDef, LenProperties DEF Range
<1>2. /\ Append(s, x) \in Seq(S) /\ Len(s) \in Nat /\ DOMAIN s = 1 .. Len(s)
      /\ Len(Append(s, x)) = Len(s) + 1
      /\ DOMAIN Append(s, x) = 1 .. (Len(s) + 1)
      /\ \A i \in 1 .. Len(s) : Append(s, x)[i] = s[i]
      /\ Append(s, x)[Len(s) + 1] = x
  BY <1>1, AppendProperties, LenProperties
<1> HIDE DEF S
<1>3. Append(s, x) \in Seq(Range(Append(s, x)))
  BY <1>2, LenProperties, SeqDef DEF Range
<1> QED BY <1>2, <1>3

LEMMA ListOf ==
  ASSUME NEW s, NEW n \in Nat, DOMAIN s = 1 .. n, s = [i \in DOMAIN s |-> s[i]]
  PROVE  s \in Seq(Range(s)) /\ Len(s) = n
<1>1. s \in [1 .. n -> Range(s)] BY DEF Range
<1>2. s \in Seq(Range(s)) BY <1>1, SeqDef
<1> QED BY <1>1, <1>2, LenProperties

LEMMA ListIs ==
  ASSUME NEW s, s \in Seq(Range(s))
  PROVE  Len(s) \in Nat /\ DOMAIN s = 1 .. Len(s) /\ s = [i \in DOMAIN s |-> s[i]]
BY LenProperties

LEMMA EmptyList == <<>> \in Seq(Range(<<>>)) /\ Len(<<>>) = 0 /\ DOMAIN <<>> = {}
BY DEF Range

LEMMA Beginning ==
  ASSUME NEW s, s \in Seq(Range(s)), NEW n \in 0 .. Len(s)
  PROVE  /\ SubSeq(s, 1, n) \in Seq(Range(SubSeq(s, 1, n)))
         /\ DOMAIN SubSeq(s, 1, n) = 1 .. n /\ 1 .. n \subseteq DOMAIN s
         /\ \A i \in 1 .. n : SubSeq(s, 1, n)[i] = s[i]
<1>1. Len(s) \in Nat /\ DOMAIN s = 1 .. Len(s) BY LenProperties
<1>2. SubSeq(s, 1, n) = [i \in 1 .. n |-> s[i]] BY <1>1
<1>3. n \in Nat BY <1>1
<1>4. SubSeq(s, 1, n) \in Seq(Range(SubSeq(s, 1, n)))
  <2> DEFINE t == SubSeq(s, 1, n)
  <2>1. DOMAIN t = 1 .. n /\ t = [i \in DOMAIN t |-> t[i]] BY <1>2
  <2> HIDE DEF t
  <2>2. t \in Seq(Range(t)) BY <2>1, <1>3, ListOf
  <2> QED BY <2>2 DEF t
<1> QED BY <1>1, <1>2, <1>4

(***************************************************************************)
(* Induction                                                               *)
(***************************************************************************)

LEMMA LeastNatural ==
  ASSUME NEW T, T \subseteq Nat, T # {}
  PROVE  \E x \in T : \A y \in T : ~(y < x)
<1>1. PICK x \in T : \A y \in T : ~(<<y, x>> \in OpToRel(<, Nat))
  BY NatLessThanWellFounded, WFMin
<1>2. ASSUME NEW y \in T, y < x PROVE FALSE
  <2>1. <<y, x>> \in OpToRel(<, Nat) BY <1>2 DEF OpToRel
  <2> QED BY <1>1, <2>1
<1> QED BY <1>2

\* What holds of 0 and is kept holds up to m.
LEMMA SetInduction ==
  ASSUME NEW m \in Nat, NEW P, 0 \in P, \A n \in 0..(m - 1) : n \in P => n + 1 \in P
  PROVE  \A n \in 0..m : n \in P
<1> SUFFICES ASSUME (0..m) \ P # {} PROVE FALSE OBVIOUS
<1>0. (0..m) \ P \subseteq Nat OBVIOUS
<1>1. PICK x \in (0..m) \ P : \A y \in (0..m) \ P : ~(y < x) BY <1>0, LeastNatural
<1>2. x # 0 BY <1>1
<1>3. x - 1 \in 0..(m - 1) /\ x - 1 \in 0..m /\ x - 1 < x BY <1>2
<1>4. x - 1 \in P BY <1>1, <1>3
<1>5. (x - 1) + 1 \in P BY <1>3, <1>4
<1> QED BY <1>1, <1>5

(***************************************************************************)
(* Codec: the decoders                                                     *)
(***************************************************************************)

\* What OfType and Joined fold.
Taken(s, t, got, i) == IF s.items[i].type = t THEN Append(got, i) ELSE got
Glued(a, b) == a \o b

\* Joined is a function that is defined step by step.
LEMMA JoinedDef ==
  ASSUME NEW ss, Len(ss) \in Nat
  PROVE  \E f : /\ f = [k \in 0 .. Len(ss) |-> IF k = 0 THEN <<>> ELSE Glued(f[k - 1], ss[k])]
               /\ Joined(ss) = f[Len(ss)]
<1> DEFINE Fold(g, m) == g = [k \in 0 .. m |-> IF k = 0 THEN <<>> ELSE Glued(g[k - 1], ss[k])]
           P == {m \in Nat : \E g : Fold(g, m)}
<1>1. 0 \in P
  <2>1. Fold([k \in 0 .. 0 |-> <<>>], 0) OBVIOUS
  <2> QED BY <2>1
<1>2. ASSUME NEW m \in Nat, m \in P PROVE m + 1 \in P
  <2>1. PICK g : Fold(g, m) BY <1>2
  <2> DEFINE h == [k \in 0 .. (m + 1) |-> IF k <= m THEN g[k] ELSE Glued(g[m], ss[(m + 1)])]
  <2>2. ASSUME NEW k \in 0 .. (m + 1)
        PROVE  h[k] = IF k = 0 THEN <<>> ELSE Glued(h[k - 1], ss[k])
    <3>1. CASE k = 0 BY <2>1, <3>1
    <3>2. CASE k \in 1 .. m
      <4>1. h[k] = g[k] /\ h[k - 1] = g[k - 1] BY <3>2
      <4>2. \A j \in 0 .. m : g[j] = IF j = 0 THEN <<>> ELSE Glued(g[j - 1], ss[j]) BY <2>1
      <4>3. g[k] = Glued(g[k - 1], ss[k]) BY <3>2, <4>2
      <4> QED BY <3>2, <4>1, <4>3
    <3>3. CASE k = m + 1
      <4>1. h[k] = Glued(g[m], ss[k]) /\ h[k - 1] = g[m] BY <3>3
      <4> QED BY <3>3, <4>1
    <3> QED BY <3>1, <3>2, <3>3
  <2>3. Fold(h, m + 1) BY <2>2
  <2> HIDE DEF h, Fold
  <2>4. \E x : Fold(x, m + 1) BY <2>3
  <2> QED BY <2>4
<1>3. Len(ss) \in P
  <2> HIDE DEF P
  <2>1. PICK l \in Nat : l = Len(ss) OBVIOUS
  <2>2. \A n \in 0 .. (l - 1) : n \in P => n + 1 \in P BY <1>2, <2>1
  <2>3. \A n \in 0 .. l : n \in P BY <1>1, <2>2, SetInduction
  <2> QED BY <2>1, <2>3
<1>4. PICK g : Fold(g, Len(ss)) BY <1>3
<1>5. Joined(ss) = (CHOOSE x : Fold(x, Len(ss)))[Len(ss)] BY DEF Joined, Folded, Glued
<1> HIDE DEF Fold
<1>6. Fold((CHOOSE x : Fold(x, Len(ss))), Len(ss)) BY <1>4
<1> QED BY <1>5, <1>6 DEF Fold

\* So is Read, over the events of a stream.
LEMMA ReadDef ==
  ASSUME NEW p, NEW ss, Len(ss) \in Nat
  PROVE  \E f : /\ f = [k \in 0 .. Len(ss) |-> IF k = 0 THEN Blank ELSE Step(p, f[k - 1], ss[k])]
               /\ Read(p, ss) = f[Len(ss)]
<1> DEFINE Fold(g, m) == g = [k \in 0 .. m |-> IF k = 0 THEN Blank ELSE Step(p, g[k - 1], ss[k])]
           P == {m \in Nat : \E g : Fold(g, m)}
<1>1. 0 \in P
  <2>1. Fold([k \in 0 .. 0 |-> Blank], 0) OBVIOUS
  <2> QED BY <2>1
<1>2. ASSUME NEW m \in Nat, m \in P PROVE m + 1 \in P
  <2>1. PICK g : Fold(g, m) BY <1>2
  <2> DEFINE h == [k \in 0 .. (m + 1) |-> IF k <= m THEN g[k] ELSE Step(p, g[m], ss[(m + 1)])]
  <2>2. ASSUME NEW k \in 0 .. (m + 1)
        PROVE  h[k] = IF k = 0 THEN Blank ELSE Step(p, h[k - 1], ss[k])
    <3>1. CASE k = 0 BY <2>1, <3>1
    <3>2. CASE k \in 1 .. m
      <4>1. h[k] = g[k] /\ h[k - 1] = g[k - 1] BY <3>2
      <4>2. \A j \in 0 .. m : g[j] = IF j = 0 THEN Blank ELSE Step(p, g[j - 1], ss[j]) BY <2>1
      <4>3. g[k] = Step(p, g[k - 1], ss[k]) BY <3>2, <4>2
      <4> QED BY <3>2, <4>1, <4>3
    <3>3. CASE k = m + 1
      <4>1. h[k] = Step(p, g[m], ss[k]) /\ h[k - 1] = g[m] BY <3>3
      <4> QED BY <3>3, <4>1
    <3> QED BY <3>1, <3>2, <3>3
  <2>3. Fold(h, m + 1) BY <2>2
  <2> HIDE DEF h, Fold
  <2>4. \E x : Fold(x, m + 1) BY <2>3
  <2> QED BY <2>4
<1>3. Len(ss) \in P
  <2> HIDE DEF P
  <2>1. PICK l \in Nat : l = Len(ss) OBVIOUS
  <2>2. \A n \in 0 .. (l - 1) : n \in P => n + 1 \in P BY <1>2, <2>1
  <2>3. \A n \in 0 .. l : n \in P BY <1>1, <2>2, SetInduction
  <2> QED BY <2>1, <2>3
<1>4. PICK g : Fold(g, Len(ss)) BY <1>3
<1>5. Read(p, ss) = (CHOOSE x : Fold(x, Len(ss)))[Len(ss)] BY DEF Read, Folded
<1> HIDE DEF Fold
<1>6. Fold((CHOOSE x : Fold(x, Len(ss))), Len(ss)) BY <1>4
<1> QED BY <1>5, <1>6 DEF Fold

\* So is OfType, over the order of the blocks.
LEMMA OfTypeDef ==
  ASSUME NEW s, NEW t, Len(s.order) \in Nat
  PROVE  \E f : /\ f = [k \in 0 .. Len(s.order) |-> IF k = 0 THEN <<>> ELSE Taken(s, t, f[k - 1], s.order[k])]
               /\ OfType(s, t) = f[Len(s.order)]
<1> DEFINE Fold(g, m) == g = [k \in 0 .. m |-> IF k = 0 THEN <<>> ELSE Taken(s, t, g[k - 1], s.order[k])]
           P == {m \in Nat : \E g : Fold(g, m)}
<1>1. 0 \in P
  <2>1. Fold([k \in 0 .. 0 |-> <<>>], 0) OBVIOUS
  <2> QED BY <2>1
<1>2. ASSUME NEW m \in Nat, m \in P PROVE m + 1 \in P
  <2>1. PICK g : Fold(g, m) BY <1>2
  <2> DEFINE h == [k \in 0 .. (m + 1) |-> IF k <= m THEN g[k] ELSE Taken(s, t, g[m], s.order[(m + 1)])]
  <2>2. ASSUME NEW k \in 0 .. (m + 1)
        PROVE  h[k] = IF k = 0 THEN <<>> ELSE Taken(s, t, h[k - 1], s.order[k])
    <3>1. CASE k = 0 BY <2>1, <3>1
    <3>2. CASE k \in 1 .. m
      <4>1. h[k] = g[k] /\ h[k - 1] = g[k - 1] BY <3>2
      <4>2. \A j \in 0 .. m : g[j] = IF j = 0 THEN <<>> ELSE Taken(s, t, g[j - 1], s.order[j]) BY <2>1
      <4>3. g[k] = Taken(s, t, g[k - 1], s.order[k]) BY <3>2, <4>2
      <4> QED BY <3>2, <4>1, <4>3
    <3>3. CASE k = m + 1
      <4>1. h[k] = Taken(s, t, g[m], s.order[k]) /\ h[k - 1] = g[m] BY <3>3
      <4> QED BY <3>3, <4>1
    <3> QED BY <3>1, <3>2, <3>3
  <2>3. Fold(h, m + 1) BY <2>2
  <2> HIDE DEF h, Fold
  <2>4. \E x : Fold(x, m + 1) BY <2>3
  <2> QED BY <2>4
<1>3. Len(s.order) \in P
  <2> HIDE DEF P
  <2>1. PICK l \in Nat : l = Len(s.order) OBVIOUS
  <2>2. \A n \in 0 .. (l - 1) : n \in P => n + 1 \in P BY <1>2, <2>1
  <2>3. \A n \in 0 .. l : n \in P BY <1>1, <2>2, SetInduction
  <2> QED BY <2>1, <2>3
<1>4. PICK g : Fold(g, Len(s.order)) BY <1>3
<1>5. OfType(s, t) = (CHOOSE x : Fold(x, Len(s.order)))[Len(s.order)] BY DEF OfType, Folded, Taken
<1> HIDE DEF Fold
<1>6. Fold((CHOOSE x : Fold(x, Len(s.order))), Len(s.order)) BY <1>4
<1> QED BY <1>5, <1>6 DEF Fold

(***************************************************************************)
(* The folds of the decoders, one element at a time                        *)
(***************************************************************************)

\* Nothing joined is nothing.
LEMMA JoinedEmpty == Joined(<<>>) = <<>>
<1>1. Len(<<>>) = 0 OBVIOUS
<1>2. PICK f : /\ f = [k \in 0 .. 0 |-> IF k = 0 THEN <<>> ELSE Glued(f[k - 1], <<>>[k])]
               /\ Joined(<<>>) = f[0]
  BY <1>1, JoinedDef
<1> QED BY <1>2

\* One list more.
LEMMA JoinedStep ==
  ASSUME NEW ss, NEW tt, NEW n \in Nat, Len(ss) = n + 1, Len(tt) = n,
         \A k \in 1 .. n : ss[k] = tt[k]
  PROVE  Joined(ss) = Joined(tt) \o ss[n + 1]
<1>1. PICK f : /\ f = [k \in 0 .. (n + 1) |-> IF k = 0 THEN <<>> ELSE Glued(f[k - 1], ss[k])]
               /\ Joined(ss) = f[n + 1]
  BY JoinedDef
<1>2. PICK g : /\ g = [k \in 0 .. n |-> IF k = 0 THEN <<>> ELSE Glued(g[k - 1], tt[k])]
               /\ Joined(tt) = g[n]
  BY JoinedDef
<1> DEFINE P == {k \in 0 .. n : f[k] = g[k]}
<1>3. 0 \in P BY <1>1, <1>2
<1>4. ASSUME NEW k \in 0 .. (n - 1), k \in P PROVE k + 1 \in P
  <2>1. k + 1 \in 1 .. n /\ (k + 1) - 1 = k OBVIOUS
  <2>2. f[k + 1] = Glued(f[k], ss[k + 1]) BY <1>1, <2>1
  <2>3. g[k + 1] = Glued(g[k], tt[k + 1]) BY <1>2, <2>1
  <2> QED BY <1>4, <2>1, <2>2, <2>3
<1> HIDE DEF P
<1>5. \A k \in 0 .. n : k \in P BY <1>3, <1>4, SetInduction
<1>6. f[n] = g[n] BY <1>5 DEF P
<1>7. f[n + 1] = Glued(f[n], ss[n + 1]) BY <1>1
<1> QED BY <1>1, <1>2, <1>6, <1>7 DEF Glued

\* What texts, names, reasons and documents are made of.
Symbols == Words \cup Nat \cup {Unset, "stop", "length"} \cup {Tools[i] : i \in DOMAIN Tools}
           \cup Fragments

\* Gluing texts is associative.
LEMMA Regrouped == \A s, t, u \in Seq(Symbols) : (s \o t) \o u = s \o (t \o u)
BY ConcatAssociative

\* Texts joined are a text.
LEMMA JoinedType ==
  ASSUME NEW S, NEW ss, Len(ss) \in Nat, \A k \in 1 .. Len(ss) : ss[k] \in Seq(S)
  PROVE  Joined(ss) \in Seq(S)
<1> DEFINE n == Len(ss)
<1>1. PICK f : /\ f = [k \in 0 .. n |-> IF k = 0 THEN <<>> ELSE Glued(f[k - 1], ss[k])]
               /\ Joined(ss) = f[n]
  BY JoinedDef
<1> DEFINE P == {k \in 0 .. n : f[k] \in Seq(S)}
<1>2. 0 \in P BY <1>1
<1>3. ASSUME NEW k \in 0 .. (n - 1), k \in P PROVE k + 1 \in P
  <2>1. k + 1 \in 1 .. n /\ (k + 1) - 1 = k OBVIOUS
  <2>2. f[k + 1] = Glued(f[k], ss[k + 1]) BY <1>1, <2>1
  <2>3. Glued(f[k], ss[k + 1]) \in Seq(S)
    <3>1. f[k] \in Seq(S) /\ ss[k + 1] \in Seq(S) BY <1>3, <2>1
    <3> QED BY <3>1, ConcatProperties DEF Glued
  <2> QED BY <2>1, <2>2, <2>3
<1> HIDE DEF P
<1>4. \A k \in 0 .. n : k \in P BY <1>2, <1>3, SetInduction
<1> QED BY <1>1, <1>4 DEF P

\* A stream that has not begun.
LEMMA ReadEmpty == ASSUME NEW p, NEW ss, ss = <<>> PROVE Read(p, ss) = Blank
<1>1. Len(ss) = 0 OBVIOUS
<1>2. PICK f : /\ f = [k \in 0 .. Len(ss) |-> IF k = 0 THEN Blank ELSE Step(p, f[k - 1], ss[k])]
               /\ Read(p, ss) = f[Len(ss)]
  BY <1>1, ReadDef
<1> QED BY <1>1, <1>2

\* One event more.
LEMMA ReadStep ==
  ASSUME NEW p, NEW ss, NEW tt, NEW n \in Nat, Len(ss) = n + 1, Len(tt) = n,
         \A k \in 1 .. n : ss[k] = tt[k]
  PROVE  Read(p, ss) = Step(p, Read(p, tt), ss[n + 1])
<1>1. PICK f : /\ f = [k \in 0 .. (n + 1) |-> IF k = 0 THEN Blank ELSE Step(p, f[k - 1], ss[k])]
               /\ Read(p, ss) = f[n + 1]
  <2>1. Len(ss) \in Nat OBVIOUS
  <2>2. \E f : /\ f = [k \in 0 .. Len(ss) |-> IF k = 0 THEN Blank ELSE Step(p, f[k - 1], ss[k])]
               /\ Read(p, ss) = f[Len(ss)]
    BY <2>1, ReadDef, Zenon
  <2> QED BY <2>2
<1>2. PICK g : /\ g = [k \in 0 .. n |-> IF k = 0 THEN Blank ELSE Step(p, g[k - 1], tt[k])]
               /\ Read(p, tt) = g[n]
  <2>1. Len(tt) \in Nat OBVIOUS
  <2>2. \E g : /\ g = [k \in 0 .. Len(tt) |-> IF k = 0 THEN Blank ELSE Step(p, g[k - 1], tt[k])]
               /\ Read(p, tt) = g[Len(tt)]
    BY <2>1, ReadDef, Zenon
  <2> QED BY <2>2
<1> DEFINE P == {k \in 0 .. n : f[k] = g[k]}
<1>3. 0 \in P BY <1>1, <1>2
<1>4. ASSUME NEW k \in 0 .. (n - 1), k \in P PROVE k + 1 \in P
  <2>1. k + 1 \in 1 .. n /\ (k + 1) - 1 = k OBVIOUS
  <2>2. f[k + 1] = Step(p, f[k], ss[k + 1]) BY <1>1, <2>1
  <2>3. g[k + 1] = Step(p, g[k], tt[k + 1]) BY <1>2, <2>1
  <2> QED BY <1>4, <2>1, <2>2, <2>3
<1> HIDE DEF P
<1>5. \A k \in 0 .. n : k \in P BY <1>3, <1>4, SetInduction
<1>6. f[n] = g[n] BY <1>5 DEF P
<1>7. f[n + 1] = Step(p, f[n], ss[n + 1]) BY <1>1
<1> QED BY <1>1, <1>2, <1>6, <1>7

\* No blocks, none of a type.
LEMMA OfTypeEmpty == ASSUME NEW s, s.order = <<>>, NEW t PROVE OfType(s, t) = <<>>
<1>1. Len(s.order) = 0 OBVIOUS
<1>2. PICK f : /\ f = [k \in 0 .. Len(s.order) |-> IF k = 0 THEN <<>> ELSE Taken(s, t, f[k - 1], s.order[k])]
               /\ OfType(s, t) = f[Len(s.order)]
  BY <1>1, OfTypeDef, Zenon
<1> QED BY <1>1, <1>2

\* The fold of OfType, up to a place.
TakenUpTo(f, s, t, n) == \A k \in 1 .. n : f[k] = Taken(s, t, f[k - 1], s.order[k])

\* The first n blocks of two accumulators are the same and of the same types.
Alike(r, s, n) ==
  \A k \in 1 .. n : r.order[k] = s.order[k] /\ r.items[r.order[k]].type = s.items[r.order[k]].type

\* The blocks of a type among the first ones depend on the types of the first ones only.
LEMMA OfTypePrefix ==
  ASSUME NEW r, NEW s, NEW t, NEW n \in Nat, NEW f, NEW g,
         TakenUpTo(f, r, t, n), TakenUpTo(g, s, t, n), Alike(r, s, n), f[0] = g[0]
  PROVE  f[n] = g[n]
<1> DEFINE P == {k \in 0 .. n : f[k] = g[k]}
<1>1. 0 \in P OBVIOUS
<1>2. ASSUME NEW k \in 0 .. (n - 1), k \in P PROVE k + 1 \in P
  <2>1. k + 1 \in 1 .. n /\ (k + 1) - 1 = k OBVIOUS
  <2> DEFINE m == k + 1
  <2>2. f[m] = Taken(r, t, f[m - 1], r.order[m]) /\ g[m] = Taken(s, t, g[m - 1], s.order[m])
    BY <2>1 DEF TakenUpTo
  <2>3. r.order[m] = s.order[m] /\ r.items[r.order[m]].type = s.items[r.order[m]].type BY <2>1 DEF Alike
  <2>4. f[m - 1] = g[m - 1] BY <1>2, <2>1
  <2> HIDE DEF m
  <2>5. f[m] = g[m] BY <2>2, <2>3, <2>4 DEF Taken
  <2> QED BY <2>1, <2>5 DEF m
<1> HIDE DEF P
<1>3. \A k \in 0 .. n : k \in P BY <1>1, <1>2, SetInduction
<1> QED BY <1>3 DEF P

\* The blocks of a type are told by the order and by the types.
LEMMA OfTypeSame ==
  ASSUME NEW r, NEW s, NEW t, NEW n \in Nat, Len(s.order) = n, Len(r.order) = n, Alike(r, s, n)
  PROVE  OfType(r, t) = OfType(s, t)
<1>1. PICK f : /\ f = [k \in 0 .. n |-> IF k = 0 THEN <<>> ELSE Taken(r, t, f[k - 1], r.order[k])]
               /\ OfType(r, t) = f[n]
  <2>1. Len(r.order) \in Nat OBVIOUS
  <2>2. \E f : /\ f = [k \in 0 .. Len(r.order) |-> IF k = 0 THEN <<>> ELSE Taken(r, t, f[k - 1], r.order[k])]
               /\ OfType(r, t) = f[Len(r.order)]
    BY <2>1, OfTypeDef, Zenon
  <2> QED BY <2>2
<1>2. PICK g : /\ g = [k \in 0 .. n |-> IF k = 0 THEN <<>> ELSE Taken(s, t, g[k - 1], s.order[k])]
               /\ OfType(s, t) = g[n]
  BY OfTypeDef
<1>3. f[0] = g[0] BY <1>1, <1>2
<1>4. TakenUpTo(f, r, t, n) BY <1>1 DEF TakenUpTo
<1>5. TakenUpTo(g, s, t, n) BY <1>2 DEF TakenUpTo
<1>6. f[n] = g[n] BY <1>3, <1>4, <1>5, OfTypePrefix
<1> QED BY <1>1, <1>2, <1>6

\* One block more.
LEMMA OfTypeStep ==
  ASSUME NEW r, NEW s, NEW t, NEW n \in Nat, Len(r.order) = n + 1, Len(s.order) = n, Alike(r, s, n)
  PROVE  OfType(r, t) = Taken(r, t, OfType(s, t), r.order[n + 1])
<1>1. PICK f : /\ f = [k \in 0 .. (n + 1) |-> IF k = 0 THEN <<>> ELSE Taken(r, t, f[k - 1], r.order[k])]
               /\ OfType(r, t) = f[n + 1]
  <2>1. Len(r.order) \in Nat OBVIOUS
  <2>2. \E f : /\ f = [k \in 0 .. Len(r.order) |-> IF k = 0 THEN <<>> ELSE Taken(r, t, f[k - 1], r.order[k])]
               /\ OfType(r, t) = f[Len(r.order)]
    BY <2>1, OfTypeDef, Zenon
  <2> QED BY <2>2
<1>2. PICK g : /\ g = [k \in 0 .. n |-> IF k = 0 THEN <<>> ELSE Taken(s, t, g[k - 1], s.order[k])]
               /\ OfType(s, t) = g[n]
  BY OfTypeDef
<1>3. f[0] = g[0] BY <1>1, <1>2
<1>4. TakenUpTo(f, r, t, n) BY <1>1 DEF TakenUpTo
<1>5. TakenUpTo(g, s, t, n) BY <1>2 DEF TakenUpTo
<1>6. f[n] = g[n] BY <1>3, <1>4, <1>5, OfTypePrefix
<1>7. f[n + 1] = Taken(r, t, f[n], r.order[n + 1]) BY <1>1
<1> QED BY <1>1, <1>2, <1>6, <1>7

(***************************************************************************)
(* What an accumulator tells                                               *)
(***************************************************************************)

\* Blocks.
Pieces == [type : {"text", "tool"}, name : Symbols, text : Seq(Symbols), args : Seq(Symbols)]

\* Accumulators.
Accs == [items : UNION {[D -> Pieces] : D \in SUBSET Nat}, order : Seq(Nat), text : Seq(Symbols),
         finish : Symbols, failed : BOOLEAN]

\* An accumulator of this provider, every block of its order opened.
Sound(r) == r \in Accs /\ \A k \in DOMAIN r.order : r.order[k] \in DOMAIN r.items

\* Its text is this one.
TellsText(r, text) ==
  LET x == OfType(r, "text")
  IN  /\ x \in Seq(Nat)
      /\ \A k \in DOMAIN x : x[k] \in DOMAIN r.items /\ r.items[x[k]].type = "text"
      /\ \A j, k \in DOMAIN x : x[j] = x[k] => j = k
      /\ text = r.text \o Joined([k \in DOMAIN x |-> r.items[x[k]].text])

\* Its calls are these, in this order.
TellsCalls(r, cs) ==
  LET y == OfType(r, "tool")
  IN  /\ y \in Seq(Nat) /\ DOMAIN cs = DOMAIN y
      /\ \A k \in DOMAIN y : /\ y[k] \in DOMAIN r.items /\ r.items[y[k]].type = "tool"
                             /\ r.items[y[k]].name = cs[k].name /\ r.items[y[k]].args = cs[k].args
      /\ \A j, k \in DOMAIN y : y[j] = y[k] => j = k

\* The fields of an accumulator.
LEMMA AccIs ==
  ASSUME NEW r, r \in Accs
  PROVE  /\ r = [items |-> r.items, order |-> r.order, text |-> r.text, finish |-> r.finish, failed |-> r.failed]
         /\ r.items \in [DOMAIN r.items -> Pieces] /\ DOMAIN r.items \subseteq Nat
         /\ r.order \in Seq(Nat) /\ r.text \in Seq(Symbols)
         /\ r.finish \in Symbols /\ r.failed \in BOOLEAN
         /\ Len(r.order) \in Nat /\ DOMAIN r.order = 1 .. Len(r.order)
<1>1. r.order \in Seq(Nat) BY DEF Accs
<1>2. Len(r.order) \in Nat /\ DOMAIN r.order = 1 .. Len(r.order) BY <1>1, LenProperties
<1>3. PICK D \in SUBSET Nat : r.items \in [D -> Pieces] BY DEF Accs
<1>4. DOMAIN r.items = D BY <1>3
<1>5. r = [items |-> r.items, order |-> r.order, text |-> r.text, finish |-> r.finish, failed |-> r.failed]
  BY DEF Accs
<1>6. r.text \in Seq(Symbols) /\ r.finish \in Symbols /\ r.failed \in BOOLEAN BY DEF Accs
<1> QED BY <1>1, <1>2, <1>3, <1>4, <1>5, <1>6

\* An accumulator from its fields.
LEMMA AccOf ==
  ASSUME NEW r, NEW items, NEW order \in Seq(Nat), NEW text \in Seq(Symbols), NEW finishes \in Symbols,
         NEW failed \in BOOLEAN, NEW D \in SUBSET Nat, items \in [D -> Pieces],
         r = [items |-> items, order |-> order, text |-> text, finish |-> finishes, failed |-> failed]
  PROVE  r \in Accs
<1>1. items \in UNION {[E -> Pieces] : E \in SUBSET Nat} OBVIOUS
<1> QED BY <1>1 DEF Accs

\* The accumulator that Read starts with.
LEMMA BlankTells == Sound(Blank) /\ TellsText(Blank, <<>>) /\ TellsCalls(Blank, <<>>)
<1>1. Blank \in Accs
  <2>1. \A S : <<>> \in Seq(S) OBVIOUS
  <2>2. <<>> \in [{} -> Pieces] OBVIOUS
  <2>3. {} \in SUBSET Nat OBVIOUS
  <2> QED BY <2>1, <2>2, <2>3, AccOf DEF Blank, Symbols
<1>2. Blank.order = <<>> /\ Blank.text = <<>> BY DEF Blank
<1>3. OfType(Blank, "text") = <<>> /\ OfType(Blank, "tool") = <<>> BY <1>2, OfTypeEmpty
<1>4. DOMAIN <<>> = {} /\ \A S : <<>> \in Seq(S) OBVIOUS
<1>5. Sound(Blank) BY <1>1, <1>2, <1>4 DEF Sound
<1>6. TellsCalls(Blank, <<>>) BY <1>3, <1>4 DEF TellsCalls
<1>7. TellsText(Blank, <<>>)
  <2>1. [k \in {} |-> Blank.items[<<>>[k]].text] = <<>> OBVIOUS
  <2>2. <<>> \o <<>> = <<>> BY <1>4, ConcatEmptySeq
  <2> QED BY <1>2, <1>3, <1>4, <2>1, <2>2, JoinedEmpty DEF TellsText
<1> QED BY <1>5, <1>6, <1>7

\* Blocks keep their order and their type.
SameBlocks(q, r) ==
  /\ q.order = r.order /\ DOMAIN q.items = DOMAIN r.items
  /\ \A i \in DOMAIN r.items : q.items[i].type = r.items[i].type

\* The same blocks are of the same types.
LEMMA SameBlocksTypes ==
  ASSUME NEW q, NEW r, Sound(r), SameBlocks(q, r), NEW t
  PROVE  OfType(q, t) = OfType(r, t)
<1> DEFINE n == Len(r.order)
<1>1. n \in Nat /\ DOMAIN r.order = 1 .. n BY AccIs DEF Sound
<1>2. Alike(q, r, n) BY <1>1 DEF Alike, SameBlocks, Sound
<1>3. Len(q.order) = n BY DEF SameBlocks
<1> QED BY <1>1, <1>2, <1>3, OfTypeSame

\* The text does not change with the names and arguments of the calls.
LEMMA TextKept ==
  ASSUME NEW q, NEW r, NEW text, Sound(r), SameBlocks(q, r), TellsText(r, text), q.text = r.text,
         \A i \in DOMAIN r.items : r.items[i].type = "text" => q.items[i].text = r.items[i].text
  PROVE  TellsText(q, text)
<1> DEFINE x == OfType(r, "text")
<1>1. OfType(q, "text") = x BY SameBlocksTypes
<1>2. /\ x \in Seq(Nat)
      /\ \A k \in DOMAIN x : x[k] \in DOMAIN r.items /\ r.items[x[k]].type = "text"
      /\ \A j, k \in DOMAIN x : x[j] = x[k] => j = k
      /\ text = r.text \o Joined([k \in DOMAIN x |-> r.items[x[k]].text])
  BY DEF TellsText
<1> HIDE DEF x
<1>3. [k \in DOMAIN x |-> r.items[x[k]].text] = [k \in DOMAIN x |-> q.items[x[k]].text] BY <1>2
<1>4. \A k \in DOMAIN x : x[k] \in DOMAIN q.items /\ q.items[x[k]].type = "text" BY <1>2 DEF SameBlocks
<1>5. text = q.text \o Joined([k \in DOMAIN x |-> q.items[x[k]].text]) BY <1>2, <1>3
<1> QED BY <1>1, <1>2, <1>4, <1>5 DEF TellsText

\* Calls do not change with the blocks of text.
LEMMA CallsKept ==
  ASSUME NEW q, NEW r, NEW cs, Sound(r), SameBlocks(q, r), TellsCalls(r, cs),
         \A i \in DOMAIN r.items : r.items[i].type = "tool" =>
            q.items[i].name = r.items[i].name /\ q.items[i].args = r.items[i].args
  PROVE  TellsCalls(q, cs)
<1> DEFINE y == OfType(r, "tool")
<1>1. OfType(q, "tool") = y BY SameBlocksTypes
<1>2. /\ y \in Seq(Nat) /\ DOMAIN cs = DOMAIN y
      /\ \A k \in DOMAIN y : /\ y[k] \in DOMAIN r.items /\ r.items[y[k]].type = "tool"
                             /\ r.items[y[k]].name = cs[k].name /\ r.items[y[k]].args = cs[k].args
      /\ \A j, k \in DOMAIN y : y[j] = y[k] => j = k
  BY DEF TellsCalls
<1> HIDE DEF y
<1>3. \A k \in DOMAIN y : /\ y[k] \in DOMAIN q.items /\ q.items[y[k]].type = "tool"
                          /\ q.items[y[k]].name = cs[k].name /\ q.items[y[k]].args = cs[k].args
  BY <1>2 DEF SameBlocks
<1> QED BY <1>1, <1>2, <1>3 DEF TellsCalls

(***************************************************************************)
(* What an event adds to what an accumulator tells                         *)
(***************************************************************************)

\* A reason changes neither the text nor the calls.
LEMMA FinishedTells ==
  ASSUME NEW r, NEW text, NEW cs, Sound(r), TellsText(r, text), TellsCalls(r, cs),
         NEW reason \in Symbols, NEW q, q = Finished(r, reason)
  PROVE  /\ Sound(q) /\ TellsText(q, text) /\ TellsCalls(q, cs) /\ SameBlocks(q, r)
         /\ q.items = r.items /\ q.text = r.text /\ q.failed = r.failed
         /\ q.finish = IF reason = Unset THEN r.finish ELSE reason
<1>0. r \in Accs BY DEF Sound
<1>1. /\ q.items = r.items /\ q.order = r.order /\ q.text = r.text /\ q.failed = r.failed
      /\ q.finish = IF reason = Unset THEN r.finish ELSE reason
      /\ q \in Accs
  BY <1>0 DEF Finished, Accs
<1>2. SameBlocks(q, r) BY <1>1 DEF SameBlocks
<1>3. Sound(q) BY <1>1 DEF Sound
<1>4. TellsText(q, text) BY <1>1, <1>2, TextKept
<1>5. TellsCalls(q, cs) BY <1>1, <1>2, CallsKept
<1> QED BY <1>1, <1>2, <1>3, <1>4, <1>5

\* Text outside of blocks, where no block holds text.
LEMMA SpokenTells ==
  ASSUME NEW r, NEW text, NEW cs, Sound(r), TellsText(r, text), TellsCalls(r, cs),
         OfType(r, "text") = <<>>, NEW c \in Seq(Symbols), NEW q, q = Spoken(r, c),
         NEW longer, longer = Glued(text, c)
  PROVE  /\ Sound(q) /\ TellsText(q, longer) /\ TellsCalls(q, cs) /\ SameBlocks(q, r)
         /\ q.items = r.items /\ q.finish = r.finish /\ q.failed = r.failed
         /\ OfType(q, "text") = <<>>
<1>0. r \in Accs BY DEF Sound
<1>1. r.text \in Seq(Symbols) /\ r.text \o c \in Seq(Symbols) BY <1>0, AccIs, ConcatProperties
<1>2. /\ q.items = r.items /\ q.order = r.order /\ q.text = r.text \o c /\ q.failed = r.failed
      /\ q.finish = r.finish
      /\ q \in Accs
  BY <1>0, <1>1 DEF Spoken, Accs
<1>3. SameBlocks(q, r) BY <1>2 DEF SameBlocks
<1>4. Sound(q) BY <1>2 DEF Sound
<1>5. TellsCalls(q, cs) BY <1>2, <1>3, CallsKept
<1>6. OfType(q, "text") = <<>> BY <1>3, SameBlocksTypes
<1>7. TellsText(q, text \o c)
  <2>1. \A s : [k \in DOMAIN <<>> |-> s.items[<<>>[k]].text] = <<>> OBVIOUS
  <2>2. text = r.text \o Joined([k \in DOMAIN <<>> |-> r.items[<<>>[k]].text]) BY DEF TellsText
  <2>3. text = r.text BY <1>1, <2>1, <2>2, JoinedEmpty, ConcatEmptySeq
  <2>4. q.text \o Joined([k \in DOMAIN <<>> |-> q.items[<<>>[k]].text]) = text \o c
    <3>1. [k \in DOMAIN <<>> |-> q.items[<<>>[k]].text] = <<>> BY <2>1
    <3>2. (r.text \o c) \o <<>> = r.text \o c BY <1>1, ConcatEmptySeq
    <3>3. q.text \o <<>> = text \o c BY <1>2, <2>3, <3>2
    <3> QED BY <3>1, <3>3, JoinedEmpty
  <2>5. DOMAIN <<>> = {} /\ <<>> \in Seq(Nat) OBVIOUS
  <2> QED BY <1>6, <2>4, <2>5 DEF TellsText
<1> QED BY <1>2, <1>3, <1>4, <1>5, <1>6, <1>7 DEF Glued

\* A block is opened.
LEMMA OpenedIs ==
  ASSUME NEW r, Sound(r), NEW i \in Nat, i \notin DOMAIN r.items,
         NEW type \in {"text", "tool"}, NEW name \in Symbols, NEW q, q = Opened(r, i, type, name)
  PROVE  /\ Sound(q) /\ q.text = r.text /\ q.finish = r.finish /\ q.failed = r.failed
         /\ q.order = Append(r.order, i)
         /\ DOMAIN q.items = {i} \cup DOMAIN r.items
         /\ \A k \in DOMAIN r.items : q.items[k] = r.items[k]
         /\ q.items[i].type = type /\ q.items[i].name = name
         /\ q.items[i].text = <<>> /\ q.items[i].args = <<>>
         /\ \A t : OfType(q, t) = IF type = t THEN Append(OfType(r, t), i) ELSE OfType(r, t)
<1> DEFINE new == [type |-> type, name |-> name, text |-> <<>>, args |-> <<>>]
           items == [k \in {i} \cup DOMAIN r.items |-> IF k = i THEN new ELSE r.items[k]]
<1>1. /\ r = [items |-> r.items, order |-> r.order, text |-> r.text, finish |-> r.finish, failed |-> r.failed]
      /\ r.items \in [DOMAIN r.items -> Pieces] /\ DOMAIN r.items \subseteq Nat /\ r.order \in Seq(Nat)
      /\ r.text \in Seq(Symbols) /\ r.finish \in Symbols /\ r.failed \in BOOLEAN
  BY AccIs DEF Sound
<1>2. PICK n \in Nat : Len(r.order) = n /\ DOMAIN r.order = 1 .. n BY <1>1, LenProperties
<1>3. /\ Append(r.order, i) \in Seq(Nat) /\ Len(Append(r.order, i)) = n + 1
      /\ DOMAIN Append(r.order, i) = 1 .. (n + 1)
      /\ \A k \in 1 .. n : Append(r.order, i)[k] = r.order[k]
      /\ Append(r.order, i)[n + 1] = i
  BY <1>1, <1>2, AppendProperties, LenProperties
<1>4. q = [items |-> items, order |-> Append(r.order, i), text |-> r.text, finish |-> r.finish, failed |-> r.failed]
  BY <1>1 DEF Opened
<1>5. new \in Pieces /\ new.type = type /\ new.name = name /\ new.text = <<>> /\ new.args = <<>> BY DEF Pieces
<1> HIDE DEF new
<1>6. items \in [({i} \cup DOMAIN r.items) -> Pieces] /\ ({i} \cup DOMAIN r.items) \in SUBSET Nat
  BY <1>1, <1>5
<1>7. /\ DOMAIN items = {i} \cup DOMAIN r.items
      /\ \A k \in DOMAIN r.items : items[k] = r.items[k]
      /\ items[i] = new
  OBVIOUS
<1> HIDE DEF items
<1>8. q \in Accs
  <2> DEFINE D == {i} \cup DOMAIN r.items
             order == Append(r.order, i)
  <2>1. D \in SUBSET Nat /\ items \in [D -> Pieces] /\ order \in Seq(Nat) BY <1>3, <1>6
  <2>2. q = [items |-> items, order |-> order, text |-> r.text, finish |-> r.finish, failed |-> r.failed] BY <1>4
  <2> HIDE DEF D, order
  <2> QED BY <1>1, <2>1, <2>2, AccOf
<1>9. /\ q.items = items /\ q.order = Append(r.order, i)
      /\ q.text = r.text /\ q.finish = r.finish /\ q.failed = r.failed
  BY <1>4
<1>10. \A k \in 1 .. n : r.order[k] \in DOMAIN r.items BY <1>2 DEF Sound
<1>11. \A k \in 1 .. (n + 1) : k \in 1 .. n \/ k = n + 1 OBVIOUS
<1>12. ASSUME NEW k \in DOMAIN q.order PROVE q.order[k] \in DOMAIN q.items
  <2>1. k \in 1 .. (n + 1) BY <1>3, <1>9
  <2>2. CASE k \in 1 .. n BY <1>3, <1>7, <1>9, <1>10, <2>2
  <2>3. CASE k = n + 1 BY <1>3, <1>7, <1>9, <2>3
  <2> QED BY <1>11, <2>1, <2>2, <2>3
<1>13. Sound(q) BY <1>8, <1>12 DEF Sound
<1>14. ASSUME NEW t PROVE OfType(q, t) = IF type = t THEN Append(OfType(r, t), i) ELSE OfType(r, t)
  <2>1. Alike(q, r, n)
    <3> SUFFICES ASSUME NEW k \in 1 .. n
                 PROVE  q.order[k] = r.order[k] /\ q.items[q.order[k]].type = r.items[q.order[k]].type
      BY DEF Alike
    <3>1. q.order[k] = r.order[k] /\ r.order[k] \in DOMAIN r.items BY <1>3, <1>9, <1>10
    <3> QED BY <1>7, <1>9, <3>1
  <2>2. Len(q.order) = n + 1 /\ Len(r.order) = n BY <1>2, <1>3, <1>9
  <2>3. OfType(q, t) = Taken(q, t, OfType(r, t), q.order[n + 1]) BY <2>1, <2>2, OfTypeStep
  <2>4. q.order[n + 1] = i /\ q.items[i].type = type BY <1>3, <1>5, <1>7, <1>9
  <2> QED BY <2>3, <2>4 DEF Taken
<1> QED BY <1>5, <1>7, <1>9, <1>13, <1>14

\* An empty text block adds nothing to the text.
LEMMA TextOpened ==
  ASSUME NEW r, NEW text, NEW cs, Sound(r), TellsText(r, text), TellsCalls(r, cs),
         NEW i \in Nat, i \notin DOMAIN r.items, NEW q, q = Opened(r, i, "text", Unset)
  PROVE  TellsText(q, text) /\ TellsCalls(q, cs)
<1> DEFINE x == OfType(r, "text")
           z == OfType(q, "text")
<1>1. Unset \in Symbols BY DEF Symbols
<1>2. /\ q.text = r.text
      /\ DOMAIN q.items = {i} \cup DOMAIN r.items
      /\ \A k \in DOMAIN r.items : q.items[k] = r.items[k]
      /\ q.items[i].type = "text" /\ q.items[i].text = <<>>
      /\ z = Append(x, i) /\ OfType(q, "tool") = OfType(r, "tool")
  BY <1>1, OpenedIs
<1>3. x \in Seq(Nat) BY DEF TellsText
<1>4. PICK n \in Nat : Len(x) = n /\ DOMAIN x = 1 .. n BY <1>3, LenProperties
<1>5. /\ z \in Seq(Nat) /\ Len(z) = n + 1 /\ DOMAIN z = 1 .. (n + 1)
      /\ \A k \in 1 .. n : z[k] = x[k]
      /\ z[n + 1] = i
  <2> HIDE DEF x, z
  <2>1. z = Append(x, i) BY <1>2
  <2> QED BY <1>3, <1>4, <2>1, AppendProperties, LenProperties
<1>6. /\ \A k \in DOMAIN x : x[k] \in DOMAIN r.items /\ r.items[x[k]].type = "text"
      /\ \A j, k \in DOMAIN x : x[j] = x[k] => j = k
      /\ text = r.text \o Joined([k \in DOMAIN x |-> r.items[x[k]].text])
  BY DEF TellsText
<1>7. TellsText(q, text)
  <2> DEFINE a == [k \in 1 .. (n + 1) |-> q.items[z[k]].text]
             b == [k \in 1 .. n |-> r.items[x[k]].text]
  <2> HIDE DEF x, z
  <2>1. Len(a) = n + 1 /\ Len(b) = n BY <1>4
  <2>2. \A k \in 1 .. n : a[k] = b[k]
    <3> SUFFICES ASSUME NEW k \in 1 .. n PROVE q.items[z[k]].text = r.items[x[k]].text OBVIOUS
    <3>1. z[k] = x[k] /\ x[k] \in DOMAIN r.items BY <1>4, <1>5, <1>6
    <3> QED BY <1>2, <3>1
  <2>3. a[n + 1] = <<>> BY <1>2, <1>4, <1>5
  <2>4. \A k \in 1 .. n : b[k] \in Seq(Symbols)
    <3>1. ASSUME NEW j \in DOMAIN r.items PROVE r.items[j].text \in Seq(Symbols)
      <4>1. r.items[j] \in Pieces BY AccIs DEF Sound
      <4> QED BY <4>1 DEF Pieces
    <3> QED BY <1>4, <1>6, <3>1
  <2> HIDE DEF a, b
  <2>5. Joined(a) = Joined(b) \o a[n + 1] BY <1>4, <2>1, <2>2, JoinedStep
  <2>6. Joined(b) \in Seq(Symbols) BY <1>4, <2>1, <2>4, JoinedType
  <2>7. Joined(a) = Joined(b) BY <2>3, <2>5, <2>6, ConcatEmptySeq
  <2>8. text = q.text \o Joined([k \in DOMAIN z |-> q.items[z[k]].text])
    BY <1>2, <1>4, <1>5, <1>6, <2>7 DEF a, b
  <2>9. \A k \in 1 .. (n + 1) : k \in 1 .. n \/ k = n + 1 OBVIOUS
  <2>10. ASSUME NEW k \in 1 .. (n + 1) PROVE z[k] \in DOMAIN q.items /\ q.items[z[k]].type = "text"
    <3>1. CASE k \in 1 .. n
      <4>1. z[k] = x[k] /\ x[k] \in DOMAIN r.items /\ r.items[x[k]].type = "text" BY <1>4, <1>5, <1>6, <3>1
      <4> QED BY <1>2, <4>1
    <3>2. CASE k = n + 1 BY <1>2, <1>5, <3>2
    <3> QED BY <2>9, <3>1, <3>2
  <2>11. ASSUME NEW j \in 1 .. (n + 1), NEW k \in 1 .. (n + 1), z[j] = z[k] PROVE j = k
    <3>1. (j \in 1 .. n \/ j = n + 1) /\ (k \in 1 .. n \/ k = n + 1) BY <2>9
    <3>2. \A m \in 1 .. n : x[m] # i BY <1>4, <1>6
    <3>3. \A l, m \in 1 .. n : x[l] = x[m] => l = m BY <1>4, <1>6
    <3> QED BY <1>5, <2>11, <3>1, <3>2, <3>3, Zenon
  <2> QED BY <1>5, <2>8, <2>10, <2>11 DEF TellsText, z
<1>8. TellsCalls(q, cs)
  <2> DEFINE y == OfType(r, "tool")
  <2>1. /\ y \in Seq(Nat) /\ DOMAIN cs = DOMAIN y
        /\ \A k \in DOMAIN y : /\ y[k] \in DOMAIN r.items /\ r.items[y[k]].type = "tool"
                               /\ r.items[y[k]].name = cs[k].name /\ r.items[y[k]].args = cs[k].args
        /\ \A j, k \in DOMAIN y : y[j] = y[k] => j = k
    BY DEF TellsCalls
  <2>2. OfType(q, "tool") = y BY <1>2
  <2> HIDE DEF y
  <2>3. \A k \in DOMAIN y : y[k] \in DOMAIN q.items /\ q.items[y[k]] = r.items[y[k]] BY <1>2, <2>1
  <2>4. \A k \in DOMAIN y : /\ y[k] \in DOMAIN q.items /\ q.items[y[k]].type = "tool"
                            /\ q.items[y[k]].name = cs[k].name /\ q.items[y[k]].args = cs[k].args
    BY <2>1, <2>3
  <2> QED BY <2>1, <2>2, <2>4 DEF TellsCalls
<1> QED BY <1>7, <1>8

\* A block is replaced.
Replaced(r, i, piece) ==
  [items |-> [r.items EXCEPT ![i] = piece], order |-> r.order, text |-> r.text,
   finish |-> r.finish, failed |-> r.failed]

\* A block is changed and keeps its type.
LEMMA PieceIs ==
  ASSUME NEW r, Sound(r), NEW i \in DOMAIN r.items, NEW piece \in Pieces, piece.type = r.items[i].type,
         NEW q, q = Replaced(r, i, piece)
  PROVE  /\ Sound(q) /\ SameBlocks(q, r)
         /\ q.items[i] = piece /\ \A k \in DOMAIN r.items \ {i} : q.items[k] = r.items[k]
         /\ q.text = r.text /\ q.finish = r.finish /\ q.failed = r.failed
<1> DEFINE items == [r.items EXCEPT ![i] = piece]
<1>1. /\ r.items \in [DOMAIN r.items -> Pieces] /\ DOMAIN r.items \in SUBSET Nat /\ r.order \in Seq(Nat)
      /\ r.text \in Seq(Symbols) /\ r.finish \in Symbols /\ r.failed \in BOOLEAN
  BY AccIs DEF Sound
<1>2. /\ items \in [DOMAIN r.items -> Pieces] /\ items[i] = piece
      /\ \A k \in DOMAIN r.items \ {i} : items[k] = r.items[k]
  BY <1>1
<1>3. DOMAIN items = DOMAIN r.items BY <1>1
<1> HIDE DEF items
<1>4. q = [items |-> items, order |-> r.order, text |-> r.text, finish |-> r.finish, failed |-> r.failed]
  BY DEF items, Replaced
<1>5. q \in Accs BY <1>1, <1>2, <1>4, AccOf
<1>6. /\ q.items = items /\ q.order = r.order /\ q.text = r.text /\ q.finish = r.finish /\ q.failed = r.failed
  BY <1>4
<1>7. Sound(q) BY <1>3, <1>5, <1>6 DEF Sound
<1>8. SameBlocks(q, r)
  <2>1. \A k \in DOMAIN r.items : q.items[k].type = r.items[k].type BY <1>2, <1>6
  <2> QED BY <1>3, <1>6, <2>1 DEF SameBlocks
<1> QED BY <1>2, <1>6, <1>7, <1>8

\* A piece of text goes to the end of the final text block.
LEMMA TextGrown ==
  ASSUME NEW r, NEW text, NEW cs, Sound(r), TellsText(r, text), TellsCalls(r, cs),
         NEW x, x = OfType(r, "text"), x # <<>>, NEW i, i = x[Len(x)], NEW c \in Seq(Symbols), NEW q, q = TextTo(r, i, c),
         NEW longer, longer = Glued(text, c)
  PROVE  /\ Sound(q) /\ SameBlocks(q, r) /\ TellsText(q, longer) /\ TellsCalls(q, cs)
         /\ q.text = r.text /\ q.finish = r.finish /\ q.failed = r.failed
<1>1. /\ x \in Seq(Nat)
      /\ \A k \in DOMAIN x : x[k] \in DOMAIN r.items /\ r.items[x[k]].type = "text"
      /\ \A j, k \in DOMAIN x : x[j] = x[k] => j = k
      /\ text = r.text \o Joined([k \in DOMAIN x |-> r.items[x[k]].text])
  BY DEF TellsText
<1>2. PICK n \in Nat : Len(x) = n /\ DOMAIN x = 1 .. n BY <1>1, LenProperties
<1>3. n # 0 /\ n \in 1 .. n BY <1>1, <1>2, EmptySeq
<1>4. i = x[n] /\ i \in DOMAIN r.items /\ r.items[i].type = "text" BY <1>1, <1>2, <1>3
<1>5. \A k \in DOMAIN r.items : r.items[k] \in Pieces BY AccIs DEF Sound
<1> DEFINE piece == [r.items[i] EXCEPT !.text = @ \o c]
<1>6. r.items[i] \in Pieces BY <1>4, <1>5
<1>7. r.items[i].text \in Seq(Symbols) /\ r.items[i].text \o c \in Seq(Symbols) BY <1>6, ConcatProperties DEF Pieces
<1>8. /\ piece \in Pieces /\ piece.type = r.items[i].type /\ piece.text = r.items[i].text \o c
  BY <1>6, <1>7 DEF Pieces
<1>9. q = Replaced(r, i, piece)
  <2>1. r = [items |-> r.items, order |-> r.order, text |-> r.text, finish |-> r.finish, failed |-> r.failed]
    BY AccIs DEF Sound
  <2>2. q = [r EXCEPT !.items[i].text = @ \o c] BY <1>4 DEF TextTo
  <2>3. [r EXCEPT !.items[i].text = @ \o c] = [r EXCEPT !.items = [r.items EXCEPT ![i] = piece]] OBVIOUS
  <2>4. \A new : [r EXCEPT !.items = new] = [items |-> new, order |-> r.order, text |-> r.text,
                                             finish |-> r.finish, failed |-> r.failed]
    BY <2>1
  <2> QED BY <2>2, <2>3, <2>4 DEF Replaced
<1> HIDE DEF piece
<1>10. /\ Sound(q) /\ SameBlocks(q, r)
       /\ q.items[i] = piece /\ \A k \in DOMAIN r.items \ {i} : q.items[k] = r.items[k]
       /\ q.text = r.text /\ q.finish = r.finish /\ q.failed = r.failed
  <2>1. PICK p \in Pieces : p = piece BY <1>8
  <2>2. i \in DOMAIN r.items /\ p.type = r.items[i].type /\ q = Replaced(r, i, p) BY <1>4, <1>8, <1>9, <2>1
  <2> QED BY <2>1, <2>2, PieceIs
<1>11. TellsCalls(q, cs)
  <2>1. \A k \in DOMAIN r.items : r.items[k].type = "tool" => q.items[k] = r.items[k] BY <1>4, <1>10
  <2> QED BY <1>10, <2>1, CallsKept
<1>12. TellsText(q, longer)
  <2> DEFINE a == [k \in 1 .. n |-> q.items[x[k]].text]
             b == [k \in 1 .. n |-> r.items[x[k]].text]
             f == [k \in 1 .. (n - 1) |-> r.items[x[k]].text]
  <2>1. PICK m \in Nat : n = m + 1 BY <1>3
  <2>2. Len(a) = m + 1 /\ Len(b) = m + 1 /\ Len(f) = m BY <2>1
  <2>3. \A k \in 1 .. m : b[k] = f[k] BY <2>1
  <2>4. \A k \in 1 .. m : a[k] = f[k]
    <3> SUFFICES ASSUME NEW k \in 1 .. m PROVE q.items[x[k]].text = r.items[x[k]].text BY <2>1
    <3>1. k \in DOMAIN x /\ n \in DOMAIN x /\ k # n BY <1>2, <1>3, <2>1
    <3>2. x[k] # i /\ x[k] \in DOMAIN r.items BY <1>1, <1>4, <3>1
    <3> QED BY <1>10, <3>2
  <2>5. a[n] = b[n] \o c
    <3>1. a[n] = q.items[i].text /\ b[n] = r.items[i].text BY <1>3, <1>4
    <3> QED BY <1>8, <1>10, <3>1
  <2>6. b[n] \in Seq(Symbols) BY <1>3, <1>4, <1>7
  <2>7. \A k \in 1 .. m : f[k] \in Seq(Symbols)
    <3>1. ASSUME NEW j \in DOMAIN r.items PROVE r.items[j].text \in Seq(Symbols)
      <4>1. r.items[j] \in Pieces BY <1>5
      <4> QED BY <4>1 DEF Pieces
    <3> SUFFICES ASSUME NEW k \in 1 .. m PROVE r.items[x[k]].text \in Seq(Symbols) BY <2>1
    <3>2. x[k] \in DOMAIN r.items BY <1>1, <1>2, <2>1
    <3> QED BY <3>1, <3>2
  <2> HIDE DEF a, b, f
  <2>8. Joined(a) = Joined(f) \o a[m + 1] BY <2>2, <2>4, JoinedStep
  <2>9. Joined(b) = Joined(f) \o b[m + 1] BY <2>2, <2>3, JoinedStep
  <2>10. Joined(f) \in Seq(Symbols) BY <2>2, <2>7, JoinedType
  <2>11. Joined(a) = Joined(b) \o c
    <3>1. Joined(f) \o (b[n] \o c) = (Joined(f) \o b[n]) \o c BY <2>6, <2>10, Regrouped
    <3> QED BY <2>1, <2>5, <2>8, <2>9, <3>1
  <2>12. text = r.text \o Joined(b) BY <1>1, <1>2 DEF b
  <2>13. Joined(b) \in Seq(Symbols) BY <2>1, <2>6, <2>9, <2>10, ConcatProperties
  <2>14. r.text \in Seq(Symbols) BY AccIs DEF Sound
  <2>15. text \o c = q.text \o Joined(a)
    <3>1. (r.text \o Joined(b)) \o c = r.text \o (Joined(b) \o c) BY <2>13, <2>14, Regrouped
    <3> QED BY <1>10, <2>11, <2>12, <3>1
  <2>16. OfType(q, "text") = x BY <1>10, SameBlocksTypes
  <2>17. \A k \in DOMAIN x : x[k] \in DOMAIN q.items /\ q.items[x[k]].type = "text" BY <1>1, <1>10 DEF SameBlocks
  <2>18. text \o c = q.text \o Joined([k \in DOMAIN x |-> q.items[x[k]].text]) BY <1>2, <2>15 DEF a
  <2>19. longer = q.text \o Joined([k \in DOMAIN x |-> q.items[x[k]].text]) BY <2>18 DEF Glued
  <2>20. longer = q.text \o Joined([k \in DOMAIN OfType(q, "text") |-> q.items[OfType(q, "text")[k]].text])
    BY <2>16, <2>19
  <2>21. /\ OfType(q, "text") \in Seq(Nat)
         /\ \A k \in DOMAIN OfType(q, "text") : /\ OfType(q, "text")[k] \in DOMAIN q.items
                                               /\ q.items[OfType(q, "text")[k]].type = "text"
         /\ \A j, k \in DOMAIN OfType(q, "text") : OfType(q, "text")[j] = OfType(q, "text")[k] => j = k
    BY <1>1, <2>16, <2>17
  <2>22. TellsText(q, longer) BY <2>20, <2>21, Zenon DEF TellsText
  <2> QED BY <2>22
<1> QED BY <1>10, <1>11, <1>12

\* A call is opened.
LEMMA CallOpened ==
  ASSUME NEW r, NEW text, NEW S, NEW cs \in Seq(S), Sound(r), TellsText(r, text), TellsCalls(r, cs),
         NEW i \in Nat, i \notin DOMAIN r.items, NEW name \in Symbols, NEW call \in S, call.name = name, call.args = <<>>,
         NEW q, q = Opened(r, i, "tool", name)
  PROVE  TellsText(q, text) /\ TellsCalls(q, Append(cs, call))
<1> DEFINE x == OfType(r, "text")
           y == OfType(r, "tool")
           z == OfType(q, "tool")
           ds == Append(cs, call)
<1>1. /\ q.text = r.text
      /\ DOMAIN q.items = {i} \cup DOMAIN r.items
      /\ \A k \in DOMAIN r.items : q.items[k] = r.items[k]
      /\ q.items[i].type = "tool" /\ q.items[i].name = name /\ q.items[i].args = <<>>
      /\ z = Append(y, i) /\ OfType(q, "text") = x
  BY OpenedIs
<1>2. /\ y \in Seq(Nat) /\ DOMAIN cs = DOMAIN y
      /\ \A k \in DOMAIN y : /\ y[k] \in DOMAIN r.items /\ r.items[y[k]].type = "tool"
                             /\ r.items[y[k]].name = cs[k].name /\ r.items[y[k]].args = cs[k].args
      /\ \A j, k \in DOMAIN y : y[j] = y[k] => j = k
  BY DEF TellsCalls
<1>3. /\ x \in Seq(Nat)
      /\ \A k \in DOMAIN x : x[k] \in DOMAIN r.items /\ r.items[x[k]].type = "text"
      /\ \A j, k \in DOMAIN x : x[j] = x[k] => j = k
      /\ text = r.text \o Joined([k \in DOMAIN x |-> r.items[x[k]].text])
  BY DEF TellsText
<1> HIDE DEF x, y, z, ds
<1>4. TellsText(q, text)
  <2>1. \A k \in DOMAIN x : x[k] \in DOMAIN q.items /\ q.items[x[k]] = r.items[x[k]] BY <1>1, <1>3
  <2>2. [k \in DOMAIN x |-> r.items[x[k]].text] = [k \in DOMAIN x |-> q.items[x[k]].text] BY <2>1
  <2>3. text = q.text \o Joined([k \in DOMAIN x |-> q.items[x[k]].text]) BY <1>1, <1>3, <2>2
  <2>4. \A k \in DOMAIN x : x[k] \in DOMAIN q.items /\ q.items[x[k]].type = "text" BY <1>3, <2>1
  <2> QED BY <1>1, <1>3, <2>3, <2>4 DEF TellsText
<1>5. PICK n \in Nat : Len(y) = n /\ DOMAIN y = 1 .. n BY <1>2, LenProperties
<1>6. /\ z \in Seq(Nat) /\ DOMAIN z = 1 .. (n + 1)
      /\ \A k \in 1 .. n : z[k] = y[k]
      /\ z[n + 1] = i
  BY <1>1, <1>2, <1>5, AppendProperties, LenProperties
<1>7. /\ DOMAIN ds = 1 .. (n + 1)
      /\ \A k \in 1 .. n : ds[k] = cs[k]
      /\ ds[n + 1] = call
  <2>1. Len(cs) = n BY <1>2, <1>5, LenProperties
  <2>2. ds \in Seq(S) /\ Len(ds) = n + 1 BY <2>1, AppendProperties DEF ds
  <2> QED BY <2>1, <2>2, AppendProperties, LenProperties DEF ds
<1>8. \A k \in 1 .. (n + 1) : k \in 1 .. n \/ k = n + 1 OBVIOUS
<1>9. ASSUME NEW k \in 1 .. (n + 1)
      PROVE  /\ z[k] \in DOMAIN q.items /\ q.items[z[k]].type = "tool"
             /\ q.items[z[k]].name = ds[k].name /\ q.items[z[k]].args = ds[k].args
  <2>1. CASE k \in 1 .. n
    <3>1. z[k] = y[k] /\ ds[k] = cs[k] /\ k \in DOMAIN y BY <1>5, <1>6, <1>7, <2>1
    <3>2. y[k] \in DOMAIN q.items /\ q.items[y[k]] = r.items[y[k]] BY <1>1, <1>2, <3>1
    <3> QED BY <1>2, <3>1, <3>2
  <2>2. CASE k = n + 1 BY <1>1, <1>6, <1>7, <2>2
  <2> QED BY <1>8, <2>1, <2>2
<1>10. ASSUME NEW j \in 1 .. (n + 1), NEW k \in 1 .. (n + 1), z[j] = z[k] PROVE j = k
  <2>1. (j \in 1 .. n \/ j = n + 1) /\ (k \in 1 .. n \/ k = n + 1) BY <1>8
  <2>2. \A m \in 1 .. n : y[m] # i BY <1>2, <1>5
  <2>3. \A l, m \in 1 .. n : y[l] = y[m] => l = m BY <1>2, <1>5
  <2> QED BY <1>6, <1>10, <2>1, <2>2, <2>3, Zenon
<1>11. TellsCalls(q, ds) BY <1>6, <1>7, <1>9, <1>10 DEF TellsCalls, z
<1> QED BY <1>4, <1>11 DEF ds

\* A call is told otherwise, in its place.
LEMMA CallChanged ==
  ASSUME NEW r, NEW text, NEW cs, Sound(r), TellsText(r, text), TellsCalls(r, cs),
         NEW y, y = OfType(r, "tool"), NEW k \in DOMAIN y, NEW i, i = y[k],
         NEW piece \in Pieces, piece.type = "tool", NEW q, q = Replaced(r, i, piece),
         NEW ds, DOMAIN ds = DOMAIN cs, \A j \in DOMAIN cs \ {k} : ds[j] = cs[j],
         ds[k].name = piece.name, ds[k].args = piece.args
  PROVE  TellsText(q, text) /\ TellsCalls(q, ds)
<1>1. /\ y \in Seq(Nat) /\ DOMAIN cs = DOMAIN y
      /\ \A j \in DOMAIN y : /\ y[j] \in DOMAIN r.items /\ r.items[y[j]].type = "tool"
                             /\ r.items[y[j]].name = cs[j].name /\ r.items[y[j]].args = cs[j].args
      /\ \A j, l \in DOMAIN y : y[j] = y[l] => j = l
  BY DEF TellsCalls
<1>2. i \in DOMAIN r.items /\ piece.type = r.items[i].type BY <1>1
<1>3. /\ Sound(q) /\ SameBlocks(q, r)
      /\ q.items[i] = piece /\ \A j \in DOMAIN r.items \ {i} : q.items[j] = r.items[j]
      /\ q.text = r.text
  BY <1>2, PieceIs
<1>4. TellsText(q, text)
  <2>1. \A j \in DOMAIN r.items : r.items[j].type = "text" => q.items[j] = r.items[j] BY <1>1, <1>3
  <2> QED BY <1>3, <2>1, TextKept
<1>5. OfType(q, "tool") = y BY <1>3, SameBlocksTypes
<1>6. ASSUME NEW j \in DOMAIN y
      PROVE  /\ y[j] \in DOMAIN q.items /\ q.items[y[j]].type = "tool"
             /\ q.items[y[j]].name = ds[j].name /\ q.items[y[j]].args = ds[j].args
  <2>1. y[j] \in DOMAIN q.items /\ q.items[y[j]].type = "tool" BY <1>1, <1>3 DEF SameBlocks
  <2>2. CASE j = k BY <1>3, <2>1, <2>2
  <2>3. CASE j # k
    <3>1. y[j] # i /\ ds[j] = cs[j] /\ y[j] \in DOMAIN r.items BY <1>1, <2>3
    <3>2. q.items[y[j]] = r.items[y[j]] BY <1>3, <3>1
    <3> QED BY <1>1, <2>1, <3>1, <3>2
  <2> QED BY <2>2, <2>3
<1>7. DOMAIN ds = DOMAIN y BY <1>1
<1>8. TellsCalls(q, ds) BY <1>1, <1>5, <1>6, <1>7 DEF TellsCalls
<1> QED BY <1>4, <1>8

\* The same calls, but for one.
OtherwiseSame(ds, cs, k) == DOMAIN ds = DOMAIN cs /\ \A j \in DOMAIN cs \ {k} : ds[j] = cs[j]

\* More arguments for a call.
LEMMA ArgsTold ==
  ASSUME NEW r, NEW text, NEW cs, Sound(r), TellsText(r, text), TellsCalls(r, cs),
         NEW y, y = OfType(r, "tool"), NEW k \in DOMAIN y, NEW i, i = y[k], NEW f \in Seq(Symbols),
         NEW q, q = ArgsTo(r, i, f),
         NEW ds, OtherwiseSame(ds, cs, k),
         ds[k].name = cs[k].name, ds[k].args = Glued(cs[k].args, f)
  PROVE  /\ Sound(q) /\ SameBlocks(q, r) /\ TellsText(q, text) /\ TellsCalls(q, ds)
         /\ q.text = r.text /\ q.finish = r.finish /\ q.failed = r.failed
<1>1. /\ y \in Seq(Nat) /\ DOMAIN cs = DOMAIN y
      /\ \A j \in DOMAIN y : /\ y[j] \in DOMAIN r.items /\ r.items[y[j]].type = "tool"
                             /\ r.items[y[j]].name = cs[j].name /\ r.items[y[j]].args = cs[j].args
  BY DEF TellsCalls
<1>2. i \in DOMAIN r.items /\ r.items[i].type = "tool" /\ r.items[i].name = cs[k].name /\ r.items[i].args = cs[k].args
  BY <1>1
<1>3. r.items[i] \in Pieces
  <2>1. r.items \in [DOMAIN r.items -> Pieces] BY AccIs DEF Sound
  <2> QED BY <1>2, <2>1
<1>4. r.items[i].args \in Seq(Symbols) /\ r.items[i].args \o f \in Seq(Symbols) BY <1>3, ConcatProperties DEF Pieces
<1> DEFINE piece == [r.items[i] EXCEPT !.args = @ \o f]
<1>5. /\ piece \in Pieces /\ piece.type = r.items[i].type /\ piece.name = r.items[i].name
      /\ piece.args = r.items[i].args \o f
  BY <1>3, <1>4 DEF Pieces
<1>6. q = Replaced(r, i, piece)
  <2>1. r = [items |-> r.items, order |-> r.order, text |-> r.text, finish |-> r.finish, failed |-> r.failed]
    BY AccIs DEF Sound
  <2>2. q = [r EXCEPT !.items[i].args = @ \o f] BY <1>2 DEF ArgsTo
  <2>3. [r EXCEPT !.items[i].args = @ \o f] = [r EXCEPT !.items = [r.items EXCEPT ![i] = piece]] OBVIOUS
  <2>4. \A new : [r EXCEPT !.items = new] = [items |-> new, order |-> r.order, text |-> r.text,
                                             finish |-> r.finish, failed |-> r.failed]
    BY <2>1
  <2> QED BY <2>2, <2>3, <2>4 DEF Replaced
<1> HIDE DEF piece
<1>7. Sound(q) /\ SameBlocks(q, r) /\ q.text = r.text /\ q.finish = r.finish /\ q.failed = r.failed
  BY <1>2, <1>5, <1>6, PieceIs
<1>8. piece.type = "tool" /\ ds[k].name = piece.name /\ ds[k].args = piece.args BY <1>2, <1>5 DEF Glued
<1>9. TellsText(q, text) /\ TellsCalls(q, ds)
  <2>1. PICK p \in Pieces : p = piece BY <1>5
  <2>2. p.type = "tool" /\ ds[k].name = p.name /\ ds[k].args = p.args /\ q = Replaced(r, i, p) BY <1>6, <1>8, <2>1
  <2> QED BY <2>2, CallChanged DEF OtherwiseSame
<1> QED BY <1>7, <1>9

\* A name for a call.
LEMMA NameTold ==
  ASSUME NEW r, NEW text, NEW cs, Sound(r), TellsText(r, text), TellsCalls(r, cs),
         NEW y, y = OfType(r, "tool"), NEW k \in DOMAIN y, NEW i, i = y[k], NEW name \in Symbols \ {Unset},
         NEW q, q = Named(r, i, name),
         NEW ds, OtherwiseSame(ds, cs, k),
         ds[k].name = name, ds[k].args = cs[k].args
  PROVE  /\ Sound(q) /\ SameBlocks(q, r) /\ TellsText(q, text) /\ TellsCalls(q, ds)
         /\ q.text = r.text /\ q.finish = r.finish /\ q.failed = r.failed
<1>1. /\ y \in Seq(Nat) /\ DOMAIN cs = DOMAIN y
      /\ \A j \in DOMAIN y : /\ y[j] \in DOMAIN r.items /\ r.items[y[j]].type = "tool"
                             /\ r.items[y[j]].name = cs[j].name /\ r.items[y[j]].args = cs[j].args
  BY DEF TellsCalls
<1>2. i \in DOMAIN r.items /\ r.items[i].type = "tool" /\ r.items[i].args = cs[k].args
  BY <1>1
<1>3. r.items[i] \in Pieces
  <2>1. r.items \in [DOMAIN r.items -> Pieces] BY AccIs DEF Sound
  <2> QED BY <1>2, <2>1
<1> DEFINE piece == [r.items[i] EXCEPT !.name = name]
<1>5. /\ piece \in Pieces /\ piece.type = r.items[i].type /\ piece.name = name
      /\ piece.args = r.items[i].args
  BY <1>3 DEF Pieces
<1>6. q = Replaced(r, i, piece)
  <2>1. r = [items |-> r.items, order |-> r.order, text |-> r.text, finish |-> r.finish, failed |-> r.failed]
    BY AccIs DEF Sound
  <2>2. q = [r EXCEPT !.items[i].name = name] BY DEF Named
  <2>3. [r EXCEPT !.items[i].name = name] = [r EXCEPT !.items = [r.items EXCEPT ![i] = piece]] OBVIOUS
  <2>4. \A new : [r EXCEPT !.items = new] = [items |-> new, order |-> r.order, text |-> r.text,
                                             finish |-> r.finish, failed |-> r.failed]
    BY <2>1
  <2> QED BY <2>2, <2>3, <2>4 DEF Replaced
<1> HIDE DEF piece
<1>7. Sound(q) /\ SameBlocks(q, r) /\ q.text = r.text /\ q.finish = r.finish /\ q.failed = r.failed
  BY <1>2, <1>5, <1>6, PieceIs
<1>8. piece.type = "tool" /\ ds[k].name = piece.name /\ ds[k].args = piece.args BY <1>2, <1>5
<1>9. TellsText(q, text) /\ TellsCalls(q, ds) BY <1>5, <1>6, <1>8, CallChanged DEF OtherwiseSame
<1> QED BY <1>7, <1>9

(***************************************************************************)
(* The folds over the calls and parts of one event                         *)
(***************************************************************************)

\* The folds of the steps over no call, and over one.
LEMMA NoChatCall == ASSUME NEW s, NEW cs, cs = <<>> PROVE Folded(ChatCall, s, cs) = s
<1> DEFINE F(f) == f = [k \in 0 .. 0 |-> IF k = 0 THEN s ELSE ChatCall(f[k - 1], cs[k])]
<1>1. Folded(ChatCall, s, cs) = (CHOOSE f : F(f))[0]
  <2>1. Len(cs) = 0 OBVIOUS
  <2> QED BY <2>1 DEF Folded
<1>2. F([k \in 0 .. 0 |-> s]) OBVIOUS
<1>3. F(CHOOSE f : F(f))
  <2> HIDE DEF F
  <2> QED BY <1>2
<1> QED BY <1>1, <1>3

LEMMA OneChatCall == ASSUME NEW s, NEW c, NEW cs, cs = <<c>> PROVE Folded(ChatCall, s, cs) = ChatCall(s, c)
<1> DEFINE F(f) == f = [k \in 0 .. 1 |-> IF k = 0 THEN s ELSE ChatCall(f[k - 1], cs[k])]
<1>1. Folded(ChatCall, s, cs) = (CHOOSE f : F(f))[1]
  <2>1. Len(cs) = 1 OBVIOUS
  <2> QED BY <2>1 DEF Folded
<1>2. F([k \in 0 .. 1 |-> IF k = 0 THEN s ELSE ChatCall(s, cs[k])]) OBVIOUS
<1>3. F(CHOOSE f : F(f))
  <2> HIDE DEF F
  <2> QED BY <1>2
<1>4. cs[1] = c OBVIOUS
<1> HIDE DEF F
<1>5. \A f : F(f) => f[1] = ChatCall(f[0], cs[1]) /\ f[0] = s BY DEF F
<1> QED BY <1>1, <1>3, <1>4, <1>5

LEMMA NoPart == ASSUME NEW s, NEW cs, cs = <<>> PROVE Folded(Part, s, cs) = s
<1> DEFINE F(f) == f = [k \in 0 .. 0 |-> IF k = 0 THEN s ELSE Part(f[k - 1], cs[k])]
<1>1. Folded(Part, s, cs) = (CHOOSE f : F(f))[0]
  <2>1. Len(cs) = 0 OBVIOUS
  <2> QED BY <2>1 DEF Folded
<1>2. F([k \in 0 .. 0 |-> s]) OBVIOUS
<1>3. F(CHOOSE f : F(f))
  <2> HIDE DEF F
  <2> QED BY <1>2
<1> QED BY <1>1, <1>3

LEMMA OnePart == ASSUME NEW s, NEW c, NEW cs, cs = <<c>> PROVE Folded(Part, s, cs) = Part(s, c)
<1> DEFINE F(f) == f = [k \in 0 .. 1 |-> IF k = 0 THEN s ELSE Part(f[k - 1], cs[k])]
<1>1. Folded(Part, s, cs) = (CHOOSE f : F(f))[1]
  <2>1. Len(cs) = 1 OBVIOUS
  <2> QED BY <2>1 DEF Folded
<1>2. F([k \in 0 .. 1 |-> IF k = 0 THEN s ELSE Part(s, cs[k])]) OBVIOUS
<1>3. F(CHOOSE f : F(f))
  <2> HIDE DEF F
  <2> QED BY <1>2
<1>4. cs[1] = c OBVIOUS
<1> HIDE DEF F
<1>5. \A f : F(f) => f[1] = Part(f[0], cs[1]) /\ f[0] = s BY DEF F
<1> QED BY <1>1, <1>3, <1>4, <1>5

\* A text and a call.
LEMMA TwoParts ==
  ASSUME NEW s, NEW c, NEW d, NEW cs, cs = <<c, d>>, NEW m, m = Part(s, c), NEW q, q = Part(m, d)
  PROVE  Folded(Part, s, cs) = q
<1> DEFINE F(f) == f = [k \in 0 .. 2 |-> IF k = 0 THEN s ELSE Part(f[k - 1], cs[k])]
<1>1. Folded(Part, s, cs) = (CHOOSE f : F(f))[2]
  <2>1. Len(cs) = 2 OBVIOUS
  <2> QED BY <2>1 DEF Folded
<1>2. F([k \in 0 .. 2 |-> IF k = 0 THEN s ELSE IF k = 1 THEN Part(s, cs[k]) ELSE Part(Part(s, cs[1]), cs[k])]) OBVIOUS
<1>3. F(CHOOSE f : F(f))
  <2> HIDE DEF F
  <2> QED BY <1>2
<1>4. cs[1] = c /\ cs[2] = d OBVIOUS
<1> HIDE DEF F
<1>5. \A f : F(f) => f[2] = Part(f[1], cs[2]) /\ f[1] = Part(f[0], cs[1]) /\ f[0] = s BY DEF F
<1> QED BY <1>1, <1>3, <1>4, <1>5

LEMMA NoOllamaCall == ASSUME NEW s, NEW cs, cs = <<>> PROVE Folded(OllamaCall, s, cs) = s
<1> DEFINE F(f) == f = [k \in 0 .. 0 |-> IF k = 0 THEN s ELSE OllamaCall(f[k - 1], cs[k])]
<1>1. Folded(OllamaCall, s, cs) = (CHOOSE f : F(f))[0]
  <2>1. Len(cs) = 0 OBVIOUS
  <2> QED BY <2>1 DEF Folded
<1>2. F([k \in 0 .. 0 |-> s]) OBVIOUS
<1>3. F(CHOOSE f : F(f))
  <2> HIDE DEF F
  <2> QED BY <1>2
<1> QED BY <1>1, <1>3

LEMMA OneOllamaCall == ASSUME NEW s, NEW c, NEW cs, cs = <<c>> PROVE Folded(OllamaCall, s, cs) = OllamaCall(s, c)
<1> DEFINE F(f) == f = [k \in 0 .. 1 |-> IF k = 0 THEN s ELSE OllamaCall(f[k - 1], cs[k])]
<1>1. Folded(OllamaCall, s, cs) = (CHOOSE f : F(f))[1]
  <2>1. Len(cs) = 1 OBVIOUS
  <2> QED BY <2>1 DEF Folded
<1>2. F([k \in 0 .. 1 |-> IF k = 0 THEN s ELSE OllamaCall(s, cs[k])]) OBVIOUS
<1>3. F(CHOOSE f : F(f))
  <2> HIDE DEF F
  <2> QED BY <1>2
<1>4. cs[1] = c OBVIOUS
<1> HIDE DEF F
<1>5. \A f : F(f) => f[1] = OllamaCall(f[0], cs[1]) /\ f[0] = s BY DEF F
<1> QED BY <1>1, <1>3, <1>4, <1>5

(***************************************************************************)
(* What each event of a provider does to the accumulator                   *)
(***************************************************************************)

\* No reason is not a reason.
LEMMA UnsetReason == Unset # "stop" /\ Unset # "length"
BY Zenon DEF Unset

\* Saying nothing changes nothing.
LEMMA SpokenNothing == ASSUME NEW r \in Accs PROVE Spoken(r, <<>>) = r
<1>1. r = [items |-> r.items, order |-> r.order, text |-> r.text, finish |-> r.finish, failed |-> r.failed] BY AccIs
<1>2. r.text \in Seq(Symbols) BY AccIs
<1>3. r.text \o <<>> = r.text BY <1>2, ConcatEmptySeq
<1>4. Spoken(r, <<>>) = [r EXCEPT !.text = r.text] BY <1>3 DEF Spoken
<1> QED BY <1>1, <1>4

\* The step of each dialect.
LEMMA StepIs ==
  \A s, e : /\ Step("anthropic", s, e) = AnthropicStep(s, e)
            /\ Step("openai-chat", s, e) = OpenAIChatStep(s, e)
            /\ Step("openai-responses", s, e) = OpenAIResponsesStep(s, e)
            /\ Step("gemini", s, e) = GeminiStep(s, e)
            /\ Step("ollama", s, e) = OllamaStep(s, e)
BY DEF Step

\* An event that carries nothing.
LEMMA NoiseStep == ASSUME NEW p \in Dialects, NEW r PROVE Step(p, r, Noise) = r
<1>1. Noise.type = "noise" BY DEF Noise
<1>2. AnthropicStep(r, Noise) = r BY <1>1 DEF AnthropicStep
<1>3. OpenAIChatStep(r, Noise) = r BY <1>1 DEF OpenAIChatStep
<1>4. OpenAIResponsesStep(r, Noise) = r BY <1>1 DEF OpenAIResponsesStep
<1>5. GeminiStep(r, Noise) = r BY <1>1 DEF GeminiStep
<1>6. OllamaStep(r, Noise) = r BY <1>1 DEF OllamaStep
<1> QED BY <1>2, <1>3, <1>4, <1>5, <1>6, StepIs DEF Dialects

\* A chunk, a response or a line that carries no call, no part or no text.
LEMMA ChatStepIs ==
  ASSUME NEW r \in Accs, NEW text, NEW cs, NEW reason
  PROVE  LET e == Chunk(text, cs, reason)
         IN  /\ OpenAIChatStep(r, e) = Finished(Folded(ChatCall, Spoken(r, text), cs), reason)
             /\ e.type = "chunk"
BY DEF OpenAIChatStep, Chunk

\* A chunk of Gemini and its parts.
LEMMA GeminiStepIs ==
  ASSUME NEW r, NEW parts, NEW reason, NEW e, e = [type |-> "response", parts |-> parts, finish |-> reason]
  PROVE  GeminiStep(r, e) = Finished(Folded(Part, r, parts), reason)
BY DEF GeminiStep

\* A line of Ollama and its calls.
LEMMA OllamaStepIs ==
  ASSUME NEW r, NEW text, NEW cs, NEW reason,
         NEW e, e = [type |-> "line", text |-> text, calls |-> cs, finish |-> reason]
  PROVE  OllamaStep(r, e) = Finished(Folded(OllamaCall, Spoken(r, text), cs), reason)
BY DEF OllamaStep

\* What an ending changes.
LEMMA EndingStep ==
  ASSUME dialect \in Dialects, NEW r \in Accs, NEW reason
  PROVE  /\ Step(dialect, r, Ending(reason)) = Finished(r, reason)
         /\ Ending(reason).type \notin {"error", "content_block_start"}
<1>0. Spoken(r, <<>>) = r BY SpokenNothing
<1>1. CASE dialect = "anthropic"
  <2>1. Ending(reason) = [type |-> "message_delta", finish |-> reason] BY <1>1 DEF Ending
  <2>2. Ending(reason).type = "message_delta" /\ Ending(reason).finish = reason BY <2>1
  <2>3. AnthropicStep(r, Ending(reason)) = Finished(r, reason) BY <2>2 DEF AnthropicStep
  <2> QED BY <1>1, <2>2, <2>3, StepIs
<1>2. CASE dialect = "openai-chat"
  <2>1. Ending(reason) = Chunk(<<>>, <<>>, reason) BY <1>2 DEF Ending
  <2>2. Ending(reason).type = "chunk" BY <2>1, ChatStepIs
  <2>3. OpenAIChatStep(r, Ending(reason)) = Finished(Folded(ChatCall, r, <<>>), reason) BY <1>0, <2>1, ChatStepIs
  <2>4. Folded(ChatCall, r, <<>>) = r BY NoChatCall
  <2> QED BY <1>2, <2>2, <2>3, <2>4, StepIs
<1>3. CASE dialect = "openai-responses"
  <2>1. Ending(reason) = [type |-> "response.completed", finish |-> reason] BY <1>3 DEF Ending
  <2>2. Ending(reason).type = "response.completed" /\ Ending(reason).finish = reason BY <2>1
  <2>3. OpenAIResponsesStep(r, Ending(reason)) = Finished(r, reason) BY <2>2 DEF OpenAIResponsesStep
  <2> QED BY <1>3, <2>2, <2>3, StepIs
<1>4. CASE dialect = "gemini"
  <2>1. Ending(reason) = [type |-> "response", parts |-> <<>>, finish |-> reason] BY <1>4 DEF Ending
  <2>2. Ending(reason).type = "response" BY <2>1
  <2>3. GeminiStep(r, Ending(reason)) = Finished(Folded(Part, r, <<>>), reason) BY <2>1, GeminiStepIs
  <2>4. Folded(Part, r, <<>>) = r BY NoPart
  <2> QED BY <1>4, <2>2, <2>3, <2>4, StepIs
<1>5. CASE dialect = "ollama"
  <2>1. Ending(reason) = [type |-> "line", text |-> <<>>, calls |-> <<>>, finish |-> reason] BY <1>5 DEF Ending
  <2>2. Ending(reason).type = "line" BY <2>1
  <2>3. OllamaStep(r, Ending(reason)) = Finished(Folded(OllamaCall, Spoken(r, <<>>), <<>>), reason) BY <2>1, OllamaStepIs
  <2>4. Folded(OllamaCall, r, <<>>) = r BY NoOllamaCall
  <2> QED BY <1>0, <1>5, <2>2, <2>3, <2>4, StepIs
<1> QED BY <1>1, <1>2, <1>3, <1>4, <1>5 DEF Dialects

\* No reason yet.
LEMMA UnsetStep == \A s : Finished(s, Unset) = s
BY DEF Finished

\* One event more of a stream.
LEMMA AppendIs ==
  ASSUME NEW S, NEW s \in Seq(S), NEW x \in S, NEW n, n = Len(s), NEW m, m = n + 1
  PROVE  \E t : t = Append(s, x) /\ DOMAIN t = 1 .. m /\ t[m] = x /\ \A k \in 1 .. n : t[k] = s[k]
<1>1. n \in Nat BY LenProperties
<1>2. /\ Append(s, x) \in Seq(S) /\ Len(Append(s, x)) = n + 1
      /\ \A k \in 1 .. n : Append(s, x)[k] = s[k]
      /\ Append(s, x)[n + 1] = x
  BY AppendProperties
<1>3. DOMAIN Append(s, x) = 1 .. (n + 1) BY <1>2, LenProperties
<1> QED BY <1>2, <1>3

\* A call is opened and gets its arguments.
LEMMA CalledAt ==
  ASSUME NEW r, NEW text, NEW S, NEW cs \in Seq(S), Sound(r), TellsText(r, text), TellsCalls(r, cs),
         NEW i \in Nat, i \notin DOMAIN r.items, NEW name \in Symbols, NEW args \in Seq(Symbols),
         NEW call \in S, call.name = name, call.args = args,
         NEW s, s = Opened(r, i, "tool", name), NEW q, q = ArgsTo(s, i, args)
  PROVE  /\ Sound(q) /\ TellsText(q, text) /\ TellsCalls(q, Append(cs, call))
         /\ q.finish = r.finish /\ q.failed = r.failed
         /\ DOMAIN q.items = {i} \cup DOMAIN r.items /\ q.order = Append(r.order, i)
         /\ OfType(q, "text") = OfType(r, "text")
         /\ s \in Accs /\ i \in DOMAIN s.items
<1>a. PICK blank : blank = [name |-> name, args |-> <<>>] OBVIOUS
<1>t. PICK T : T = S \cup {blank} OBVIOUS
<1>b. cs \in Seq(T) /\ blank \in T /\ blank.name = name /\ blank.args = <<>>
  <2>1. S \subseteq T /\ blank \in T BY <1>t
  <2>2. cs \in Seq(T) BY <2>1, SeqMonotonic
  <2> QED BY <1>a, <2>1, <2>2
<1>5. PICK n \in Nat : n = Len(cs) /\ DOMAIN cs = 1 .. n BY LenProperties
<1>m. PICK m \in Nat : m = n + 1 OBVIOUS
<1>6. PICK ds : ds = Append(cs, blank) /\ DOMAIN ds = 1 .. m /\ ds[m] = blank /\ \A k \in 1 .. n : ds[k] = cs[k]
  <2>1. Append(cs, blank) \in Seq(T) /\ Len(Append(cs, blank)) = m BY <1>5, <1>b, <1>m, AppendProperties
  <2>2. DOMAIN Append(cs, blank) = 1 .. m BY <2>1, LenProperties
  <2>3. Append(cs, blank)[m] = blank /\ \A k \in 1 .. n : Append(cs, blank)[k] = cs[k] BY <1>5, <1>b, <1>m, AppendProperties
  <2> QED BY <2>2, <2>3
<1>7. PICK es : es = Append(cs, call) /\ DOMAIN es = 1 .. m /\ es[m] = call /\ \A k \in 1 .. n : es[k] = cs[k]
  <2>1. Append(cs, call) \in Seq(S) /\ Len(Append(cs, call)) = m BY <1>5, <1>m, AppendProperties
  <2>2. DOMAIN Append(cs, call) = 1 .. m BY <2>1, LenProperties
  <2>3. Append(cs, call)[m] = call /\ \A k \in 1 .. n : Append(cs, call)[k] = cs[k] BY <1>5, <1>m, AppendProperties
  <2> QED BY <2>2, <2>3
<1>9. /\ Sound(s) /\ s.finish = r.finish /\ s.failed = r.failed
      /\ s.order = Append(r.order, i)
      /\ DOMAIN s.items = {i} \cup DOMAIN r.items
      /\ OfType(s, "tool") = Append(OfType(r, "tool"), i) /\ OfType(s, "text") = OfType(r, "text")
  BY OpenedIs
<1>10. TellsText(s, text) /\ TellsCalls(s, ds) BY <1>6, <1>b, CallOpened
<1>11. PICK y : y = OfType(s, "tool") OBVIOUS
<1>12. m \in DOMAIN y /\ y[m] = i
  <2>1. OfType(r, "tool") \in Seq(Nat) /\ DOMAIN OfType(r, "tool") = DOMAIN cs BY DEF TellsCalls
  <2>2. Len(OfType(r, "tool")) = n BY <1>5, <2>1, LenProperties
  <2> QED BY <1>9, <1>11, <1>m, <2>1, <2>2, AppendIs
<1>14. /\ Sound(q) /\ SameBlocks(q, s) /\ TellsText(q, text) /\ TellsCalls(q, es)
       /\ q.finish = s.finish /\ q.failed = s.failed
  <2>0. \A j \in 1 .. m : j # m => j \in 1 .. n BY <1>m
  <2>1. DOMAIN es = DOMAIN ds /\ \A j \in DOMAIN ds \ {m} : es[j] = ds[j] BY <1>6, <1>7, <2>0
  <2>2. Glued(<<>>, args) = args BY ConcatEmptySeq DEF Glued
  <2>3. es[m].name = ds[m].name /\ es[m].args = Glued(ds[m].args, args) BY <1>6, <1>7, <1>b, <2>2
  <2>4. /\ Sound(s) /\ TellsText(s, text) /\ TellsCalls(s, ds) /\ y = OfType(s, "tool") /\ m \in DOMAIN y /\ i = y[m]
        /\ q = ArgsTo(s, i, args)
    BY <1>9, <1>10, <1>11, <1>12
  <2>5. OtherwiseSame(es, ds, m) BY <2>1 DEF OtherwiseSame
  <2> QED BY <2>3, <2>4, <2>5, ArgsTold
<1>15. OfType(q, "text") = OfType(s, "text") BY <1>9, <1>14, SameBlocksTypes
<1>16. q.order = s.order /\ DOMAIN q.items = DOMAIN s.items BY <1>14 DEF SameBlocks
<1>17. s \in Accs BY <1>9 DEF Sound
<1> QED BY <1>7, <1>9, <1>14, <1>15, <1>16, <1>17

\* A call that arrives whole.
LEMMA CalledIs ==
  ASSUME NEW r, NEW text, NEW S, NEW cs \in Seq(S), Sound(r), TellsText(r, text), TellsCalls(r, cs),
         DOMAIN r.items = 1 .. Len(r.order), NEW name \in Symbols, NEW args \in Seq(Symbols),
         NEW call \in S, call.name = name, call.args = args,
         NEW q, q = Called(r, name, args)
  PROVE  /\ Sound(q) /\ TellsText(q, text) /\ TellsCalls(q, Append(cs, call))
         /\ q.finish = r.finish /\ q.failed = r.failed
         /\ DOMAIN q.items = 1 .. Len(q.order) /\ OfType(q, "text") = OfType(r, "text")
<1>1. Len(r.order) \in Nat /\ r.order \in Seq(Nat) BY AccIs DEF Sound
<1>2. PICK i \in Nat : i = Len(r.order) + 1 BY <1>1
<1>3. PICK s : s = Opened(r, i, "tool", name) OBVIOUS
<1>4. i \notin DOMAIN r.items BY <1>1, <1>2
<1>5. q = ArgsTo(s, i, args) BY <1>2, <1>3 DEF Called
<1>6. /\ Sound(q) /\ TellsText(q, text) /\ TellsCalls(q, Append(cs, call))
      /\ q.finish = r.finish /\ q.failed = r.failed
      /\ DOMAIN q.items = {i} \cup DOMAIN r.items /\ q.order = Append(r.order, i)
      /\ OfType(q, "text") = OfType(r, "text")
  <2>1. Sound(r) /\ TellsText(r, text) /\ TellsCalls(r, cs) /\ cs \in Seq(S) OBVIOUS
  <2>2. i \in Nat /\ i \notin DOMAIN r.items /\ name \in Symbols /\ args \in Seq(Symbols) BY <1>4
  <2>3. call \in S /\ call.name = name /\ call.args = args OBVIOUS
  <2> QED BY <2>1, <2>2, <2>3, <1>3, <1>5, CalledAt
<1>7. Len(Append(r.order, i)) = Len(r.order) + 1 BY <1>1, AppendProperties
<1>8. DOMAIN q.items = 1 .. Len(q.order) BY <1>1, <1>2, <1>6, <1>7
<1> QED BY <1>6, <1>8

(***************************************************************************)
(* Every event of the provider                                             *)
(***************************************************************************)

\* A call the provider made.
Heard == [index : Nat, name : Symbols \ {Unset}, args : Seq(Symbols)]

\* The event that opens a block of text.
TextStart(e) == e.type = "content_block_start" /\ e.block = "text"

\* The final text block that was started is the final one that was opened.
Starts(st, x) ==
  /\ \A i \in DOMAIN st : TextStart(st[i]) => st[i].index = i - 1 /\ x # <<>> /\ i - 1 <= x[Len(x)]
  /\ x # <<>> => x[Len(x)] + 1 \in DOMAIN st /\ TextStart(st[x[Len(x)] + 1])

\* The index of every call is the one under which it was accumulated.
Numbered(r, cs) == \A k \in DOMAIN cs : OfType(r, "tool")[k] = cs[k].index

\* Where the blocks of each dialect are.
Placed(p, r, st, cs) ==
  /\ p \in Fragmented => Numbered(r, cs) /\ \A i \in DOMAIN r.items : i < Len(st)
  /\ p \notin Fragmented => DOMAIN r.items = 1 .. Len(r.order)
  /\ p # "anthropic" => OfType(r, "text") = <<>>
  /\ p = "anthropic" => Starts(st, OfType(r, "text"))

\* The stream carries an error.
ErrorSent(st) == \E i \in DOMAIN st : st[i].type = "error"

\* What an accumulator tells of what was said.
Tells(r, text, cs, reason) ==
  Sound(r) /\ TellsText(r, text) /\ TellsCalls(r, cs) /\ r.finish = reason

\* What has been accumulated so far is what the provider said so far.
CodecInv ==
  /\ dialect \in Dialects /\ finish \in Symbols
  /\ stream \in Seq(Range(stream)) /\ said \in Seq(Symbols) /\ calls \in Seq(Heard)
  /\ Tells(Read(dialect, stream), said, calls, finish)
  /\ Read(dialect, stream).failed <=> ErrorSent(stream)
  /\ Placed(dialect, Read(dialect, stream), stream, calls)

\* Nothing said yet.
LEMMA CodecInvInit == CodecInit => CodecInv
<1> SUFFICES ASSUME CodecInit PROVE CodecInv OBVIOUS
<1>1. /\ dialect \in Dialects /\ stream = <<>> /\ said = <<>> /\ calls = <<>> /\ finish = Unset
  BY DEF CodecInit
<1>2. Read(dialect, stream) = Blank BY <1>1, ReadEmpty
<1>3. Blank.finish = Unset /\ Blank.failed = FALSE /\ Blank.order = <<>> /\ Blank.items = <<>> BY DEF Blank
<1>4. DOMAIN <<>> = {} /\ \A S : <<>> \in Seq(S) OBVIOUS
<1>5. Tells(Blank, <<>>, <<>>, Unset) BY <1>3, BlankTells DEF Tells
<1>6. \A t : OfType(Blank, t) = <<>> BY <1>3, OfTypeEmpty
<1>7. Placed(dialect, Blank, <<>>, <<>>)
  <2>1. Numbered(Blank, <<>>) BY <1>4 DEF Numbered
  <2>2. Starts(<<>>, <<>>) BY <1>4 DEF Starts
  <2>3. DOMAIN Blank.items = {} /\ Len(Blank.order) = 0 /\ 1 .. 0 = {} BY <1>3, <1>4
  <2> QED BY <1>6, <2>1, <2>2, <2>3 DEF Placed
<1>8. ~ErrorSent(<<>>) BY <1>4 DEF ErrorSent
<1>9. Unset \in Symbols BY DEF Symbols
<1> QED BY <1>1, <1>2, <1>3, <1>4, <1>5, <1>7, <1>8, <1>9 DEF CodecInv

\* An event arrives and is read.
LEMMA Received ==
  ASSUME stream \in Seq(Range(stream)), NEW e, Sends(e)
  PROVE  /\ dialect' = dialect /\ stream' = Append(stream, e) /\ stream' \in Seq(Range(stream'))
         /\ Read(dialect', stream') = Step(dialect, Read(dialect, stream), e)
         /\ ErrorSent(stream') <=> ErrorSent(stream) \/ e.type = "error"
<1>1. dialect' = dialect /\ stream' = Append(stream, e) BY DEF Sends
<1>2. /\ Append(stream, e) \in Seq(Range(Append(stream, e)))
      /\ Len(stream) \in Nat /\ DOMAIN stream = 1 .. Len(stream)
      /\ Len(Append(stream, e)) = Len(stream) + 1
      /\ DOMAIN Append(stream, e) = 1 .. (Len(stream) + 1)
      /\ \A i \in 1 .. Len(stream) : Append(stream, e)[i] = stream[i]
      /\ Append(stream, e)[Len(stream) + 1] = e
  BY AppendAny
<1>3. PICK n \in Nat : n = Len(stream) BY <1>2
<1>4. PICK t : t = stream' OBVIOUS
<1>5. /\ t \in Seq(Range(t)) /\ Len(t) = n + 1 /\ DOMAIN t = 1 .. (n + 1) /\ t[n + 1] = e
      /\ \A i \in 1 .. n : t[i] = stream[i]
      /\ DOMAIN stream = 1 .. n
  BY <1>1, <1>2, <1>3, <1>4
<1>6. Read(dialect, t) = Step(dialect, Read(dialect, stream), t[n + 1]) BY <1>3, <1>5, ReadStep
<1>7. ErrorSent(t) <=> ErrorSent(stream) \/ e.type = "error"
  <2>1. \A k \in 1 .. (n + 1) : k \in 1 .. n \/ k = n + 1 OBVIOUS
  <2>2. n + 1 \in 1 .. (n + 1) /\ \A k \in 1 .. n : k \in 1 .. (n + 1) OBVIOUS
  <2> QED BY <1>5, <2>1, <2>2, Zenon DEF ErrorSent
<1> QED BY <1>1, <1>4, <1>5, <1>6, <1>7

\* What an action that sends one event has to show.
LEMMA InvKept ==
  ASSUME CodecInv, NEW e, Sends(e), NEW q, q = Step(dialect, Read(dialect, stream), e),
         said' \in Seq(Symbols), calls' \in Seq(Heard), finish' \in Symbols,
         Tells(q, said', calls', finish'),
         q.failed <=> Read(dialect, stream).failed \/ e.type = "error",
         Placed(dialect, q, stream', calls')
  PROVE  CodecInv'
<1>1. /\ dialect' = dialect /\ stream' \in Seq(Range(stream')) /\ Read(dialect', stream') = q
      /\ ErrorSent(stream') <=> ErrorSent(stream) \/ e.type = "error"
  BY Received DEF CodecInv
<1> QED BY <1>1 DEF CodecInv

\* Blocks that were started stay started.
LEMMA StartsKept ==
  ASSUME NEW st, st \in Seq(Range(st)), NEW x, Starts(st, x), NEW e, ~TextStart(e), NEW t, t = Append(st, e)
  PROVE  Starts(t, x)
<1>1. PICK n \in Nat : n = Len(st) BY AppendAny
<1>2. /\ DOMAIN st = 1 .. n /\ DOMAIN t = 1 .. (n + 1) /\ t[n + 1] = e
      /\ \A i \in 1 .. n : t[i] = st[i]
  BY <1>1, AppendAny
<1>3. \A k \in 1 .. (n + 1) : k \in 1 .. n \/ k = n + 1 OBVIOUS
<1>4. \A k \in 1 .. n : k \in 1 .. (n + 1) OBVIOUS
<1>5. ASSUME NEW i \in DOMAIN t, TextStart(t[i])
      PROVE  t[i].index = i - 1 /\ x # <<>> /\ i - 1 <= x[Len(x)]
  <2>1. i \in 1 .. n /\ t[i] = st[i] BY <1>2, <1>3, <1>5
  <2> QED BY <1>2, <1>5, <2>1 DEF Starts
<1>6. ASSUME x # <<>> PROVE x[Len(x)] + 1 \in DOMAIN t /\ TextStart(t[x[Len(x)] + 1])
  <2>1. x[Len(x)] + 1 \in 1 .. n /\ TextStart(st[x[Len(x)] + 1]) BY <1>2, <1>6 DEF Starts
  <2> QED BY <1>2, <1>4, <2>1
<1> QED BY <1>5, <1>6 DEF Starts

\* Blocks stay where they were placed.
LEMMA PlacedKept ==
  ASSUME NEW p, NEW r, NEW q, Sound(r), SameBlocks(q, r), NEW st, st \in Seq(Range(st)), NEW cs, NEW ds,
         Placed(p, r, st, cs), NEW e, ~TextStart(e), NEW t, t = Append(st, e),
         DOMAIN ds = DOMAIN cs, \A k \in DOMAIN cs : ds[k].index = cs[k].index
  PROVE  Placed(p, q, t, ds)
<1>1. OfType(q, "text") = OfType(r, "text") /\ OfType(q, "tool") = OfType(r, "tool") BY SameBlocksTypes
<1>2. DOMAIN q.items = DOMAIN r.items /\ q.order = r.order BY DEF SameBlocks
<1>3. Len(st) \in Nat /\ Len(t) = Len(st) + 1 BY AppendAny
<1>4. ASSUME p \in Fragmented PROVE Numbered(q, ds) /\ \A i \in DOMAIN q.items : i < Len(t)
  <2>1. Numbered(r, cs) /\ \A i \in DOMAIN r.items : i < Len(st) BY <1>4 DEF Placed
  <2>2. DOMAIN r.items \subseteq Nat BY AccIs DEF Sound
  <2> QED BY <1>1, <1>2, <1>3, <2>1, <2>2 DEF Numbered
<1>5. ASSUME p = "anthropic" PROVE Starts(t, OfType(q, "text"))
  <2>1. Starts(st, OfType(r, "text")) BY <1>5 DEF Placed
  <2> QED BY <1>1, <2>1, StartsKept
<1> QED BY <1>1, <1>2, <1>4, <1>5 DEF Placed

\* A block of text is opened.
LEMMA OpensTextKeeps == ASSUME CodecInv, OpensText PROVE CodecInv'
<1>1. PICK r : r = Read(dialect, stream) OBVIOUS
<1>2. /\ dialect = "anthropic" /\ stream \in Seq(Range(stream))
      /\ Sound(r) /\ TellsText(r, said) /\ TellsCalls(r, calls) /\ r.finish = finish
      /\ Placed(dialect, r, stream, calls)
  BY <1>1 DEF CodecInv, Tells, OpensText
<1>3. PICK i \in Nat : i = Len(stream) BY <1>2, AppendAny
<1>4. PICK e : e = Block(i, "text", Unset) OBVIOUS
<1>5. /\ Sends(e) /\ said' = said /\ calls' = calls /\ finish' = finish
  BY <1>3, <1>4 DEF OpensText, NextIndex
<1>6. /\ e.type = "content_block_start" /\ e.index = i /\ e.block = "text" /\ e.name = Unset
  BY <1>4 DEF Block
<1>7. PICK q : q = Opened(r, i, "text", Unset) OBVIOUS
<1>8. q = Step(dialect, r, e) BY <1>2, <1>6, <1>7, StepIs DEF AnthropicStep
<1>9. /\ Numbered(r, calls) /\ Starts(stream, OfType(r, "text"))
      /\ \A j \in DOMAIN r.items : j < i
  BY <1>2, <1>3 DEF Placed, Fragmented
<1>10. i \notin DOMAIN r.items BY <1>3, <1>9
<1>11. Unset \in Symbols BY DEF Symbols
<1>12. /\ Sound(q) /\ q.finish = r.finish /\ q.failed = r.failed
       /\ DOMAIN q.items = {i} \cup DOMAIN r.items
       /\ OfType(q, "text") = Append(OfType(r, "text"), i) /\ OfType(q, "tool") = OfType(r, "tool")
  BY <1>2, <1>7, <1>10, <1>11, OpenedIs
<1>13. TellsText(q, said) /\ TellsCalls(q, calls) BY <1>2, <1>7, <1>10, TextOpened
<1>14. Tells(q, said', calls', finish') BY <1>2, <1>5, <1>12, <1>13 DEF Tells
<1>15. Placed(dialect, q, stream', calls')
  <2>1. PICK t : t = Append(stream, e) OBVIOUS
  <2>2. /\ DOMAIN stream = 1 .. i /\ Len(t) = i + 1 /\ DOMAIN t = 1 .. (i + 1) /\ t[i + 1] = e
        /\ \A k \in 1 .. i : t[k] = stream[k]
    BY <1>2, <1>3, <2>1, AppendAny
  <2>3. PICK x : x = OfType(r, "text") OBVIOUS
  <2>4. PICK z : z = OfType(q, "text") OBVIOUS
  <2>5. x \in Seq(Nat) BY <1>2, <2>3 DEF TellsText
  <2>6. z # <<>> /\ z[Len(z)] = i
    <3>1. z = Append(x, i) BY <1>12, <2>3, <2>4
    <3>2. Append(x, i) # <<>> /\ Len(Append(x, i)) = Len(x) + 1 /\ Append(x, i)[Len(x) + 1] = i
      BY <2>5, AppendProperties
    <3> QED BY <3>1, <3>2
  <2>7. \A k \in 1 .. (i + 1) : k \in 1 .. i \/ k = i + 1 OBVIOUS
  <2>8. ASSUME NEW k \in DOMAIN t, TextStart(t[k]) PROVE t[k].index = k - 1 /\ k - 1 <= i
    <3>1. CASE k \in 1 .. i
      <4>1. stream[k].index = k - 1 BY <1>9, <2>2, <2>8, <3>1 DEF Starts
      <4> QED BY <2>2, <3>1, <4>1
    <3>2. CASE k = i + 1 BY <1>6, <2>2, <3>2
    <3> QED BY <2>2, <2>7, <3>1, <3>2
  <2>9. i + 1 \in DOMAIN t /\ TextStart(t[i + 1]) BY <1>6, <2>2 DEF TextStart
  <2>10. Starts(t, z) BY <2>6, <2>8, <2>9 DEF Starts
  <2>11. Numbered(q, calls) BY <1>9, <1>12 DEF Numbered
  <2>12. \A j \in DOMAIN q.items : j < Len(t)
    <3>1. DOMAIN r.items \subseteq Nat BY <1>2, AccIs DEF Sound
    <3> QED BY <1>9, <1>12, <2>2, <3>1
  <2>13. stream' = t BY <1>5, <2>1 DEF Sends
  <2> QED BY <1>2, <1>5, <2>4, <2>10, <2>11, <2>12, <2>13 DEF Placed, Fragmented
<1>16. said' \in Seq(Symbols) /\ calls' \in Seq(Heard) /\ finish' \in Symbols BY <1>5 DEF CodecInv
<1>17. q.failed <=> Read(dialect, stream).failed \/ e.type = "error" BY <1>1, <1>6, <1>12
<1>18. q = Step(dialect, Read(dialect, stream), e) BY <1>1, <1>8
<1> QED BY <1>5, <1>14, <1>15, <1>16, <1>17, <1>18, InvKept

\* Symbols are numbers.
LEMMA LettersHold == Nat \subseteq Symbols
BY DEF Symbols

\* One letter more.
LEMMA SaidIs == \A s \in Seq(Symbols), c \in Symbols : s \o <<c>> = Append(s, c) /\ Append(s, c) \in Seq(Symbols)
BY AppendIsConcat, AppendProperties

\* One piece of text: what each decoder makes of the event that carries it.
LEMMA SaysStep ==
  ASSUME NEW r \in Accs, NEW c
  PROVE  /\ OpenAIChatStep(r, Chunk(c, <<>>, Unset)) = Spoken(r, c)
         /\ OpenAIResponsesStep(r, [type |-> "response.output_text.delta", text |-> c]) = Spoken(r, c)
         /\ GeminiStep(r, [type |-> "response", parts |-> <<[type |-> "thought"], [type |-> "text", text |-> c]>>,
                           finish |-> Unset]) = Spoken(r, c)
         /\ OllamaStep(r, [type |-> "line", text |-> c, calls |-> <<>>, finish |-> Unset]) = Spoken(r, c)
<1>1. OpenAIChatStep(r, Chunk(c, <<>>, Unset)) = Spoken(r, c)
  <2>1. OpenAIChatStep(r, Chunk(c, <<>>, Unset)) = Finished(Folded(ChatCall, Spoken(r, c), <<>>), Unset) BY ChatStepIs
  <2>2. Folded(ChatCall, Spoken(r, c), <<>>) = Spoken(r, c) BY NoChatCall
  <2> QED BY <2>1, <2>2, UnsetStep
<1>2. OpenAIResponsesStep(r, [type |-> "response.output_text.delta", text |-> c]) = Spoken(r, c)
  BY DEF OpenAIResponsesStep
<1>3. GeminiStep(r, [type |-> "response", parts |-> <<[type |-> "thought"], [type |-> "text", text |-> c]>>,
                     finish |-> Unset]) = Spoken(r, c)
  <2>1. PICK a : a = [type |-> "thought"] OBVIOUS
  <2>2. PICK b : b = [type |-> "text", text |-> c] OBVIOUS
  <2>3. PICK parts : parts = <<a, b>> OBVIOUS
  <2>4. PICK e : e = [type |-> "response", parts |-> parts, finish |-> Unset] OBVIOUS
  <2>5. GeminiStep(r, e) = Finished(Folded(Part, r, parts), Unset) BY <2>4, GeminiStepIs
  <2>6. Part(r, a) = r BY <2>1 DEF Part
  <2>7. Part(r, b) = Spoken(r, c) BY <2>2 DEF Part
  <2>8. Folded(Part, r, parts) = Spoken(r, c) BY <2>3, <2>6, <2>7, TwoParts
  <2>9. GeminiStep(r, e) = Spoken(r, c) BY <2>5, <2>8, UnsetStep
  <2> QED BY <2>1, <2>2, <2>3, <2>4, <2>9
<1>4. OllamaStep(r, [type |-> "line", text |-> c, calls |-> <<>>, finish |-> Unset]) = Spoken(r, c)
  <2>1. PICK e : e = [type |-> "line", text |-> c, calls |-> <<>>, finish |-> Unset] OBVIOUS
  <2>2. OllamaStep(r, e) = Finished(Folded(OllamaCall, Spoken(r, c), <<>>), Unset) BY <2>1, OllamaStepIs
  <2>3. Folded(OllamaCall, Spoken(r, c), <<>>) = Spoken(r, c) BY NoOllamaCall
  <2> QED BY <2>1, <2>2, <2>3, UnsetStep
<1> QED BY <1>1, <1>2, <1>3, <1>4

\* The final text block is the one the stream started final.
LEMMA LastBlock ==
  ASSUME NEW x, x \in Seq(Nat), Starts(stream, x), stream \in Seq(Range(stream)), LastTextBlock # 0
  PROVE  x # <<>> /\ stream[LastTextBlock].index = x[Len(x)] /\ LastTextBlock \in DOMAIN stream
<1> DEFINE starts == {i \in DOMAIN stream : stream[i].type = "content_block_start" /\ stream[i].block = "text"}
<1>1. PICK n \in Nat : DOMAIN stream = 1 .. n BY AppendAny
<1>2. \A i : i \in starts <=> i \in DOMAIN stream /\ TextStart(stream[i]) BY DEF TextStart
<1>3. LastTextBlock = IF starts = {} THEN 0 ELSE CHOOSE i \in starts : \A k \in starts : k <= i
  BY DEF LastTextBlock
<1> HIDE DEF starts
<1>4. PICK j : j \in starts BY <1>3
<1>5. x # <<>> BY <1>2, <1>4 DEF Starts
<1>6. PICK l : l = x[Len(x)] OBVIOUS
<1>7. l + 1 \in starts /\ l \in Nat
  <2>1. Len(x) \in Nat /\ Len(x) # 0 /\ DOMAIN x = 1 .. Len(x) BY <1>5, LenProperties, EmptySeq
  <2>2. l \in Nat BY <1>6, <2>1, ElementOfSeq
  <2> QED BY <1>2, <1>5, <1>6, <2>2 DEF Starts
<1>8. \A i \in starts : i \in 1 .. n /\ stream[i].index = i - 1 /\ i - 1 <= l BY <1>1, <1>2, <1>6 DEF Starts
<1>9. \A i \in starts : i <= l + 1 BY <1>7, <1>8
<1>10. \A i \in starts : (\A k \in starts : k <= i) => i = l + 1 BY <1>7, <1>8, <1>9
<1>11. LastTextBlock = l + 1 BY <1>3, <1>7, <1>9, <1>10
<1>12. stream[l + 1].index = (l + 1) - 1 BY <1>7, <1>8
<1> QED BY <1>2, <1>5, <1>6, <1>7, <1>11, <1>12

\* A letter is said.
LEMMA SaysKeeps == ASSUME CodecInv, Says PROVE CodecInv'
<1>1. PICK r : r = Read(dialect, stream) OBVIOUS
<1>2. /\ dialect \in Dialects /\ stream \in Seq(Range(stream)) /\ said \in Seq(Symbols) /\ calls \in Seq(Heard)
      /\ Sound(r) /\ TellsText(r, said) /\ TellsCalls(r, calls) /\ r.finish = finish
      /\ Placed(dialect, r, stream, calls) /\ r \in Accs
  BY <1>1 DEF CodecInv, Tells, Sound
<1>3. PICK c \in Nat : c = Len(said) + 1 BY <1>2, LenProperties
<1>4. PICK piece : piece = <<c>> OBVIOUS
<1>5. piece \in Seq(Symbols) /\ said \o piece = Append(said, c) /\ Append(said, c) \in Seq(Symbols) BY <1>2, <1>4, SaidIs, LettersHold
<1>l. PICK longer : longer = Glued(said, piece) OBVIOUS
<1>6. said' = longer /\ said' \in Seq(Symbols) /\ calls' = calls /\ finish' = finish /\ finish' \in Symbols
  BY <1>3, <1>5, <1>l DEF Says, CodecInv, Glued
<1>7. CASE dialect = "anthropic"
  <2>1. PICK x : x = OfType(r, "text") OBVIOUS
  <2>2. Starts(stream, x) /\ x \in Seq(Nat) BY <1>2, <1>7, <2>1 DEF Placed, TellsText
  <2>3. PICK e : e = [type |-> "text_delta", index |-> stream[LastTextBlock].index, text |-> piece] OBVIOUS
  <2>4. LastTextBlock # 0 /\ Sends(e) BY <1>3, <1>4, <1>7, <2>3 DEF Says
  <2>5. x # <<>> /\ e.index = x[Len(x)] BY <1>2, <2>2, <2>3, <2>4, LastBlock
  <2>6. PICK i : i = x[Len(x)] OBVIOUS
  <2>7. PICK q : q = TextTo(r, i, piece) OBVIOUS
  <2>8. q = Step(dialect, r, e) /\ e.type = "text_delta"
    <3>1. e.type = "text_delta" /\ e.index = i /\ e.text = piece BY <2>3, <2>5, <2>6
    <3>2. AnthropicStep(r, e) = TextTo(r, i, piece) BY <3>1 DEF AnthropicStep
    <3> QED BY <1>7, <2>7, <3>1, <3>2, StepIs
  <2>9. /\ Sound(q) /\ SameBlocks(q, r) /\ TellsText(q, longer) /\ TellsCalls(q, calls)
        /\ q.finish = r.finish /\ q.failed = r.failed
    BY <1>2, <1>5, <2>1, <2>5, <2>6, <2>7, <1>l, TextGrown
  <2>10. Tells(q, said', calls', finish') BY <1>2, <1>6, <2>9 DEF Tells
  <2>11. Placed(dialect, q, stream', calls')
    <3>1. stream' = Append(stream, e) /\ ~TextStart(e) BY <2>4, <2>8 DEF Sends, TextStart
    <3> QED BY <1>2, <1>6, <2>9, <3>1, PlacedKept
  <2>12. q.failed <=> Read(dialect, stream).failed \/ e.type = "error" BY <1>1, <2>8, <2>9
  <2> QED BY <1>1, <1>2, <1>6, <2>4, <2>8, <2>10, <2>11, <2>12, InvKept
<1>8. CASE dialect # "anthropic"
  <2>1. PICK q : q = Spoken(r, piece) OBVIOUS
  <2>2. PICK e : Sends(e) /\ e.type \notin {"error", "content_block_start"} /\ q = Step(dialect, r, e)
    <3>1. CASE dialect = "openai-chat"
      <4>1. Sends(Chunk(piece, <<>>, Unset)) BY <1>3, <1>4, <3>1 DEF Says
      <4>2. Step(dialect, r, Chunk(piece, <<>>, Unset)) = q BY <1>2, <2>1, <3>1, SaysStep, StepIs
      <4>3. Chunk(piece, <<>>, Unset).type = "chunk" BY DEF Chunk
      <4> QED BY <4>1, <4>2, <4>3
    <3>2. CASE dialect = "openai-responses"
      <4>1. PICK e : e = [type |-> "response.output_text.delta", text |-> piece] OBVIOUS
      <4>2. Sends(e) BY <1>3, <1>4, <3>2, <4>1 DEF Says
      <4>3. Step(dialect, r, e) = q BY <1>2, <2>1, <3>2, <4>1, SaysStep, StepIs
      <4>4. e.type = "response.output_text.delta" BY <4>1
      <4> QED BY <4>2, <4>3, <4>4
    <3>3. CASE dialect = "gemini"
      <4>1. PICK e : e = [type |-> "response", parts |-> <<[type |-> "thought"], [type |-> "text", text |-> piece]>>,
                          finish |-> Unset]
        OBVIOUS
      <4>2. Sends(e) BY <1>3, <1>4, <3>3, <4>1 DEF Says
      <4>3. Step(dialect, r, e) = q BY <1>2, <2>1, <3>3, <4>1, SaysStep, StepIs
      <4>4. e.type = "response" BY <4>1
      <4> QED BY <4>2, <4>3, <4>4
    <3>4. CASE dialect = "ollama"
      <4>1. PICK e : e = [type |-> "line", text |-> piece, calls |-> <<>>, finish |-> Unset] OBVIOUS
      <4>2. Sends(e) BY <1>3, <1>4, <3>4, <4>1 DEF Says
      <4>3. Step(dialect, r, e) = q BY <1>2, <2>1, <3>4, <4>1, SaysStep, StepIs
      <4>4. e.type = "line" BY <4>1
      <4> QED BY <4>2, <4>3, <4>4
    <3> QED BY <1>2, <1>8, <3>1, <3>2, <3>3, <3>4 DEF Dialects
  <2>3. OfType(r, "text") = <<>> BY <1>2, <1>8 DEF Placed
  <2>4. /\ Sound(q) /\ TellsText(q, longer) /\ TellsCalls(q, calls) /\ SameBlocks(q, r)
        /\ q.finish = r.finish /\ q.failed = r.failed
    BY <1>2, <1>5, <2>1, <2>3, <1>l, SpokenTells
  <2>5. Tells(q, said', calls', finish') BY <1>2, <1>6, <2>4 DEF Tells
  <2>6. Placed(dialect, q, stream', calls')
    <3>1. stream' = Append(stream, e) /\ ~TextStart(e) BY <2>2 DEF Sends, TextStart
    <3> QED BY <1>2, <1>6, <2>4, <3>1, PlacedKept
  <2>7. q.failed <=> Read(dialect, stream).failed \/ e.type = "error" BY <1>1, <2>2, <2>4
  <2> QED BY <1>1, <1>2, <1>6, <2>2, <2>5, <2>6, <2>7, InvKept
<1> QED BY <1>7, <1>8

\* No argument changes nothing.
LEMMA ArgsNothing ==
  ASSUME NEW s \in Accs, NEW i \in DOMAIN s.items, NEW none, none = <<>>
  PROVE  ArgsTo(s, i, none) = s
<1>1. /\ s = [items |-> s.items, order |-> s.order, text |-> s.text, finish |-> s.finish, failed |-> s.failed]
      /\ s.items \in [DOMAIN s.items -> Pieces]
  BY AccIs
<1>2. s.items[i] \in Pieces BY <1>1
<1>3. s.items[i].args \o none = s.items[i].args BY <1>2, ConcatEmptySeq DEF Pieces
<1>4. ArgsTo(s, i, none) = [s EXCEPT !.items[i].args = s.items[i].args] BY <1>3 DEF ArgsTo
<1>5. [s.items[i] EXCEPT !.args = s.items[i].args] = s.items[i] BY <1>2 DEF Pieces
<1>6. [s.items EXCEPT ![i] = s.items[i]] = s.items BY <1>1
<1>7. [s EXCEPT !.items[i].args = s.items[i].args]
        = [s EXCEPT !.items = [s.items EXCEPT ![i] = [s.items[i] EXCEPT !.args = s.items[i].args]]]
  OBVIOUS
<1>8. [s EXCEPT !.items = s.items] = s BY <1>1
<1> QED BY <1>4, <1>5, <1>6, <1>7, <1>8

\* A block that was just opened.
NewBlock(type, name) == [type |-> type, name |-> name, text |-> <<>>, args |-> <<>>]

\* Blocks, and one more.
With(items, i, new) == [k \in {i} \cup DOMAIN items |-> IF k = i THEN new ELSE items[k]]

\* The accumulator with other blocks.
Rebuilt(r, items, order) ==
  [items |-> items, order |-> order, text |-> r.text, finish |-> r.finish, failed |-> r.failed]

\* A block that is opened, field by field.
LEMMA OpenedRecord ==
  ASSUME NEW r \in Accs, NEW i, NEW type, NEW name
  PROVE  Opened(r, i, type, name) = Rebuilt(r, With(r.items, i, NewBlock(type, name)), Append(r.order, i))
<1>1. r = [items |-> r.items, order |-> r.order, text |-> r.text, finish |-> r.finish, failed |-> r.failed]
  BY AccIs
<1>2. Opened(r, i, type, name)
        = [r EXCEPT !.items = With(r.items, i, NewBlock(type, name)), !.order = Append(r.order, i)]
  BY DEF Opened, With, NewBlock
<1>3. PICK items : items = With(r.items, i, NewBlock(type, name)) OBVIOUS
<1>4. PICK order : order = Append(r.order, i) OBVIOUS
<1>5. PICK q : q = [r EXCEPT !.items = items, !.order = order] OBVIOUS
<1>6. q = [items |-> items, order |-> order, text |-> r.text, finish |-> r.finish, failed |-> r.failed]
  BY <1>1, <1>5
<1> QED BY <1>2, <1>3, <1>4, <1>5, <1>6 DEF Rebuilt

\* A block that is opened and then named.
LEMMA NamedOpened ==
  ASSUME NEW r \in Accs, NEW i, NEW name, name # Unset, NEW s, s = Opened(r, i, "tool", Unset)
  PROVE  Named(s, i, name) = Opened(r, i, "tool", name)
<1>1. PICK old : old = NewBlock("tool", Unset) OBVIOUS
<1>2. PICK new : new = NewBlock("tool", name) OBVIOUS
<1>3. PICK olds : olds = With(r.items, i, old) OBVIOUS
<1>4. PICK news : news = With(r.items, i, new) OBVIOUS
<1>5. PICK order : order = Append(r.order, i) OBVIOUS
<1>6. s = Rebuilt(r, olds, order) BY <1>1, <1>3, <1>5, OpenedRecord
<1>7. Opened(r, i, "tool", name) = Rebuilt(r, news, order) BY <1>2, <1>4, <1>5, OpenedRecord
<1>8. Named(s, i, name) = [s EXCEPT !.items[i].name = name] BY DEF Named
<1>9. [s EXCEPT !.items[i].name = name] = [s EXCEPT !.items = [s.items EXCEPT ![i] = [s.items[i] EXCEPT !.name = name]]]
  OBVIOUS
<1>10. s.items = olds /\ olds[i] = old BY <1>3, <1>6 DEF With, Rebuilt
<1>11. [old EXCEPT !.name = name] = new BY <1>1, <1>2 DEF NewBlock
<1>12. [olds EXCEPT ![i] = new] = news BY <1>3, <1>4 DEF With
<1>13. [s EXCEPT !.items = news] = Rebuilt(r, news, order) BY <1>6 DEF Rebuilt
<1> QED BY <1>7, <1>8, <1>9, <1>10, <1>11, <1>12, <1>13

\* What the decoders with fragments make of the event that opens a call.
LEMMA OpensCallStep ==
  ASSUME NEW r, Sound(r), NEW i \in Nat, i \notin DOMAIN r.items, NEW name \in Symbols,
         NEW q, q = Opened(r, i, "tool", name)
  PROVE  /\ AnthropicStep(r, Block(i, "tool", name)) = q
         /\ OpenAIChatStep(r, Chunk(<<>>, <<[index |-> i, name |-> name, args |-> <<>>]>>, Unset)) = q
         /\ OpenAIResponsesStep(r, [type |-> "response.output_item.added", index |-> i,
                                    item |-> "function_call", name |-> name]) = q
<1>0. r \in Accs BY DEF Sound
<1>1. AnthropicStep(r, Block(i, "tool", name)) = q BY DEF AnthropicStep, Block
<1>2. OpenAIResponsesStep(r, [type |-> "response.output_item.added", index |-> i,
                              item |-> "function_call", name |-> name]) = q
  BY DEF OpenAIResponsesStep
<1>3. OpenAIChatStep(r, Chunk(<<>>, <<[index |-> i, name |-> name, args |-> <<>>]>>, Unset)) = q
  <2>1. PICK none : none = <<>> OBVIOUS
  <2>2. PICK c : c = [index |-> i, name |-> name, args |-> none] OBVIOUS
  <2>3. PICK cs : cs = <<c>> OBVIOUS
  <2>4. OpenAIChatStep(r, Chunk(none, cs, Unset)) = Finished(Folded(ChatCall, Spoken(r, none), cs), Unset)
    BY <1>0, ChatStepIs
  <2>5. Spoken(r, none) = r BY <1>0, <2>1, SpokenNothing
  <2>6. Folded(ChatCall, r, cs) = ChatCall(r, c) BY <2>3, OneChatCall
  <2>7. PICK s : s = Opened(r, i, "tool", Unset) OBVIOUS
  <2>8. ChatCall(r, c) = ArgsTo(Named(s, i, name), i, none) BY <2>2, <2>7 DEF ChatCall
  <2>9. Named(s, i, name) = q
    <3>1. CASE name = Unset BY <2>7, <3>1 DEF Named
    <3>2. CASE name # Unset BY <1>0, <2>7, <3>2, NamedOpened
    <3> QED BY <3>1, <3>2
  <2>10. q \in Accs /\ i \in DOMAIN q.items BY OpenedIs DEF Sound
  <2>11. ArgsTo(q, i, none) = q BY <2>1, <2>10, ArgsNothing
  <2>12. OpenAIChatStep(r, Chunk(none, cs, Unset)) = q BY <2>4, <2>5, <2>6, <2>8, <2>9, <2>11, UnsetStep
  <2> QED BY <2>1, <2>2, <2>3, <2>12
<1> QED BY <1>1, <1>2, <1>3

\* A call is opened.
LEMMA OpensCallKeeps == ASSUME CodecInv, NEW name \in Callable, OpensCall(name) PROVE CodecInv'
<1>1. PICK r : r = Read(dialect, stream) OBVIOUS
<1>2. /\ dialect \in Fragmented /\ stream \in Seq(Range(stream)) /\ calls \in Seq(Heard)
      /\ Sound(r) /\ TellsText(r, said) /\ TellsCalls(r, calls) /\ r.finish = finish
      /\ Placed(dialect, r, stream, calls)
  BY <1>1 DEF CodecInv, Tells, OpensCall
<1>3. PICK i \in Nat : i = Len(stream) BY <1>2, AppendAny
<1>4. /\ Numbered(r, calls) /\ \A j \in DOMAIN r.items : j < i
      /\ dialect = "anthropic" => Starts(stream, OfType(r, "text"))
      /\ dialect # "anthropic" => OfType(r, "text") = <<>>
  BY <1>2, <1>3 DEF Placed
<1>5. i \notin DOMAIN r.items BY <1>3, <1>4
<1>6. name \in Symbols \ {Unset} /\ name \in Symbols
  <2>1. PICK k \in DOMAIN Tools : name = Tools[k] BY DEF Callable
  <2> QED BY <2>1, CodecAssumption DEF Symbols
<1>7. PICK q : q = Opened(r, i, "tool", name) OBVIOUS
<1>8. PICK e : /\ Sends(e) /\ q = Step(dialect, r, e) /\ e.type # "error" /\ ~TextStart(e)
  <2>1. CASE dialect = "anthropic"
    <3>1. PICK e : e = Block(i, "tool", name) OBVIOUS
    <3>2. Sends(e) BY <1>3, <2>1, <3>1 DEF OpensCall, NextIndex
    <3>3. q = AnthropicStep(r, e) BY <1>2, <1>3, <1>5, <1>6, <1>7, <3>1, OpensCallStep
    <3>4. e.type = "content_block_start" /\ e.block = "tool" BY <3>1 DEF Block
    <3>5. ~TextStart(e) BY <3>4 DEF TextStart
    <3> QED BY <2>1, <3>2, <3>3, <3>4, <3>5, StepIs
  <2>2. CASE dialect = "openai-chat"
    <3>1. PICK e : e = Chunk(<<>>, <<[index |-> i, name |-> name, args |-> <<>>]>>, Unset) OBVIOUS
    <3>2. Sends(e) BY <1>3, <2>2, <3>1 DEF OpensCall, NextIndex
    <3>3. q = OpenAIChatStep(r, e) BY <1>2, <1>3, <1>5, <1>6, <1>7, <3>1, OpensCallStep
    <3>4. e.type = "chunk" BY <3>1 DEF Chunk
    <3>5. ~TextStart(e) BY <3>4 DEF TextStart
    <3> QED BY <2>2, <3>2, <3>3, <3>4, <3>5, StepIs
  <2>3. CASE dialect = "openai-responses"
    <3>1. PICK e : e = [type |-> "response.output_item.added", index |-> i, item |-> "function_call", name |-> name]
      OBVIOUS
    <3>2. Sends(e) BY <1>3, <2>3, <3>1 DEF OpensCall, NextIndex
    <3>3. q = OpenAIResponsesStep(r, e) BY <1>2, <1>3, <1>5, <1>6, <1>7, <3>1, OpensCallStep
    <3>4. e.type = "response.output_item.added" BY <3>1
    <3>5. ~TextStart(e) BY <3>4 DEF TextStart
    <3> QED BY <2>3, <3>2, <3>3, <3>4, <3>5, StepIs
  <2> QED BY <1>2, <2>1, <2>2, <2>3 DEF Fragmented
<1>9. /\ Sound(q) /\ q.finish = r.finish /\ q.failed = r.failed
      /\ DOMAIN q.items = {i} \cup DOMAIN r.items
      /\ OfType(q, "tool") = Append(OfType(r, "tool"), i) /\ OfType(q, "text") = OfType(r, "text")
  BY <1>2, <1>5, <1>6, <1>7, OpenedIs
<1>10. PICK call : call = [index |-> i, name |-> name, args |-> <<>>] OBVIOUS
<1>11. call \in Heard /\ call.index = i /\ call.name = name /\ call.args = <<>> BY <1>6, <1>10 DEF Heard
<1>12. calls' = Append(calls, call) /\ said' = said /\ finish' = finish BY <1>3, <1>10 DEF OpensCall, NextIndex
<1>13. TellsText(q, said) /\ TellsCalls(q, Append(calls, call)) BY <1>2, <1>5, <1>6, <1>7, <1>11, CallOpened
<1>14. Tells(q, said', calls', finish') BY <1>2, <1>9, <1>12, <1>13 DEF Tells
<1>15. calls' \in Seq(Heard) /\ said' \in Seq(Symbols) /\ finish' \in Symbols BY <1>2, <1>11, <1>12, AppendProperties DEF CodecInv
<1>16. Placed(dialect, q, stream', calls')
  <2>1. PICK t : t = Append(stream, e) OBVIOUS
  <2>2. Len(t) = i + 1 BY <1>2, <1>3, <2>1, AppendAny
  <2>3. stream' = t BY <1>8, <2>1 DEF Sends
  <2>4. PICK y : y = OfType(r, "tool") OBVIOUS
  <2>5. y \in Seq(Nat) /\ DOMAIN calls = DOMAIN y BY <1>2, <2>4 DEF TellsCalls
  <2>6. PICK n \in Nat : n = Len(y) /\ DOMAIN y = 1 .. n BY <2>5, LenProperties
  <2>7. Len(calls) = n BY <1>2, <2>5, <2>6, LenProperties
  <2>8. PICK z : z = Append(y, i) OBVIOUS
  <2>9. PICK ds : ds = Append(calls, call) OBVIOUS
  <2>10. z[n + 1] = i /\ \A k \in 1 .. n : z[k] = y[k] BY <1>3, <2>5, <2>6, <2>8, AppendProperties
  <2>11. /\ DOMAIN ds = 1 .. (n + 1) /\ ds[n + 1] = call /\ \A k \in 1 .. n : ds[k] = calls[k]
    <3>1. ds \in Seq(Heard) /\ Len(ds) = n + 1 BY <1>2, <1>11, <2>7, <2>9, AppendProperties
    <3>2. ds[n + 1] = call /\ \A k \in 1 .. n : ds[k] = calls[k] BY <1>2, <1>11, <2>7, <2>9, AppendProperties
    <3> QED BY <3>1, <3>2, LenProperties
  <2>12. \A k \in 1 .. (n + 1) : k \in 1 .. n \/ k = n + 1 OBVIOUS
  <2>13. \A k \in 1 .. n : y[k] = calls[k].index BY <1>4, <2>4, <2>5, <2>6 DEF Numbered
  <2>14. \A k \in DOMAIN ds : z[k] = ds[k].index BY <1>11, <2>10, <2>11, <2>12, <2>13
  <2>15. Numbered(q, ds) BY <1>9, <2>4, <2>8, <2>14 DEF Numbered
  <2>16. \A j \in DOMAIN q.items : j < Len(t)
    <3>1. DOMAIN r.items \subseteq Nat BY <1>2, AccIs DEF Sound
    <3> QED BY <1>3, <1>4, <1>9, <2>2, <3>1
  <2>17. dialect = "anthropic" => Starts(t, OfType(q, "text")) BY <1>2, <1>4, <1>8, <1>9, <2>1, StartsKept
  <2> QED BY <1>2, <1>4, <1>9, <1>12, <2>3, <2>9, <2>15, <2>16, <2>17 DEF Placed
<1>17. q.failed <=> Read(dialect, stream).failed \/ e.type = "error" BY <1>1, <1>8, <1>9
<1>18. q = Step(dialect, Read(dialect, stream), e) BY <1>1, <1>8
<1> QED BY <1>8, <1>14, <1>15, <1>16, <1>17, <1>18, InvKept

\* What the decoders with fragments make of the event that carries one.
LEMMA ArguesStep ==
  ASSUME NEW r \in Accs, NEW i \in DOMAIN r.items, NEW args, NEW q, q = ArgsTo(r, i, args)
  PROVE  /\ AnthropicStep(r, [type |-> "input_json_delta", index |-> i, args |-> args]) = q
         /\ OpenAIChatStep(r, Chunk(<<>>, <<[index |-> i, name |-> Unset, args |-> args]>>, Unset)) = q
         /\ OpenAIResponsesStep(r, [type |-> "response.function_call_arguments.delta", index |-> i,
                                    args |-> args]) = q
<1>1. AnthropicStep(r, [type |-> "input_json_delta", index |-> i, args |-> args]) = q BY DEF AnthropicStep
<1>2. OpenAIResponsesStep(r, [type |-> "response.function_call_arguments.delta", index |-> i, args |-> args]) = q
  BY DEF OpenAIResponsesStep
<1>3. OpenAIChatStep(r, Chunk(<<>>, <<[index |-> i, name |-> Unset, args |-> args]>>, Unset)) = q
  <2>1. PICK none : none = <<>> OBVIOUS
  <2>2. PICK c : c = [index |-> i, name |-> Unset, args |-> args] OBVIOUS
  <2>3. PICK cs : cs = <<c>> OBVIOUS
  <2>4. OpenAIChatStep(r, Chunk(none, cs, Unset)) = Finished(Folded(ChatCall, Spoken(r, none), cs), Unset)
    BY ChatStepIs
  <2>5. Spoken(r, none) = r BY <2>1, SpokenNothing
  <2>6. Folded(ChatCall, r, cs) = ChatCall(r, c) BY <2>3, OneChatCall
  <2>7. ChatCall(r, c) = q BY <2>2 DEF ChatCall, Named
  <2>8. OpenAIChatStep(r, Chunk(none, cs, Unset)) = q BY <2>4, <2>5, <2>6, <2>7, UnsetStep
  <2> QED BY <2>1, <2>2, <2>3, <2>8
<1> QED BY <1>1, <1>2, <1>3

\* A fragment of the arguments of a call.
LEMMA ArguesKeeps == ASSUME CodecInv, NEW k \in DOMAIN calls, NEW f \in Fragments, Argues(k, f) PROVE CodecInv'
<1>1. PICK r : r = Read(dialect, stream) OBVIOUS
<1>2. /\ dialect \in Fragmented /\ stream \in Seq(Range(stream)) /\ calls \in Seq(Heard)
      /\ Sound(r) /\ TellsText(r, said) /\ TellsCalls(r, calls) /\ r.finish = finish
      /\ Placed(dialect, r, stream, calls) /\ r \in Accs
  BY <1>1 DEF CodecInv, Tells, Argues, Sound
<1>3. PICK y : y = OfType(r, "tool") OBVIOUS
<1>4. /\ DOMAIN calls = DOMAIN y /\ k \in DOMAIN y /\ y[k] \in DOMAIN r.items BY <1>2, <1>3 DEF TellsCalls
<1>5. PICK i : i = y[k] OBVIOUS
<1>6. calls[k].index = i BY <1>2, <1>3, <1>5 DEF Placed, Numbered
<1>7. PICK piece : piece = <<f>> OBVIOUS
<1>8. f \in Symbols /\ piece \in Seq(Symbols) BY <1>7 DEF Symbols
<1>9. PICK q : q = ArgsTo(r, i, piece) OBVIOUS
<1>10. PICK e : /\ Sends(e) /\ q = Step(dialect, r, e) /\ e.type \notin {"error", "content_block_start"}
  <2>1. CASE dialect = "anthropic"
    <3>1. PICK e : e = [type |-> "input_json_delta", index |-> i, args |-> piece] OBVIOUS
    <3>2. Sends(e) BY <1>6, <1>7, <2>1, <3>1 DEF Argues
    <3>3. q = AnthropicStep(r, e) BY <1>2, <1>4, <1>5, <1>9, <3>1, ArguesStep
    <3>4. e.type = "input_json_delta" BY <3>1
    <3> QED BY <2>1, <3>2, <3>3, <3>4, StepIs
  <2>2. CASE dialect = "openai-chat"
    <3>1. PICK e : e = Chunk(<<>>, <<[index |-> i, name |-> Unset, args |-> piece]>>, Unset) OBVIOUS
    <3>2. Sends(e) BY <1>6, <1>7, <2>2, <3>1 DEF Argues
    <3>3. q = OpenAIChatStep(r, e) BY <1>2, <1>4, <1>5, <1>9, <3>1, ArguesStep
    <3>4. e.type = "chunk" BY <3>1 DEF Chunk
    <3> QED BY <2>2, <3>2, <3>3, <3>4, StepIs
  <2>3. CASE dialect = "openai-responses"
    <3>1. PICK e : e = [type |-> "response.function_call_arguments.delta", index |-> i, args |-> piece] OBVIOUS
    <3>2. Sends(e) BY <1>6, <1>7, <2>3, <3>1 DEF Argues
    <3>3. q = OpenAIResponsesStep(r, e) BY <1>2, <1>4, <1>5, <1>9, <3>1, ArguesStep
    <3>4. e.type = "response.function_call_arguments.delta" BY <3>1
    <3> QED BY <2>3, <3>2, <3>3, <3>4, StepIs
  <2> QED BY <1>2, <2>1, <2>2, <2>3 DEF Fragmented
<1>11. calls[k] \in Heard BY <1>2, ElementOfSeq, LenProperties
<1>12. PICK longer : longer = Append(calls[k].args, f) OBVIOUS
<1>13. longer \in Seq(Symbols) /\ longer = calls[k].args \o piece
  <2>1. calls[k].args \in Seq(Symbols) BY <1>11 DEF Heard
  <2> QED BY <1>7, <1>8, <1>12, <2>1, AppendProperties, AppendIsConcat
<1>14. PICK call : call = [calls[k] EXCEPT !.args = longer] OBVIOUS
<1>15. /\ call \in Heard /\ call.index = calls[k].index /\ call.name = calls[k].name /\ call.args = longer
  BY <1>11, <1>13, <1>14 DEF Heard
<1>16. PICK ds : ds = [calls EXCEPT ![k] = call] OBVIOUS
<1>17. calls' = ds /\ said' = said /\ finish' = finish
  <2>1. calls' = [calls EXCEPT ![k].args = longer] /\ said' = said /\ finish' = finish BY <1>12 DEF Argues
  <2>2. [calls EXCEPT ![k].args = longer] = [calls EXCEPT ![k] = [calls[k] EXCEPT !.args = longer]] OBVIOUS
  <2> QED BY <1>14, <1>16, <2>1, <2>2
<1>18. /\ ds \in Seq(Heard) /\ DOMAIN ds = DOMAIN calls /\ ds[k] = call
       /\ \A j \in DOMAIN calls \ {k} : ds[j] = calls[j]
  <2>1. PICK n \in Nat : n = Len(calls) /\ DOMAIN calls = 1 .. n BY <1>2, LenProperties
  <2>2. calls \in [1 .. n -> Heard] BY <1>2, <2>1, LenProperties
  <2>3. ds \in [1 .. n -> Heard] /\ ds[k] = call /\ \A j \in 1 .. n \ {k} : ds[j] = calls[j]
    BY <1>15, <1>16, <2>1, <2>2
  <2>4. ds \in Seq(Heard) BY <2>3, SeqDef
  <2> QED BY <2>1, <2>3, <2>4
<1>19. OtherwiseSame(ds, calls, k) BY <1>18 DEF OtherwiseSame
<1>20. ds[k].name = calls[k].name /\ ds[k].args = Glued(calls[k].args, piece) BY <1>13, <1>15, <1>18 DEF Glued
<1>21. /\ Sound(q) /\ SameBlocks(q, r) /\ TellsText(q, said) /\ TellsCalls(q, ds)
       /\ q.finish = r.finish /\ q.failed = r.failed
  <2>1. Sound(r) /\ TellsText(r, said) /\ TellsCalls(r, calls) BY <1>2
  <2> QED BY <2>1, <1>3, <1>4, <1>5, <1>8, <1>9, <1>19, <1>20, ArgsTold
<1>22. Tells(q, said', calls', finish') BY <1>2, <1>17, <1>21 DEF Tells
<1>23. calls' \in Seq(Heard) /\ said' \in Seq(Symbols) /\ finish' \in Symbols BY <1>17, <1>18 DEF CodecInv
<1>24. Placed(dialect, q, stream', calls')
  <2>1. stream' = Append(stream, e) /\ ~TextStart(e) BY <1>10 DEF Sends, TextStart
  <2>2. \A j \in DOMAIN calls : ds[j].index = calls[j].index BY <1>15, <1>18
  <2> QED BY <1>2, <1>17, <1>18, <1>21, <2>1, <2>2, PlacedKept
<1>25. q.failed <=> Read(dialect, stream).failed \/ e.type = "error" BY <1>1, <1>10, <1>21
<1>26. q = Step(dialect, Read(dialect, stream), e) BY <1>1, <1>10
<1> QED BY <1>10, <1>22, <1>23, <1>24, <1>25, <1>26, InvKept

\* The documents are arguments, and so is the empty text.
LEMMA DocumentFragments == ASSUME NEW args \in DOMAIN Canon \cup {<<>>} PROVE args \in Seq(Symbols)
<1>1. CASE args = <<>> BY <1>1
<1>2. CASE args \in DOMAIN Canon
  <2>1. args \in Seq(Words) BY <1>2, CanonAssumption
  <2>2. Words \subseteq Symbols BY DEF Symbols
  <2> QED BY <2>1, <2>2, SeqMonotonic
<1> QED BY <1>1, <1>2

\* What the other decoders make of the event that carries a whole call.
LEMMA CallsStep ==
  ASSUME NEW r \in Accs, NEW name, NEW args, NEW q, q = Called(r, name, args)
  PROVE  /\ GeminiStep(r, [type |-> "response", parts |-> <<[type |-> "call", name |-> name, args |-> args]>>,
                           finish |-> Unset]) = q
         /\ OllamaStep(r, [type |-> "line", text |-> <<>>, calls |-> <<[name |-> name, args |-> args]>>,
                           finish |-> Unset]) = q
<1>1. GeminiStep(r, [type |-> "response", parts |-> <<[type |-> "call", name |-> name, args |-> args]>>,
                     finish |-> Unset]) = q
  <2>1. PICK c : c = [type |-> "call", name |-> name, args |-> args] OBVIOUS
  <2>2. PICK parts : parts = <<c>> OBVIOUS
  <2>3. PICK e : e = [type |-> "response", parts |-> parts, finish |-> Unset] OBVIOUS
  <2>4. GeminiStep(r, e) = Finished(Folded(Part, r, parts), Unset) BY <2>3, GeminiStepIs
  <2>5. Folded(Part, r, parts) = Part(r, c) BY <2>2, OnePart
  <2>6. Part(r, c) = q BY <2>1 DEF Part
  <2>7. GeminiStep(r, e) = q BY <2>4, <2>5, <2>6, UnsetStep
  <2> QED BY <2>1, <2>2, <2>3, <2>7
<1>2. OllamaStep(r, [type |-> "line", text |-> <<>>, calls |-> <<[name |-> name, args |-> args]>>,
                     finish |-> Unset]) = q
  <2>1. PICK none : none = <<>> OBVIOUS
  <2>2. PICK c : c = [name |-> name, args |-> args] OBVIOUS
  <2>3. PICK cs : cs = <<c>> OBVIOUS
  <2>4. PICK e : e = [type |-> "line", text |-> none, calls |-> cs, finish |-> Unset] OBVIOUS
  <2>5. OllamaStep(r, e) = Finished(Folded(OllamaCall, Spoken(r, none), cs), Unset) BY <2>4, OllamaStepIs
  <2>6. Spoken(r, none) = r BY <2>1, SpokenNothing
  <2>7. Folded(OllamaCall, r, cs) = OllamaCall(r, c) BY <2>3, OneOllamaCall
  <2>8. OllamaCall(r, c) = q BY <2>2 DEF OllamaCall
  <2>9. OllamaStep(r, e) = q BY <2>5, <2>6, <2>7, <2>8, UnsetStep
  <2> QED BY <2>1, <2>2, <2>3, <2>4, <2>9
<1> QED BY <1>1, <1>2

\* A call arrives whole.
LEMMA CallsKeeps ==
  ASSUME CodecInv, NEW name \in Callable, NEW args \in DOMAIN Canon \cup {<<>>}, CallsWhole(name, args)
  PROVE  CodecInv'
<1>1. PICK r : r = Read(dialect, stream) OBVIOUS
<1>2. /\ dialect \in Dialects /\ dialect \notin Fragmented /\ dialect # "anthropic"
      /\ stream \in Seq(Range(stream)) /\ calls \in Seq(Heard)
      /\ Sound(r) /\ TellsText(r, said) /\ TellsCalls(r, calls) /\ r.finish = finish
      /\ Placed(dialect, r, stream, calls) /\ r \in Accs
  BY <1>1 DEF CodecInv, Tells, CallsWhole, Sound, Fragmented
<1>3. PICK i \in Nat : i = Len(stream) BY <1>2, AppendAny
<1>4. DOMAIN r.items = 1 .. Len(r.order) /\ OfType(r, "text") = <<>> BY <1>2 DEF Placed
<1>5. name \in Symbols \ {Unset} /\ name \in Symbols
  <2>1. PICK k \in DOMAIN Tools : name = Tools[k] BY DEF Callable
  <2> QED BY <2>1, CodecAssumption DEF Symbols
<1>6. args \in Seq(Symbols) BY DocumentFragments
<1>7. PICK q : q = Called(r, name, args) OBVIOUS
<1>8. PICK e : /\ Sends(e) /\ q = Step(dialect, r, e) /\ e.type \notin {"error", "content_block_start"}
  <2>1. CASE dialect = "gemini"
    <3>1. PICK e : e = [type |-> "response", parts |-> <<[type |-> "call", name |-> name, args |-> args]>>,
                        finish |-> Unset]
      OBVIOUS
    <3>2. Sends(e) BY <2>1, <3>1 DEF CallsWhole
    <3>3. q = GeminiStep(r, e) BY <1>2, <1>7, <3>1, CallsStep
    <3>4. e.type = "response" BY <3>1
    <3> QED BY <2>1, <3>2, <3>3, <3>4, StepIs
  <2>2. CASE dialect = "ollama"
    <3>1. PICK e : e = [type |-> "line", text |-> <<>>, calls |-> <<[name |-> name, args |-> args]>>,
                        finish |-> Unset]
      OBVIOUS
    <3>2. Sends(e) BY <2>2, <3>1 DEF CallsWhole
    <3>3. q = OllamaStep(r, e) BY <1>2, <1>7, <3>1, CallsStep
    <3>4. e.type = "line" BY <3>1
    <3> QED BY <2>2, <3>2, <3>3, <3>4, StepIs
  <2> QED BY <1>2, <2>1, <2>2 DEF Dialects, Fragmented
<1>9. PICK blank : blank = [index |-> i, name |-> name, args |-> <<>>] OBVIOUS
<1>10. PICK call : call = [index |-> i, name |-> name, args |-> args] OBVIOUS
<1>11. blank \in Heard /\ blank.name = name /\ blank.args = <<>> BY <1>5, <1>9 DEF Heard
<1>12. call \in Heard /\ call.name = name /\ call.args = args BY <1>5, <1>6, <1>10 DEF Heard
<1>13. calls' = Append(calls, call) /\ said' = said /\ finish' = finish BY <1>3, <1>10 DEF CallsWhole, NextIndex
<1>14. /\ Sound(q) /\ TellsText(q, said) /\ TellsCalls(q, Append(calls, call))
       /\ q.finish = r.finish /\ q.failed = r.failed
       /\ DOMAIN q.items = 1 .. Len(q.order) /\ OfType(q, "text") = OfType(r, "text")
  <2>1. Sound(r) /\ TellsText(r, said) /\ TellsCalls(r, calls) BY <1>2
  <2> QED BY <2>1, <1>2, <1>4, <1>5, <1>6, <1>7, <1>11, <1>12, CalledIs
<1>15. Tells(q, said', calls', finish') BY <1>2, <1>13, <1>14 DEF Tells
<1>16. calls' \in Seq(Heard) /\ said' \in Seq(Symbols) /\ finish' \in Symbols BY <1>2, <1>12, <1>13, AppendProperties DEF CodecInv
<1>17. Placed(dialect, q, stream', calls') BY <1>2, <1>4, <1>14 DEF Placed
<1>18. q.failed <=> Read(dialect, stream).failed \/ e.type = "error" BY <1>1, <1>8, <1>14
<1>19. q = Step(dialect, Read(dialect, stream), e) BY <1>1, <1>8
<1> QED BY <1>8, <1>15, <1>16, <1>17, <1>18, <1>19, InvKept

\* A reason, or none.
LEMMA EndingKeeps ==
  ASSUME CodecInv, NEW reason \in Symbols, Sends(Ending(reason)), said' = said, calls' = calls,
         finish' = IF reason = Unset THEN finish ELSE reason
  PROVE  CodecInv'
<1>1. PICK r : r = Read(dialect, stream) OBVIOUS
<1>2. /\ dialect \in Dialects /\ stream \in Seq(Range(stream))
      /\ Sound(r) /\ TellsText(r, said) /\ TellsCalls(r, calls) /\ r.finish = finish
      /\ Placed(dialect, r, stream, calls) /\ r \in Accs
  BY <1>1 DEF CodecInv, Tells, Sound
<1>3. PICK e : e = Ending(reason) OBVIOUS
<1>4. PICK q : q = Finished(r, reason) OBVIOUS
<1>5. Sends(e) /\ q = Step(dialect, r, e) /\ e.type \notin {"error", "content_block_start"}
  BY <1>2, <1>3, <1>4, EndingStep
<1>6. /\ Sound(q) /\ TellsText(q, said) /\ TellsCalls(q, calls) /\ SameBlocks(q, r) /\ q.failed = r.failed
      /\ q.finish = IF reason = Unset THEN r.finish ELSE reason
  BY <1>2, <1>4, FinishedTells
<1>7. Tells(q, said', calls', finish') BY <1>2, <1>6 DEF Tells
<1>8. calls' \in Seq(Heard) /\ said' \in Seq(Symbols) /\ finish' \in Symbols BY DEF CodecInv
<1>9. Placed(dialect, q, stream', calls')
  <2>1. stream' = Append(stream, e) /\ ~TextStart(e) BY <1>5 DEF Sends, TextStart
  <2> QED BY <1>2, <1>6, <2>1, PlacedKept
<1>10. q.failed <=> Read(dialect, stream).failed \/ e.type = "error" BY <1>1, <1>5, <1>6
<1>11. q = Step(dialect, Read(dialect, stream), e) BY <1>1, <1>5
<1> QED BY <1>5, <1>7, <1>8, <1>9, <1>10, <1>11, InvKept

\* The provider reports an error.
LEMMA BreaksKeeps == ASSUME CodecInv, Breaks PROVE CodecInv'
<1>1. PICK r : r = Read(dialect, stream) OBVIOUS
<1>2. /\ dialect \in Dialects /\ stream \in Seq(Range(stream))
      /\ Sound(r) /\ TellsText(r, said) /\ TellsCalls(r, calls) /\ r.finish = finish
      /\ Placed(dialect, r, stream, calls) /\ r \in Accs
  BY <1>1 DEF CodecInv, Tells, Sound
<1>3. PICK e : /\ Sends(e)
               /\ e = Noise \/ (e = [type |-> "error"] /\ dialect = "anthropic")
  <2>1. PICK x \in {Ending("stop")} \cup {y \in {[type |-> "error"]} : dialect = "anthropic"} : Sends(Cut(x))
    BY DEF Breaks
  <2>2. CASE x = Ending("stop")
    <3>1. x.type # "error" BY <1>2, <2>2, EndingStep
    <3> QED BY <2>1, <3>1 DEF Cut
  <2>3. CASE x = [type |-> "error"] /\ dialect = "anthropic"
    <3>1. x.type = "error" BY <2>3
    <3> QED BY <2>1, <2>3, <3>1 DEF Cut
  <2> QED BY <2>1, <2>2, <2>3
<1>4. PICK q : q = Step(dialect, r, e) OBVIOUS
<1>5. /\ q.items = r.items /\ q.order = r.order /\ q.text = r.text /\ q.finish = r.finish /\ q \in Accs
      /\ q.failed <=> r.failed \/ e.type = "error"
      /\ e.type # "content_block_start"
  <2>1. CASE e = Noise
    <3>1. q = r BY <1>2, <1>4, <2>1, NoiseStep
    <3>2. e.type = "noise" BY <2>1 DEF Noise
    <3> QED BY <1>2, <3>1, <3>2
  <2>2. CASE e = [type |-> "error"] /\ dialect = "anthropic"
    <3>1. e.type = "error" BY <2>2
    <3>2. q = [r EXCEPT !.failed = TRUE]
      <4>1. PICK p : p = "anthropic" OBVIOUS
      <4>2. q = Step(p, r, e) /\ p = dialect BY <1>4, <2>2, <4>1
      <4>3. q = AnthropicStep(r, e) BY <4>1, <4>2, StepIs
      <4>4. AnthropicStep(r, e) = [r EXCEPT !.failed = TRUE] BY <3>1 DEF AnthropicStep
      <4> QED BY <4>3, <4>4
    <3>3. q \in Accs BY <1>2, <3>2 DEF Accs
    <3> QED BY <1>2, <3>1, <3>2, <3>3 DEF Accs
  <2> QED BY <1>3, <2>1, <2>2
<1>6. SameBlocks(q, r) BY <1>5 DEF SameBlocks
<1>7. Sound(q) BY <1>2, <1>5 DEF Sound
<1>8. TellsText(q, said) BY <1>2, <1>5, <1>6, TextKept
<1>9. TellsCalls(q, calls) BY <1>2, <1>5, <1>6, CallsKept
<1>10. said' = said /\ calls' = calls /\ finish' = finish BY DEF Breaks
<1>11. Tells(q, said', calls', finish') BY <1>2, <1>5, <1>7, <1>8, <1>9, <1>10 DEF Tells
<1>12. calls' \in Seq(Heard) /\ said' \in Seq(Symbols) /\ finish' \in Symbols BY <1>10 DEF CodecInv
<1>13. Placed(dialect, q, stream', calls')
  <2>1. stream' = Append(stream, e) /\ ~TextStart(e) BY <1>3, <1>5 DEF Sends, TextStart
  <2> QED BY <1>2, <1>6, <1>10, <2>1, PlacedKept
<1>14. q.failed <=> Read(dialect, stream).failed \/ e.type = "error" BY <1>1, <1>5
<1>15. q = Step(dialect, Read(dialect, stream), e) BY <1>1, <1>4
<1> QED BY <1>3, <1>11, <1>12, <1>13, <1>14, <1>15, InvKept

\* Every action keeps the invariant.
LEMMA CodecInvNext == ASSUME CodecInv, [CodecNext]_codecVars PROVE CodecInv'
<1>1. CASE OpensText BY <1>1, OpensTextKeeps
<1>2. CASE Says BY <1>2, SaysKeeps
<1>3. CASE \E n \in Callable : OpensCall(n) BY <1>3, OpensCallKeeps
<1>4. CASE \E k \in DOMAIN calls, f \in Fragments : Argues(k, f) BY <1>4, ArguesKeeps
<1>5. CASE \E n \in Callable, args \in DOMAIN Canon \cup {<<>>} : CallsWhole(n, args) BY <1>5, CallsKeeps
<1>6. CASE Finishes
  <2>1. PICK reason : reason = finish' OBVIOUS
  <2>2. reason \in {"stop", "length"} BY <1>6, <2>1 DEF Finishes
  <2>3. reason \in Symbols /\ reason # Unset BY <2>2, UnsetReason DEF Symbols
  <2>4. Sends(Ending(reason)) /\ said' = said /\ calls' = calls BY <1>6, <2>1 DEF Finishes
  <2> QED BY <2>1, <2>3, <2>4, EndingKeeps
<1>7. CASE Trails
  <2>1. Unset \in Symbols BY DEF Symbols
  <2> QED BY <1>7, <2>1, EndingKeeps DEF Trails
<1>8. CASE Breaks BY <1>8, BreaksKeeps
<1>9. CASE UNCHANGED codecVars BY <1>9 DEF CodecInv, codecVars
<1> QED BY <1>1, <1>2, <1>3, <1>4, <1>5, <1>6, <1>7, <1>8, <1>9, Zenon DEF CodecNext

\* Sorted is one of the rearrangements of its calls.
LEMMA SortedIs ==
  ASSUME NEW s
  PROVE  \E p \in Bijection(DOMAIN s, DOMAIN s) : Sorted(s) = [i \in DOMAIN s |-> s[p[i]]]
<1>1. PICK D : D = DOMAIN s OBVIOUS
<1>2. PICK p : p = [i \in D |-> i] OBVIOUS
<1>3. p \in Bijection(D, D) BY <1>2 DEF Bijection, Injection, Surjection, IsInjective
<1>4. [i \in DOMAIN s |-> s[p[i]]] \in Rearrangements(s) BY <1>1, <1>3 DEF Rearrangements
<1>5. Sorted(s) \in Rearrangements(s) BY <1>4, Zenon DEF Sorted
<1> QED BY <1>5 DEF Rearrangements

\* Sorting what is sorted changes nothing.
LEMMA SortedTwice == ASSUME NEW s PROVE Sorted(Sorted(s)) = Sorted(s) /\ DOMAIN Sorted(s) = DOMAIN s
<1>1. PICK D : D = DOMAIN s OBVIOUS
<1>2. PICK p \in Bijection(D, D) : Sorted(s) = [i \in D |-> s[p[i]]] BY <1>1, SortedIs
<1>3. PICK t : t = Sorted(s) OBVIOUS
<1>4. DOMAIN t = D /\ \A i \in D : t[i] = s[p[i]] BY <1>2, <1>3
<1>5. \A q \in Bijection(D, D) : q \in [D -> D] BY DEF Bijection, Injection
<1>6. ASSUME NEW u \in Rearrangements(t) PROVE u \in Rearrangements(s)
  <2>1. PICK q \in Bijection(D, D) : u = [i \in D |-> t[q[i]]] BY <1>4 DEF Rearrangements
  <2>2. PICK b : b = [i \in D |-> p[q[i]]] OBVIOUS
  <2>3. b \in Bijection(D, D) BY <1>2, <2>1, <2>2, Fun_BijTransitive
  <2>4. \A i \in D : q[i] \in D /\ t[q[i]] = s[b[i]] BY <1>4, <1>5, <2>1, <2>2
  <2>5. u = [i \in D |-> s[b[i]]] BY <2>1, <2>4
  <2> QED BY <1>1, <2>3, <2>5 DEF Rearrangements
<1>7. ASSUME NEW u \in Rearrangements(s) PROVE u \in Rearrangements(t)
  <2>1. PICK q \in Bijection(D, D) : u = [i \in D |-> s[q[i]]] BY <1>1 DEF Rearrangements
  <2>2. PICK w : w = Inverse(p, D, D) OBVIOUS
  <2>3. w \in Bijection(D, D) /\ \A x \in D : w[x] \in D /\ p[w[x]] = x
    <3>1. w \in Bijection(D, D) BY <1>2, <2>2, Fun_BijInverse
    <3>2. \A x \in D : p[w[x]] = x BY <1>2, <2>2, Fun_BijInverse, Fun_BijectionProperties
    <3> QED BY <1>5, <3>1, <3>2
  <2>4. PICK b : b = [i \in D |-> w[q[i]]] OBVIOUS
  <2>5. b \in Bijection(D, D) BY <2>1, <2>3, <2>4, Fun_BijTransitive
  <2>6. \A i \in D : b[i] \in D /\ t[b[i]] = s[q[i]] BY <1>4, <1>5, <2>1, <2>3, <2>4
  <2>7. u = [i \in D |-> t[b[i]]] BY <2>1, <2>6
  <2> QED BY <1>4, <2>5, <2>7 DEF Rearrangements
<1>8. Rearrangements(t) = Rearrangements(s) BY <1>6, <1>7
<1>9. Sorted(t) = Sorted(s) BY <1>8 DEF Sorted
<1> QED BY <1>1, <1>3, <1>4, <1>9

\* Neither does normalizing what is normalized.
LEMMA NormalizedTwice ==
  ASSUME NEW text, NEW tools, NEW reason
  PROVE  Normalize(Normalize(Transcript(text, tools, reason))) = Normalize(Transcript(text, tools, reason))
<1>1. ASSUME NEW some PROVE Normalize(Transcript(text, some, reason)) = Transcript(text, Sorted(some), reason)
  <2>1. PICK t : t = Transcript(text, some, reason) OBVIOUS
  <2>2. t = [role |-> "assistant", text |-> text, tools |-> some, finish |-> reason] BY <2>1 DEF Transcript
  <2>3. PICK sorted : sorted = Sorted(t.tools) OBVIOUS
  <2>4. PICK role : role = IF t.role = Unset THEN "assistant" ELSE t.role OBVIOUS
  <2>5. role = "assistant" BY <2>2, <2>4
  <2>6. Normalize(t) = [t EXCEPT !.role = role, !.tools = sorted] BY <2>3, <2>4 DEF Normalize
  <2>7. PICK q : q = [t EXCEPT !.role = role, !.tools = sorted] OBVIOUS
  <2>8. q = [role |-> role, text |-> text, tools |-> sorted, finish |-> reason] BY <2>2, <2>7
  <2>9. sorted = Sorted(some) BY <2>2, <2>3
  <2> QED BY <2>1, <2>5, <2>6, <2>7, <2>8, <2>9 DEF Transcript
<1> QED BY <1>1, SortedTwice

\* An accumulator that tells what the provider said is assembled into what it meant.
LEMMA CodecInvDecodes == CodecInv => DecodedAsSaid
<1> SUFFICES ASSUME CodecInv PROVE DecodedAsSaid OBVIOUS
<1>1. PICK r : r = Read(dialect, stream) OBVIOUS
<1>2. /\ TellsText(r, said) /\ TellsCalls(r, calls) /\ r.finish = finish
      /\ r.failed <=> ErrorSent(stream)
  BY <1>1 DEF CodecInv, Tells
<1>3. Assembled(r) = Meant
  <2>1. PICK x : x = OfType(r, "text") OBVIOUS
  <2>2. PICK y : y = OfType(r, "tool") OBVIOUS
  <2>3. said = r.text \o Joined([k \in DOMAIN x |-> r.items[x[k]].text]) BY <1>2, <2>1 DEF TellsText
  <2>4. /\ DOMAIN calls = DOMAIN y
        /\ \A k \in DOMAIN y : r.items[y[k]].name = calls[k].name /\ r.items[y[k]].args = calls[k].args
    BY <1>2, <2>2 DEF TellsCalls
  <2>5. [k \in DOMAIN y |-> ToolCall(r.items[y[k]].name, r.items[y[k]].args)]
          = [k \in DOMAIN calls |-> ToolCall(calls[k].name, calls[k].args)]
    BY <2>4
  <2>6. Assembled(r) = Transcript(r.text \o Joined([k \in DOMAIN x |-> r.items[x[k]].text]),
                                  [k \in DOMAIN y |-> ToolCall(r.items[y[k]].name, r.items[y[k]].args)], r.finish)
    BY <2>1, <2>2 DEF Assembled
  <2> QED BY <1>2, <2>3, <2>5, <2>6 DEF Meant
<1>4. Equal(Decode(dialect, stream), Meant)
  <2>1. PICK tools : tools = [k \in DOMAIN calls |-> ToolCall(calls[k].name, calls[k].args)] OBVIOUS
  <2>2. Meant = Transcript(said, tools, finish) BY <2>1 DEF Meant
  <2>3. Decode(dialect, stream) = Normalize(Meant) BY <1>1, <1>3 DEF Decode
  <2>4. Normalize(Normalize(Meant)) = Normalize(Meant) BY <2>2, NormalizedTwice
  <2> QED BY <2>3, <2>4 DEF Equal, Digest
<1>5. DecodeFails(dialect, stream) <=> \E i \in DOMAIN stream : stream[i].type = "error"
  BY <1>1, <1>2 DEF DecodeFails, ErrorSent
<1> QED BY <1>4, <1>5 DEF DecodedAsSaid

\* Whatever the chunking and the interleaving of the events, and wherever the stream was cut, the
\* decoder of the dialect makes of it exactly what the provider said so far (semequal.go): for
\* every length of the stream, every number of calls and of chunks, and every set of documents.
THEOREM DecodedAsSaidCorrect == CodecSpec => []DecodedAsSaid
<1>1. CodecInit => CodecInv BY CodecInvInit
<1>2. CodecInv /\ [CodecNext]_codecVars => CodecInv' BY CodecInvNext
<1>3. CodecInv => DecodedAsSaid BY CodecInvDecodes
<1> QED BY <1>1, <1>2, <1>3, PTL DEF CodecSpec

(***************************************************************************)
(* Codec: streams glued together                                           *)
(*                                                                         *)
(* A list is a sequence of anything.  Read of a list and one event more is *)
(* one step more, so that a stream that an encoder glues together is read  *)
(* piece by piece; the pieces of the calls of a turn (Piece) leave an      *)
(* accumulator that holds the calls written so far (Holds).                *)
(***************************************************************************)

(***************************************************************************)
(* Lists of anything                                                       *)
(***************************************************************************)

\* A sequence of anything.
IsList(s) == s \in Seq(Range(s))

\* A sequence of a set is a list.
LEMMA ListIn == ASSUME NEW E, NEW s \in Seq(E) PROVE IsList(s)
<1>1. DOMAIN s = 1 .. Len(s) /\ Len(s) \in Nat /\ s = [i \in DOMAIN s |-> s[i]] BY LenProperties
<1>2. PICK n \in Nat : n = Len(s) BY <1>1
<1> QED BY <1>1, <1>2, ListOf DEF IsList

\* The places of a list.
LEMMA ListHas ==
  ASSUME NEW s, IsList(s)
  PROVE  Len(s) \in Nat /\ DOMAIN s = 1 .. Len(s) /\ s = [i \in DOMAIN s |-> s[i]]
BY ListIs DEF IsList

\* Two lists of one set.
LEMMA ListsIn ==
  ASSUME NEW s, IsList(s), NEW t, IsList(t)
  PROVE  \E E : s \in Seq(E) /\ t \in Seq(E)
<1>1. PICK E : E = Range(s) \cup Range(t) OBVIOUS
<1>2. Range(s) \subseteq E /\ Range(t) \subseteq E BY <1>1
<1>3. s \in Seq(E) BY <1>2, SeqMonotonic DEF IsList
<1>4. t \in Seq(E) BY <1>2, SeqMonotonic DEF IsList
<1> QED BY <1>3, <1>4

\* Two lists in a row.
LEMMA ListGlued ==
  ASSUME NEW s, IsList(s), NEW t, IsList(t), NEW w, w = Glued(s, t)
  PROVE  /\ IsList(w) /\ Len(w) = Len(s) + Len(t)
         /\ \A i \in 1 .. Len(s) : w[i] = s[i]
         /\ \A i \in 1 .. Len(t) : w[Len(s) + i] = t[i]
<1>1. PICK E : s \in Seq(E) /\ t \in Seq(E) BY ListsIn
<1>2. w = s \o t BY DEF Glued
<1>3. /\ w \in Seq(E) /\ Len(w) = Len(s) + Len(t)
      /\ \A i \in 1 .. Len(w) : w[i] = IF i <= Len(s) THEN s[i] ELSE t[i - Len(s)]
  BY <1>1, <1>2, ConcatProperties
<1>4. IsList(w) BY <1>3, ListIn
<1>5. Len(s) \in Nat /\ Len(t) \in Nat BY <1>1, LenProperties
<1>6. \A i \in 1 .. Len(s) : i \in 1 .. Len(w) /\ i <= Len(s) BY <1>3, <1>5
<1>7. \A i \in 1 .. Len(t) : Len(s) + i \in 1 .. Len(w) /\ ~(Len(s) + i <= Len(s)) /\ (Len(s) + i) - Len(s) = i
  BY <1>3, <1>5
<1>8. ASSUME NEW i \in 1 .. Len(t) PROVE w[Len(s) + i] = t[i]
  <2>1. PICK j : j = Len(s) + i OBVIOUS
  <2>2. j \in 1 .. Len(w) /\ ~(j <= Len(s)) /\ j - Len(s) = i BY <1>7, <2>1
  <2>3. w[j] = t[j - Len(s)] BY <1>3, <2>2
  <2> QED BY <2>1, <2>2, <2>3
<1> QED BY <1>3, <1>4, <1>6, <1>8

\* Gluing lists is associative.
LEMMA ListRegrouped ==
  ASSUME NEW s, IsList(s), NEW t, IsList(t), NEW u, IsList(u)
  PROVE  Glued(Glued(s, t), u) = Glued(s, Glued(t, u))
<1>1. PICK E : E = Range(s) \cup Range(t) \cup Range(u) OBVIOUS
<1>2. Range(s) \subseteq E /\ Range(t) \subseteq E /\ Range(u) \subseteq E BY <1>1
<1>3. s \in Seq(E) BY <1>2, SeqMonotonic DEF IsList
<1>4. t \in Seq(E) BY <1>2, SeqMonotonic DEF IsList
<1>5. u \in Seq(E) BY <1>2, SeqMonotonic DEF IsList
<1>6. (s \o t) \o u = s \o (t \o u) BY <1>3, <1>4, <1>5, ConcatAssociative
<1> QED BY <1>6 DEF Glued

\* Lists of one, of none, of two and of three.
LEMMA ListOne ==
  ASSUME NEW e, NEW u, u = <<e>>
  PROVE  IsList(u) /\ Len(u) = 1 /\ u[1] = e /\ \A s : IsList(s) => Glued(s, u) = Append(s, e)
<1>1. u \in Seq({e}) /\ Len(u) = 1 /\ u[1] = e OBVIOUS
<1>2. ASSUME NEW s, IsList(s) PROVE Glued(s, u) = Append(s, e)
  <2>1. PICK E : E = Range(s) \cup {e} OBVIOUS
  <2>2. s \in Seq(E) /\ e \in E
    <3>1. Range(s) \subseteq E /\ e \in E BY <2>1
    <3> QED BY <1>2, <3>1, SeqMonotonic DEF IsList
  <2>3. Append(s, e) = s \o <<e>> BY <2>2, AppendIsConcat
  <2> QED BY <2>3 DEF Glued
<1> QED BY <1>1, <1>2, ListIn

LEMMA ListNone ==
  ASSUME NEW s, IsList(s), NEW none, none = <<>>
  PROVE  IsList(none) /\ Len(none) = 0 /\ Glued(s, none) = s /\ Glued(none, s) = s
<1>1. s \in Seq(Range(s)) /\ none \in Seq(Range(s)) /\ Len(none) = 0 BY DEF IsList
<1>2. s \o none = s /\ none \o s = s BY <1>1, ConcatEmptySeq
<1> QED BY <1>1, <1>2, ListIn DEF Glued

LEMMA ListTwo ==
  ASSUME NEW a, NEW b, NEW u, u = <<a, b>>, NEW x, x = <<a>>, NEW y, y = <<b>>
  PROVE  IsList(u) /\ Len(u) = 2 /\ u = Glued(x, y)
<1>1. u \in Seq({a, b}) /\ x \in Seq({a, b}) /\ Len(u) = 2 /\ u[1] = a /\ u[2] = b OBVIOUS
<1>2. IsList(x) /\ Len(x) = 1 /\ x[1] = a /\ IsList(y) BY ListOne
<1>3. PICK w : w = Append(x, b) OBVIOUS
<1>4. w = Glued(x, y) BY <1>2, <1>3, ListOne
<1>5. w \in Seq({a, b}) /\ Len(w) = 2 /\ w[1] = a /\ w[2] = b BY <1>1, <1>2, <1>3, AppendProperties
<1>6. w = u BY <1>1, <1>5, SeqEqual
<1> QED BY <1>1, <1>4, <1>6, ListIn

LEMMA ListThree ==
  ASSUME NEW a, NEW b, NEW c, NEW u, u = <<a, b, c>>, NEW x, x = <<a, b>>, NEW y, y = <<c>>
  PROVE  IsList(u) /\ Len(u) = 3 /\ u = Glued(x, y)
<1>1. u \in Seq({a, b, c}) /\ x \in Seq({a, b, c}) /\ Len(u) = 3 /\ u[1] = a /\ u[2] = b /\ u[3] = c OBVIOUS
<1>2. IsList(x) /\ Len(x) = 2 /\ x[1] = a /\ x[2] = b BY <1>1, ListIn
<1>3. PICK w : w = Append(x, c) OBVIOUS
<1>4. w = Glued(x, y) BY <1>2, <1>3, ListOne
<1>5. w \in Seq({a, b, c}) /\ Len(w) = 3 /\ w[1] = a /\ w[2] = b /\ w[3] = c BY <1>1, <1>2, <1>3, AppendProperties
<1>6. w = u BY <1>1, <1>5, SeqEqual
<1> QED BY <1>1, <1>4, <1>6, ListIn

(***************************************************************************)
(* The first elements of a list                                            *)
(***************************************************************************)

\* The beginning of a list.
First(w, n) == [k \in 1 .. n |-> w[k]]

\* The beginning of a list is a list.
LEMMA FirstIs ==
  ASSUME NEW w, IsList(w), NEW n \in 0 .. Len(w), NEW s, s = First(w, n)
  PROVE  IsList(s) /\ Len(s) = n /\ DOMAIN s = 1 .. n /\ \A k \in 1 .. n : s[k] = w[k]
<1>1. n \in Nat BY ListHas
<1>2. DOMAIN s = 1 .. n /\ s = [k \in DOMAIN s |-> s[k]] /\ \A k \in 1 .. n : s[k] = w[k] BY DEF First
<1> QED BY <1>1, <1>2, ListOf DEF IsList

\* None of it, and all of it.
LEMMA FirstAll ==
  ASSUME NEW w, IsList(w)
  PROVE  First(w, 0) = <<>> /\ First(w, Len(w)) = w
BY ListHas DEF First

\* One place more.
LEMMA FirstGrows ==
  ASSUME NEW w, IsList(w), NEW n \in 0 .. (Len(w) - 1), NEW s, s = First(w, n), NEW x, x = w[n + 1]
  PROVE  First(w, n + 1) = Append(s, x)
<1>1. n \in Nat /\ n \in 0 .. Len(w) /\ n + 1 \in 1 .. Len(w) /\ n + 1 \in 0 .. Len(w) BY ListHas
<1>2. PICK t : t = First(w, n + 1) OBVIOUS
<1>3. IsList(s) /\ Len(s) = n /\ \A k \in 1 .. n : s[k] = w[k] BY <1>1, FirstIs
<1>4. PICK m : m = n + 1 OBVIOUS
<1>5. DOMAIN t = 1 .. m /\ t = [k \in DOMAIN t |-> t[k]] /\ \A k \in 1 .. m : t[k] = w[k] BY <1>2, <1>4 DEF First
<1>6. PICK u : u = Append(s, x) OBVIOUS
<1>7. /\ u \in Seq(Range(u)) /\ Len(u) = m /\ DOMAIN u = 1 .. m
      /\ \A k \in 1 .. n : u[k] = s[k]
      /\ u[m] = x
  BY <1>3, <1>4, <1>6, AppendAny DEF IsList
<1>8. u = [k \in DOMAIN u |-> u[k]] BY <1>7, ListIs
<1>9. \A k \in 1 .. m : k \in 1 .. n \/ k = m BY <1>1, <1>4
<1>10. \A k \in 1 .. m : t[k] = u[k] BY <1>3, <1>4, <1>5, <1>7, <1>9
<1>11. t = u BY <1>5, <1>7, <1>8, <1>10
<1> QED BY <1>2, <1>6, <1>11

(***************************************************************************)
(* Reading a stream, piece by piece                                        *)
(***************************************************************************)

\* One, two and three events more.
LEMMA ReadAppend ==
  ASSUME NEW p, NEW s, IsList(s), NEW e, NEW t, t = Append(s, e)
  PROVE  Read(p, t) = Step(p, Read(p, s), e) /\ IsList(t)
<1>1. PICK n \in Nat : n = Len(s) BY ListHas
<1>2. /\ Len(t) = n + 1 /\ t[n + 1] = e /\ \A k \in 1 .. n : t[k] = s[k]
      /\ t \in Seq(Range(t))
  BY <1>1, AppendAny DEF IsList
<1>3. Len(s) = n BY <1>1
<1>4. Read(p, t) = Step(p, Read(p, s), t[n + 1]) BY <1>2, <1>3, ReadStep
<1> QED BY <1>2, <1>4 DEF IsList

LEMMA ReadOne ==
  ASSUME NEW p, NEW s, IsList(s), NEW a, NEW u, u = <<a>>, NEW t, t = Glued(s, u)
  PROVE  Read(p, t) = Step(p, Read(p, s), a) /\ IsList(t)
<1>1. t = Append(s, a) BY ListOne
<1> QED BY <1>1, ReadAppend

LEMMA ReadTwo ==
  ASSUME NEW p, NEW s, IsList(s), NEW a, NEW b, NEW m, m = Step(p, Read(p, s), a),
         NEW u, u = <<a, b>>, NEW t, t = Glued(s, u)
  PROVE  Read(p, t) = Step(p, m, b) /\ IsList(t)
<1>1. PICK x : x = <<a>> OBVIOUS
<1>2. PICK y : y = <<b>> OBVIOUS
<1>3. PICK w : w = Glued(s, x) OBVIOUS
<1>4. Read(p, w) = m /\ IsList(w)
  <2>1. Read(p, w) = Step(p, Read(p, s), a) /\ IsList(w) BY <1>1, <1>3, ReadOne
  <2> QED BY <2>1
<1>5. u = Glued(x, y) BY <1>1, <1>2, ListTwo
<1>6. IsList(x) /\ IsList(y) BY <1>1, <1>2, ListOne
<1>7. t = Glued(w, y) BY <1>3, <1>5, <1>6, ListRegrouped
<1>8. Read(p, t) = Step(p, Read(p, w), b) /\ IsList(t) BY <1>2, <1>4, <1>7, ReadOne
<1> QED BY <1>4, <1>8

LEMMA ReadThree ==
  ASSUME NEW p, NEW s, IsList(s), NEW a, NEW b, NEW c, NEW m, m = Step(p, Read(p, s), a),
         NEW q, q = Step(p, m, b), NEW u, u = <<a, b, c>>, NEW t, t = Glued(s, u)
  PROVE  Read(p, t) = Step(p, q, c) /\ IsList(t)
<1>1. PICK x : x = <<a, b>> OBVIOUS
<1>2. PICK y : y = <<c>> OBVIOUS
<1>3. PICK w : w = Glued(s, x) OBVIOUS
<1>4. Read(p, w) = q /\ IsList(w)
  <2>1. Read(p, w) = Step(p, m, b) /\ IsList(w) BY <1>1, <1>3, ReadTwo
  <2> QED BY <2>1
<1>5. u = Glued(x, y) BY <1>1, <1>2, ListThree
<1>6. IsList(x) /\ IsList(y)
  <2>1. PICK z : z = <<a>> OBVIOUS
  <2>2. PICK v : v = <<b>> OBVIOUS
  <2>3. IsList(x) BY <1>1, <2>1, <2>2, ListTwo
  <2> QED BY <1>2, <2>3, ListOne
<1>7. t = Glued(w, y) BY <1>3, <1>5, <1>6, ListRegrouped
<1>8. Read(p, t) = Step(p, Read(p, w), c) /\ IsList(t) BY <1>2, <1>4, <1>7, ReadOne
<1> QED BY <1>4, <1>8

\* Lists joined are a list.
LEMMA JoinedList ==
  ASSUME NEW ss, IsList(ss), \A k \in DOMAIN ss : IsList(ss[k])
  PROVE  IsList(Joined(ss))
<1>1. PICK E : E = UNION {Range(ss[k]) : k \in DOMAIN ss} OBVIOUS
<1>2. Len(ss) \in Nat /\ DOMAIN ss = 1 .. Len(ss) BY ListHas
<1>3. ASSUME NEW k \in 1 .. Len(ss) PROVE ss[k] \in Seq(E)
  <2>1. Range(ss[k]) \subseteq E BY <1>1, <1>2
  <2>2. IsList(ss[k]) BY <1>2
  <2> QED BY <2>1, <2>2, SeqMonotonic DEF IsList
<1>4. Joined(ss) \in Seq(E) BY <1>2, <1>3, JoinedType
<1> QED BY <1>4, ListIn

\* One list more, after a head.
LEMMA JoinedGrows ==
  ASSUME NEW head, IsList(head), NEW ss, IsList(ss), \A k \in DOMAIN ss : IsList(ss[k]),
         NEW n \in 0 .. (Len(ss) - 1), NEW s, s = Glued(head, Joined(First(ss, n))), NEW x, x = ss[n + 1]
  PROVE  Glued(head, Joined(First(ss, n + 1))) = Glued(s, x) /\ IsList(s)
<1>1. PICK a : a = First(ss, n) OBVIOUS
<1>2. PICK b : b = First(ss, n + 1) OBVIOUS
<1>3. n \in Nat /\ n \in 0 .. Len(ss) /\ n + 1 \in 1 .. Len(ss) /\ n + 1 \in 0 .. Len(ss) /\ DOMAIN ss = 1 .. Len(ss)
  BY ListHas
<1>4. IsList(a) /\ Len(a) = n /\ DOMAIN a = 1 .. n /\ \A k \in 1 .. n : a[k] = ss[k] BY <1>1, <1>3, FirstIs
<1>5. IsList(b) /\ Len(b) = n + 1 /\ \A k \in 1 .. (n + 1) : b[k] = ss[k] BY <1>2, <1>3, FirstIs
<1>6. \A k \in 1 .. n : k \in 1 .. (n + 1) BY <1>3
<1>7. \A k \in 1 .. n : b[k] = a[k] BY <1>4, <1>5, <1>6
<1>8. Joined(b) = Joined(a) \o b[n + 1] BY <1>3, <1>4, <1>5, <1>7, JoinedStep
<1>9. b[n + 1] = x /\ IsList(x) BY <1>3, <1>5
<1>10. \A k \in DOMAIN a : IsList(a[k]) BY <1>3, <1>4
<1>11. IsList(Joined(a)) BY <1>4, <1>10, JoinedList
<1>12. PICK j : j = Joined(a) OBVIOUS
<1>13. IsList(s) BY <1>1, <1>11, ListGlued
<1>14. Glued(Glued(head, j), x) = Glued(head, Glued(j, x)) BY <1>9, <1>11, <1>12, ListRegrouped
<1>15. Joined(b) = Glued(j, x) BY <1>8, <1>9, <1>12 DEF Glued
<1> QED BY <1>1, <1>2, <1>12, <1>13, <1>14, <1>15

\* Nothing after a head.
LEMMA JoinedNone ==
  ASSUME NEW head, IsList(head), NEW ss
  PROVE  Glued(head, Joined(First(ss, 0))) = head
<1>1. First(ss, 0) = <<>> BY DEF First
<1> QED BY <1>1, JoinedEmpty, ListNone
(***************************************************************************)
(* Calls that are read back                                                *)
(***************************************************************************)

\* Calls as a turn has them: a name and its arguments.
ToolCalls == [name : Symbols, args : Seq(Symbols)]

\* So far a text and some calls, with blocks below an index, and no reason yet.
Holds(r, text, cs, next) ==
  /\ Sound(r) /\ TellsText(r, text) /\ TellsCalls(r, cs) /\ r.finish = Unset /\ r.failed = FALSE
  /\ \A i \in DOMAIN r.items : i < next

\* The fields of a call.
LEMMA CallIs ==
  ASSUME NEW c \in ToolCalls
  PROVE  c.name \in Symbols /\ c.args \in Seq(Symbols) /\ c = [name |-> c.name, args |-> c.args]
BY DEF ToolCalls

\* One call more in the accumulator.
LEMMA CallHolds ==
  ASSUME NEW r, NEW text, NEW cs \in Seq(ToolCalls), NEW i \in Nat, Holds(r, text, cs, i),
         NEW c \in ToolCalls, NEW name, name = c.name, NEW args, args = c.args,
         NEW s, s = Opened(r, i, "tool", name), NEW q, q = ArgsTo(s, i, args), NEW next, next = i + 1,
         NEW ds, ds = Append(cs, c)
  PROVE  Holds(q, text, ds, next)
<1>1. name \in Symbols /\ args \in Seq(Symbols) /\ c.name = name /\ c.args = args BY CallIs
<1>2. Sound(r) /\ TellsText(r, text) /\ TellsCalls(r, cs) /\ r.finish = Unset /\ r.failed = FALSE BY DEF Holds
<1>3. i \notin DOMAIN r.items BY DEF Holds
<1>4. /\ Sound(q) /\ TellsText(q, text) /\ TellsCalls(q, Append(cs, c))
      /\ q.finish = r.finish /\ q.failed = r.failed
      /\ DOMAIN q.items = {i} \cup DOMAIN r.items
  BY <1>1, <1>2, <1>3, CalledAt
<1>5. DOMAIN r.items \subseteq Nat BY <1>2, AccIs DEF Sound
<1>6. \A k \in DOMAIN q.items : k < next BY <1>4, <1>5 DEF Holds
<1> QED BY <1>2, <1>4, <1>6 DEF Holds

\* The events of a call, and what a dialect makes of them.
Piece(p, i, name, args) ==
  CASE p = "anthropic" ->
         <<Block(i, "tool", name), [type |-> "input_json_delta", index |-> i, args |-> args], Noise>>
    [] p = "openai-chat" ->
         <<Chunk(<<>>, <<[index |-> i, name |-> name, args |-> <<>>]>>, Unset),
           Chunk(<<>>, <<[index |-> i, name |-> Unset, args |-> args]>>, Unset)>>
    [] p = "openai-responses" ->
         <<[type |-> "response.output_item.added", index |-> i, item |-> "function_call", name |-> name],
           [type |-> "response.function_call_arguments.delta", index |-> i, args |-> args]>>

\* The events of a call are a list.
LEMMA PieceList ==
  ASSUME NEW p \in Fragmented, NEW i, NEW name, NEW args, NEW piece, piece = Piece(p, i, name, args)
  PROVE  IsList(piece)
<1>1. (\E a, b : piece = <<a, b>>) \/ (\E a, b, c : piece = <<a, b, c>>) BY DEF Piece, Fragmented
<1>2. ASSUME NEW a, NEW b, piece = <<a, b>> PROVE IsList(piece)
  <2>1. PICK x : x = <<a>> OBVIOUS
  <2>2. PICK y : y = <<b>> OBVIOUS
  <2> QED BY <1>2, <2>1, <2>2, ListTwo
<1>3. ASSUME NEW a, NEW b, NEW c, piece = <<a, b, c>> PROVE IsList(piece)
  <2>1. PICK x : x = <<a, b>> OBVIOUS
  <2>2. PICK y : y = <<c>> OBVIOUS
  <2> QED BY <1>3, <2>1, <2>2, ListThree
<1> QED BY <1>1, <1>2, <1>3

\* What a dialect makes of the events of a call: it opens a block and fills it.
LEMMA PieceRead ==
  ASSUME NEW p \in Fragmented, NEW head, IsList(head), NEW r, r = Read(p, head), Sound(r),
         NEW i \in Nat, i \notin DOMAIN r.items, NEW name \in Symbols, NEW args,
         NEW s, s = Opened(r, i, "tool", name), NEW q, q = ArgsTo(s, i, args),
         NEW piece, piece = Piece(p, i, name, args), NEW t, t = Glued(head, piece)
  PROVE  Read(p, t) = q /\ IsList(t)
<1>0. s \in Accs /\ i \in DOMAIN s.items
  <2>1. Sound(s) /\ DOMAIN s.items = {i} \cup DOMAIN r.items BY OpenedIs
  <2> QED BY <2>1 DEF Sound
<1>1. CASE p = "anthropic"
  <2>1. PICK a : a = Block(i, "tool", name) OBVIOUS
  <2>2. PICK b : b = [type |-> "input_json_delta", index |-> i, args |-> args] OBVIOUS
  <2>3. PICK c : c = Noise OBVIOUS
  <2>4. piece = <<a, b, c>> BY <1>1, <2>1, <2>2, <2>3 DEF Piece
  <2>5. s = Step(p, r, a)
    <3>1. AnthropicStep(r, Block(i, "tool", name)) = s BY <2>1, OpensCallStep
    <3> QED BY <1>1, <2>1, <3>1, StepIs
  <2>6. q = Step(p, s, b)
    <3>1. AnthropicStep(s, [type |-> "input_json_delta", index |-> i, args |-> args]) = q BY <1>0, ArguesStep
    <3> QED BY <1>1, <2>2, <3>1, StepIs
  <2>7. Step(p, q, c) = q BY <1>1, <2>3, NoiseStep DEF Dialects
  <2>8. s = Step(p, Read(p, head), a) BY <2>5
  <2>9. Read(p, t) = Step(p, q, c) /\ IsList(t) BY <2>4, <2>6, <2>8, ReadThree
  <2> QED BY <2>7, <2>9
<1>2. CASE p = "openai-chat" \/ p = "openai-responses"
  <2>1. PICK a, b : piece = <<a, b>> /\ s = Step(p, r, a) /\ q = Step(p, s, b)
    <3>1. CASE p = "openai-chat"
      <4>1. PICK a : a = Chunk(<<>>, <<[index |-> i, name |-> name, args |-> <<>>]>>, Unset) OBVIOUS
      <4>2. PICK b : b = Chunk(<<>>, <<[index |-> i, name |-> Unset, args |-> args]>>, Unset) OBVIOUS
      <4>3. piece = <<a, b>> BY <3>1, <4>1, <4>2 DEF Piece
      <4>4. s = Step(p, r, a)
        <5>1. OpenAIChatStep(r, Chunk(<<>>, <<[index |-> i, name |-> name, args |-> <<>>]>>, Unset)) = s BY <3>1, OpensCallStep
        <5> QED BY <3>1, <4>1, <5>1, StepIs
      <4>5. q = Step(p, s, b)
        <5>1. OpenAIChatStep(s, Chunk(<<>>, <<[index |-> i, name |-> Unset, args |-> args]>>, Unset)) = q BY <1>0, ArguesStep
        <5> QED BY <3>1, <4>2, <5>1, StepIs
      <4> QED BY <4>3, <4>4, <4>5
    <3>2. CASE p = "openai-responses"
      <4>1. PICK a : a = [type |-> "response.output_item.added", index |-> i, item |-> "function_call", name |-> name]
        OBVIOUS
      <4>2. PICK b : b = [type |-> "response.function_call_arguments.delta", index |-> i, args |-> args] OBVIOUS
      <4>3. piece = <<a, b>> BY <3>2, <4>1, <4>2 DEF Piece
      <4>4. s = Step(p, r, a)
        <5>1. OpenAIResponsesStep(r, [type |-> "response.output_item.added", index |-> i,
                                         item |-> "function_call", name |-> name]) = s BY <3>2, OpensCallStep
        <5> QED BY <3>2, <4>1, <5>1, StepIs
      <4>5. q = Step(p, s, b)
        <5>1. OpenAIResponsesStep(s, [type |-> "response.function_call_arguments.delta", index |-> i, args |-> args]) = q BY <1>0, ArguesStep
        <5> QED BY <3>2, <4>2, <5>1, StepIs
      <4> QED BY <4>3, <4>4, <4>5
    <3> QED BY <1>2, <3>1, <3>2
  <2>2. s = Step(p, Read(p, head), a) BY <2>1
  <2>3. Read(p, t) = Step(p, s, b) /\ IsList(t) BY <2>1, <2>2, ReadTwo
  <2> QED BY <2>1, <2>3
<1> QED BY <1>1, <1>2 DEF Fragmented

\* All calls of a turn, after a head that holds the text.
LEMMA CallsRead ==
  ASSUME NEW p \in Fragmented, NEW head, IsList(head), NEW text, NEW base \in Nat,
         Holds(Read(p, head), text, <<>>, base),
         NEW w \in Seq(ToolCalls), NEW ss, IsList(ss), Len(ss) = Len(w),
         \A k \in 1 .. Len(w) : ss[k] = Piece(p, base + k - 1, w[k].name, w[k].args),
         NEW t, t = Glued(head, Joined(ss))
  PROVE  Holds(Read(p, t), text, w, base + Len(w)) /\ IsList(t)
<1>1. PICK m \in Nat : m = Len(w) /\ m = Len(ss) /\ DOMAIN ss = 1 .. m /\ DOMAIN w = 1 .. m BY LenProperties, ListHas
<1>2. IsList(w) BY ListIn
<1> DEFINE Upto(n) == Glued(head, Joined(First(ss, n)))
           P == {n \in 0 .. m : Holds(Read(p, Upto(n)), text, First(w, n), base + n) /\ IsList(Upto(n))}
<1>3. ASSUME NEW k \in DOMAIN ss PROVE IsList(ss[k])
  <2>1. PICK i \in Nat : i = base + k - 1 BY <1>1
  <2>2. PICK piece : piece = ss[k] OBVIOUS
  <2>3. piece = Piece(p, i, w[k].name, w[k].args) BY <1>1, <2>1, <2>2
  <2>4. IsList(piece) BY <2>3, PieceList
  <2> QED BY <2>2, <2>4
<1>4. 0 \in P
  <2>1. Upto(0) = head BY JoinedNone
  <2>2. First(w, 0) = <<>> BY <1>2, FirstAll
  <2> QED BY <1>1, <2>1, <2>2
<1>5. ASSUME NEW n \in 0 .. (m - 1), n \in P PROVE n + 1 \in P
  <2>1. n \in Nat /\ n \in 0 .. m /\ n + 1 \in 1 .. m /\ n + 1 \in 0 .. m BY <1>1
  <2>2. PICK s : s = Upto(n) OBVIOUS
  <2>3. PICK piece : piece = ss[n + 1] OBVIOUS
  <2>4. Upto(n + 1) = Glued(s, piece) /\ IsList(s)
    <3>1. s = Glued(head, Joined(First(ss, n))) BY <2>2
    <3>2. IsList(head) /\ IsList(ss) /\ n \in 0 .. (Len(ss) - 1) /\ \A k \in DOMAIN ss : IsList(ss[k]) BY <1>1, <1>3
    <3>3. Glued(head, Joined(First(ss, n + 1))) = Glued(s, piece) /\ IsList(s) BY <2>3, <3>1, <3>2, JoinedGrows
    <3> QED BY <3>3
  <2>5. PICK i \in Nat : i = base + n BY <2>1
  <2>6. PICK r : r = Read(p, s) OBVIOUS
  <2>7. PICK cs : cs = First(w, n) OBVIOUS
  <2>8. Holds(r, text, cs, i) BY <1>5, <2>2, <2>5, <2>6, <2>7
  <2>9. PICK c : c = w[n + 1] OBVIOUS
  <2>10. c \in ToolCalls
    <3>1. \A k \in 1 .. m : w[k] \in ToolCalls BY <1>1, ElementOfSeq
    <3> QED BY <2>1, <2>9, <3>1
  <2>11. cs \in Seq(ToolCalls)
    <3>1. IsList(cs) /\ Len(cs) = n /\ DOMAIN cs = 1 .. n /\ \A k \in 1 .. n : cs[k] = w[k] BY <1>1, <1>2, <2>1, <2>7, FirstIs
    <3>2. \A k \in 1 .. n : w[k] \in ToolCalls
      <4>1. \A k \in 1 .. m : w[k] \in ToolCalls BY <1>1, ElementOfSeq
      <4>2. \A k \in 1 .. n : k \in 1 .. m BY <2>1
      <4> QED BY <4>1, <4>2
    <3>3. cs = [k \in 1 .. n |-> cs[k]] BY <3>1, ListHas
    <3>4. cs \in [1 .. n -> ToolCalls] BY <3>1, <3>2, <3>3
    <3> QED BY <2>1, <3>4, SeqDef
  <2>12. PICK name : name = c.name OBVIOUS
  <2>13. PICK args : args = c.args OBVIOUS
  <2>14. name \in Symbols BY <2>10, <2>12, CallIs
  <2>15. PICK o : o = Opened(r, i, "tool", name) OBVIOUS
  <2>16. PICK q : q = ArgsTo(o, i, args) OBVIOUS
  <2>17. piece = Piece(p, i, name, args)
    <3>1. ss[n + 1] = Piece(p, base + (n + 1) - 1, w[n + 1].name, w[n + 1].args) BY <1>1, <2>1
    <3>2. base + (n + 1) - 1 = i BY <2>1, <2>5
    <3> QED BY <2>3, <2>9, <2>12, <2>13, <3>1, <3>2
  <2>18. PICK u : u = Glued(s, piece) OBVIOUS
  <2>19. Sound(r) /\ i \notin DOMAIN r.items BY <2>8 DEF Holds
  <2>20. Read(p, u) = q /\ IsList(u) BY <2>4, <2>6, <2>14, <2>15, <2>16, <2>17, <2>18, <2>19, PieceRead
  <2>21. PICK next : next = i + 1 OBVIOUS
  <2>22. PICK ds : ds = Append(cs, c) OBVIOUS
  <2>23. Holds(q, text, ds, next) BY <2>8, <2>10, <2>11, <2>12, <2>13, <2>15, <2>16, <2>21, <2>22, CallHolds
  <2>24. First(w, n + 1) = ds BY <1>1, <1>2, <2>7, <2>9, <2>22, FirstGrows
  <2>25. base + (n + 1) = next BY <2>1, <2>5, <2>21
  <2> QED BY <2>1, <2>4, <2>18, <2>20, <2>23, <2>24, <2>25
<1> HIDE DEF P
<1>6. \A n \in 0 .. m : n \in P BY <1>4, <1>5, SetInduction
<1>7. m \in P BY <1>6
<1>8. First(ss, m) = ss /\ First(w, m) = w BY <1>1, <1>2, FirstAll
<1> QED BY <1>1, <1>7, <1>8 DEF P

\* One list more.
LEMMA JoinedFirst ==
  ASSUME NEW ss, IsList(ss), NEW n \in 0 .. (Len(ss) - 1), NEW s, s = Joined(First(ss, n)), NEW x, x = ss[n + 1]
  PROVE  Joined(First(ss, n + 1)) = Glued(s, x)
<1>1. PICK a : a = First(ss, n) OBVIOUS
<1>2. PICK b : b = First(ss, n + 1) OBVIOUS
<1>3. n \in Nat /\ n \in 0 .. Len(ss) /\ n + 1 \in 1 .. Len(ss) /\ n + 1 \in 0 .. Len(ss) BY ListHas
<1>4. Len(a) = n /\ \A k \in 1 .. n : a[k] = ss[k] BY <1>1, <1>3, FirstIs
<1>5. Len(b) = n + 1 /\ \A k \in 1 .. (n + 1) : b[k] = ss[k] BY <1>2, <1>3, FirstIs
<1>6. \A k \in 1 .. n : k \in 1 .. (n + 1) BY <1>3
<1>7. \A k \in 1 .. n : b[k] = a[k] BY <1>4, <1>5, <1>6
<1>8. Joined(b) = Joined(a) \o b[n + 1] BY <1>3, <1>4, <1>5, <1>7, JoinedStep
<1>9. b[n + 1] = x BY <1>3, <1>5
<1> QED BY <1>1, <1>2, <1>8, <1>9 DEF Glued

\* One list is itself.
LEMMA JoinedOne ==
  ASSUME NEW x, IsList(x), NEW ss, ss = <<x>>
  PROVE  Joined(ss) = x
<1>1. IsList(ss) /\ Len(ss) = 1 /\ ss[1] = x BY ListOne
<1>2. 0 \in 0 .. (Len(ss) - 1) /\ 0 + 1 = 1 BY <1>1
<1>3. PICK s : s = Joined(First(ss, 0)) OBVIOUS
<1>4. Joined(First(ss, 0 + 1)) = Glued(s, x) BY <1>1, <1>2, <1>3, JoinedFirst
<1>5. First(ss, 0) = <<>> /\ First(ss, 1) = ss BY <1>1, FirstAll
<1>6. s = <<>> BY <1>3, <1>5, JoinedEmpty
<1>7. Glued(s, x) = x BY <1>6, ListNone
<1> QED BY <1>2, <1>4, <1>5, <1>7

\* A whole turn, as an accumulator tells it.
Back(r, text, cs, reason) ==
  Sound(r) /\ TellsText(r, text) /\ TellsCalls(r, cs) /\ r.finish = reason /\ r.failed = FALSE

\* A turn that ends.
LEMMA HeldBack ==
  ASSUME NEW r, NEW text, NEW cs, NEW next, Holds(r, text, cs, next), NEW reason \in Symbols,
         NEW q, q = Finished(r, reason)
  PROVE  Back(q, text, cs, reason)
<1>1. Sound(r) /\ TellsText(r, text) /\ TellsCalls(r, cs) /\ r.finish = Unset /\ r.failed = FALSE BY DEF Holds
<1>2. /\ Sound(q) /\ TellsText(q, text) /\ TellsCalls(q, cs) /\ q.failed = r.failed
      /\ q.finish = IF reason = Unset THEN r.finish ELSE reason
  BY <1>1, FinishedTells
<1> QED BY <1>1, <1>2 DEF Back

\* Nothing yet.
LEMMA BlankHolds == \A n \in Nat : Holds(Blank, <<>>, <<>>, n)
<1>1. Blank.finish = Unset /\ Blank.failed = FALSE /\ Blank.items = <<>> BY DEF Blank
<1> QED BY <1>1, BlankTells DEF Holds

\* A stream that starts with noise is read as if it did not.
LEMMA NoiseRead ==
  ASSUME NEW p \in Dialects, NEW s, s = <<Noise>>
  PROVE  Read(p, s) = Blank /\ IsList(s)
<1>1. PICK none : none = <<>> OBVIOUS
<1>2. IsList(s) BY ListOne
<1>3. IsList(none) /\ s = Glued(none, s) BY <1>1, <1>2, ListNone
<1>4. PICK a : a = Noise OBVIOUS
<1>5. Read(p, s) = Step(p, Read(p, none), a) BY <1>3, <1>4, ReadOne
<1>6. Read(p, none) = Blank BY <1>1, ReadEmpty
<1> QED BY <1>2, <1>4, <1>5, <1>6, NoiseStep

\* The text of an Anthropic stream: one block, a delta for each chunk.
LEMMA DeltasRead ==
  ASSUME NEW p, p = "anthropic", NEW chunks, IsList(chunks), \A k \in DOMAIN chunks : chunks[k] \in Seq(Symbols),
         NEW deltas, IsList(deltas), Len(deltas) = Len(chunks),
         \A k \in DOMAIN chunks : deltas[k] = [type |-> "text_delta", index |-> 0, text |-> chunks[k]],
         NEW x, x = <<Noise>>, NEW y, y = <<Block(0, "text", Unset)>>, NEW head, head = Glued(x, y),
         NEW t, t = Glued(head, deltas)
  PROVE  Holds(Read(p, t), Joined(chunks), <<>>, 1) /\ IsList(t) /\ IsList(head)
<1>1. PICK m \in Nat : m = Len(chunks) /\ DOMAIN chunks = 1 .. m BY ListHas
<1>3. IsList(deltas) /\ Len(deltas) = m BY <1>1
<1> DEFINE Upto(n) == Glued(head, First(deltas, n))
           P == {n \in 0 .. m : /\ Holds(Read(p, Upto(n)), Joined(First(chunks, n)), <<>>, 1) /\ IsList(Upto(n))
                                /\ OfType(Read(p, Upto(n)), "text") = <<0>>}
<1>4. p \in Dialects BY DEF Dialects
<1>5. Read(p, x) = Blank /\ IsList(x) BY <1>4, NoiseRead
<1>6. PICK q : q = Opened(Blank, 0, "text", Unset) OBVIOUS
<1>7. Read(p, head) = q /\ IsList(head)
  <2>1. PICK a : a = Block(0, "text", Unset) OBVIOUS
  <2>2. Read(p, head) = Step(p, Read(p, x), a) /\ IsList(head) BY <1>5, <2>1, ReadOne
  <2>3. a.type = "content_block_start" /\ a.index = 0 /\ a.block = "text" /\ a.name = Unset BY <2>1 DEF Block
  <2>4. PICK b : b = Blank OBVIOUS
  <2>5. AnthropicStep(b, a) = Opened(b, 0, "text", Unset) BY <2>3 DEF AnthropicStep
  <2> QED BY <1>5, <1>6, <2>2, <2>4, <2>5, StepIs
<1>8. Holds(q, <<>>, <<>>, 1) /\ OfType(q, "text") = <<0>>
  <2>1. Sound(Blank) /\ TellsText(Blank, <<>>) /\ TellsCalls(Blank, <<>>) BY BlankTells
  <2>2. Blank.items = <<>> /\ Blank.order = <<>> /\ Blank.finish = Unset /\ Blank.failed = FALSE BY DEF Blank
  <2>3. 0 \in Nat /\ 0 \notin DOMAIN Blank.items /\ DOMAIN Blank.items = {} BY <2>2
  <2>4. TellsText(q, <<>>) /\ TellsCalls(q, <<>>) BY <1>6, <2>1, <2>3, TextOpened
  <2>5. Unset \in Symbols BY DEF Symbols
  <2>6. /\ Sound(q) /\ q.finish = Blank.finish /\ q.failed = Blank.failed
        /\ DOMAIN q.items = {0} \cup DOMAIN Blank.items
        /\ OfType(q, "text") = Append(OfType(Blank, "text"), 0)
    <3>1. PICK b : b = Blank OBVIOUS
    <3>2. Sound(b) /\ 0 \notin DOMAIN b.items /\ q = Opened(b, 0, "text", Unset) BY <1>6, <2>1, <2>3, <3>1
    <3>3. /\ Sound(q) /\ q.finish = b.finish /\ q.failed = b.failed
          /\ DOMAIN q.items = {0} \cup DOMAIN b.items
          /\ OfType(q, "text") = Append(OfType(b, "text"), 0)
      BY <2>5, <3>2, OpenedIs
    <3> QED BY <3>1, <3>3
  <2>7. OfType(Blank, "text") = <<>> BY <2>2, OfTypeEmpty
  <2>8. Append(<<>>, 0) = <<0>> OBVIOUS
  <2> QED BY <2>2, <2>3, <2>4, <2>6, <2>7, <2>8 DEF Holds
<1>9. 0 \in P
  <2>1. First(deltas, 0) = <<>> /\ First(chunks, 0) = <<>> BY <1>3, FirstAll
  <2>2. Upto(0) = head BY <1>7, <2>1, ListNone
  <2> QED BY <1>1, <1>7, <1>8, <2>1, <2>2, JoinedEmpty
<1>10. ASSUME NEW n \in 0 .. (m - 1), n \in P PROVE n + 1 \in P
  <2>1. n \in Nat /\ n \in 0 .. m /\ n + 1 \in 1 .. m /\ n + 1 \in 0 .. m BY <1>1
  <2>2. PICK s : s = Upto(n) OBVIOUS
  <2>3. PICK r : r = Read(p, s) OBVIOUS
  <2>4. PICK text : text = Joined(First(chunks, n)) OBVIOUS
  <2>5. Holds(r, text, <<>>, 1) /\ IsList(s) /\ OfType(r, "text") = <<0>> BY <1>10, <2>2, <2>3, <2>4
  <2>6. PICK c : c = chunks[n + 1] OBVIOUS
  <2>7. c \in Seq(Symbols) BY <1>1, <2>1, <2>6
  <2>8. PICK longer : longer = Glued(text, c) OBVIOUS
  <2>9. Joined(First(chunks, n + 1)) = longer
    <3>1. n \in 0 .. (Len(chunks) - 1) BY <1>1
    <3> QED BY <2>4, <2>6, <2>8, <3>1, JoinedFirst
  <2>10. PICK d : d = [type |-> "text_delta", index |-> 0, text |-> c] OBVIOUS
  <2>11. deltas[n + 1] = d BY <1>1, <2>1, <2>6, <2>10
  <2>12. PICK u : u = <<d>> OBVIOUS
  <2>13. Upto(n + 1) = Glued(s, u)
    <3>1. PICK a : a = First(deltas, n) OBVIOUS
    <3>2. n \in 0 .. Len(deltas) /\ n \in 0 .. (Len(deltas) - 1) BY <1>3, <2>1
    <3>3. IsList(a) BY <1>3, <3>1, <3>2, FirstIs
    <3>4. First(deltas, n + 1) = Append(a, d)
      <4>1. PICK x1 : x1 = deltas[n + 1] OBVIOUS
      <4>2. First(deltas, n + 1) = Append(a, x1) BY <1>3, <3>1, <4>1, FirstGrows
      <4> QED BY <2>11, <4>1, <4>2
    <3>5. Append(a, d) = Glued(a, u) /\ IsList(u) BY <2>12, <3>3, ListOne
    <3>6. Glued(Glued(head, a), u) = Glued(head, Glued(a, u)) BY <1>7, <3>3, <3>5, ListRegrouped
    <3> QED BY <2>2, <3>1, <3>4, <3>5, <3>6
  <2>14. PICK w : w = Glued(s, u) OBVIOUS
  <2>15. PICK z : z = TextTo(r, 0, c) OBVIOUS
  <2>16. Read(p, w) = z /\ IsList(w)
    <3>1. Read(p, w) = Step(p, r, d) /\ IsList(w) BY <2>3, <2>5, <2>12, <2>14, ReadOne
    <3>2. d.type = "text_delta" /\ d.index = 0 /\ d.text = c BY <2>10
    <3>3. AnthropicStep(r, d) = z BY <2>15, <3>2 DEF AnthropicStep
    <3> QED BY <3>1, <3>3, StepIs
  <2>17. Sound(r) /\ TellsText(r, text) /\ TellsCalls(r, <<>>) /\ r.finish = Unset /\ r.failed = FALSE BY <2>5 DEF Holds
  <2>18. PICK v : v = <<0>> OBVIOUS
  <2>19. v = OfType(r, "text") /\ v # <<>> /\ v[Len(v)] = 0 BY <2>5, <2>18
  <2>20. /\ Sound(z) /\ SameBlocks(z, r) /\ TellsText(z, longer) /\ TellsCalls(z, <<>>)
         /\ z.finish = r.finish /\ z.failed = r.failed
    <3>1. PICK i : i = v[Len(v)] OBVIOUS
    <3>2. z = TextTo(r, i, c) BY <2>15, <2>19, <3>1
    <3> QED BY <2>7, <2>8, <2>17, <2>19, <3>1, <3>2, TextGrown
  <2>21. OfType(z, "text") = <<0>> BY <2>5, <2>17, <2>20, SameBlocksTypes
  <2>22. Holds(z, longer, <<>>, 1)
    <3>1. \A i \in DOMAIN z.items : i < 1 BY <2>5, <2>20 DEF SameBlocks, Holds
    <3> QED BY <2>17, <2>20, <3>1 DEF Holds
  <2> QED BY <2>1, <2>9, <2>13, <2>14, <2>16, <2>21, <2>22
<1> HIDE DEF P
<1>11. \A n \in 0 .. m : n \in P BY <1>9, <1>10, SetInduction
<1>12. m \in P BY <1>11
<1>13. First(deltas, m) = deltas /\ First(chunks, m) = chunks BY <1>1, <1>3, FirstAll
<1> QED BY <1>3, <1>7, <1>12, <1>13 DEF P

(***************************************************************************)
(* Codec: the encoders whose arguments are fragments                       *)
(***************************************************************************)

\* What is written of the calls of a turn where arguments are a string.
Canonized(tools) == [k \in DOMAIN tools |-> ToolCall(tools[k].name, tools[k].args)]

\* The canonical form of a document is made of fragments.
LEMMA CanonicalFragments == ASSUME NEW args \in Seq(Symbols) PROVE Canonicalize(args) \in Seq(Symbols)
<1>1. CASE Valid(args)
  <2>1. Canon[args] \in DOMAIN Canon BY <1>1, CanonAssumption DEF Valid
  <2>2. Canon[args] \in Seq(Symbols) BY <2>1, DocumentFragments
  <2> QED BY <1>1, <2>2 DEF Canonicalize
<1>2. CASE ~Valid(args) BY <1>2 DEF Canonicalize
<1> QED BY <1>1, <1>2

\* The calls as they are written.
LEMMA CanonizedIs ==
  ASSUME NEW tools \in Seq(ToolCalls), NEW w, w = Canonized(tools)
  PROVE  /\ w \in Seq(ToolCalls) /\ Len(w) = Len(tools) /\ DOMAIN w = DOMAIN tools
         /\ \A k \in DOMAIN tools : w[k].name = tools[k].name /\ w[k].args = Canonicalize(tools[k].args)
<1>1. PICK n \in Nat : Len(tools) = n /\ DOMAIN tools = 1 .. n BY LenProperties
<1>2. DOMAIN w = 1 .. n /\ w = [k \in 1 .. n |-> w[k]] BY <1>1 DEF Canonized
<1>3. ASSUME NEW k \in 1 .. n
      PROVE  w[k] \in ToolCalls /\ w[k].name = tools[k].name /\ w[k].args = Canonicalize(tools[k].args)
  <2>1. PICK c : c = tools[k] OBVIOUS
  <2>2. c \in ToolCalls BY <1>1, <2>1, ElementOfSeq
  <2>3. c.name \in Symbols /\ c.args \in Seq(Symbols) BY <2>2, CallIs
  <2>4. PICK args : args = Canonicalize(c.args) OBVIOUS
  <2>5. args \in Seq(Symbols) BY <2>3, <2>4, CanonicalFragments
  <2>6. w[k] = [name |-> c.name, args |-> args] BY <1>1, <2>1, <2>4 DEF Canonized, ToolCall
  <2> QED BY <2>1, <2>3, <2>4, <2>5, <2>6 DEF ToolCalls
<1>4. w \in [1 .. n -> ToolCalls] BY <1>2, <1>3
<1>5. w \in Seq(ToolCalls) BY <1>4, SeqDef
<1>6. Len(w) = n BY <1>2, <1>5, LenProperties
<1> QED BY <1>1, <1>2, <1>3, <1>5, <1>6

\* The event that ends a turn.
LEMMA EndStep ==
  ASSUME NEW r \in Accs, NEW reason
  PROVE  /\ AnthropicStep(r, [type |-> "message_delta", finish |-> reason]) = Finished(r, reason)
         /\ OpenAIChatStep(r, Chunk(<<>>, <<>>, reason)) = Finished(r, reason)
         /\ OpenAIResponsesStep(r, [type |-> "response.completed", finish |-> reason]) = Finished(r, reason)
<1>1. Spoken(r, <<>>) = r BY SpokenNothing
<1>2. PICK none : none = <<>> OBVIOUS
<1>3. OpenAIChatStep(r, Chunk(none, none, reason)) = Finished(Folded(ChatCall, Spoken(r, none), none), reason)
  BY ChatStepIs
<1>4. Folded(ChatCall, Spoken(r, none), none) = Spoken(r, none) BY <1>2, NoChatCall
<1>5. OpenAIChatStep(r, Chunk(<<>>, <<>>, reason)) = Finished(r, reason) BY <1>1, <1>2, <1>3, <1>4
<1>6. AnthropicStep(r, [type |-> "message_delta", finish |-> reason]) = Finished(r, reason) BY DEF AnthropicStep
<1>7. OpenAIResponsesStep(r, [type |-> "response.completed", finish |-> reason]) = Finished(r, reason)
  BY DEF OpenAIResponsesStep
<1> QED BY <1>5, <1>6, <1>7

\* The pieces of the calls, a reason, and nothing that counts after it.
LEMMA TurnRead ==
  ASSUME NEW p \in Fragmented, NEW head, IsList(head), NEW text, NEW base \in Nat,
         Holds(Read(p, head), text, <<>>, base),
         NEW w \in Seq(ToolCalls), NEW ss, IsList(ss), Len(ss) = Len(w),
         \A k \in 1 .. Len(w) : ss[k] = Piece(p, base + k - 1, w[k].name, w[k].args),
         NEW reason \in Symbols, NEW e, \A r \in Accs : Step(p, r, e) = Finished(r, reason),
         NEW end, end = <<e>> \/ end = <<e, Noise>>,
         NEW t, t = Glued(Glued(head, Joined(ss)), end)
  PROVE  Back(Read(p, t), text, w, reason)
<1>1. PICK s : s = Glued(head, Joined(ss)) OBVIOUS
<1>2. PICK next : next = base + Len(w) OBVIOUS
<1>3. Holds(Read(p, s), text, w, next) /\ IsList(s) BY <1>1, <1>2, CallsRead
<1>4. PICK r : r = Read(p, s) OBVIOUS
<1>5. r \in Accs BY <1>3, <1>4 DEF Holds, Sound
<1>6. PICK q : q = Finished(r, reason) OBVIOUS
<1>7. Back(q, text, w, reason) BY <1>3, <1>4, <1>6, HeldBack
<1>8. q = Step(p, r, e) BY <1>5, <1>6
<1>9. t = Glued(s, end) BY <1>1
<1>10. CASE end = <<e>>
  <2>1. Read(p, t) = Step(p, Read(p, s), e) BY <1>3, <1>9, <1>10, ReadOne
  <2> QED BY <1>4, <1>7, <1>8, <2>1
<1>11. CASE end = <<e, Noise>>
  <2>1. PICK b : b = Noise OBVIOUS
  <2>2. end = <<e, b>> BY <1>11, <2>1
  <2>3. q = Step(p, Read(p, s), e) BY <1>4, <1>8
  <2>4. Read(p, t) = Step(p, q, b) BY <1>3, <1>9, <2>2, <2>3, ReadTwo
  <2>5. p \in Dialects BY DEF Dialects, Fragmented
  <2>6. Step(p, q, b) = q BY <2>1, <2>5, NoiseStep
  <2> QED BY <1>7, <2>4, <2>6
<1> QED BY <1>10, <1>11

\* The pieces of the calls of a turn.
PiecesOf(p, base, w) == [k \in DOMAIN w |-> Piece(p, base + k - 1, w[k].name, w[k].args)]

\* Their pieces.
LEMMA PiecesAre ==
  ASSUME NEW p, NEW base, NEW w \in Seq(ToolCalls), NEW ss, ss = PiecesOf(p, base, w)
  PROVE  /\ IsList(ss) /\ Len(ss) = Len(w)
         /\ \A k \in 1 .. Len(w) : ss[k] = Piece(p, base + k - 1, w[k].name, w[k].args)
<1>1. PICK n \in Nat : Len(w) = n /\ DOMAIN w = 1 .. n BY LenProperties
<1>2. DOMAIN ss = 1 .. n /\ ss = [k \in DOMAIN ss |-> ss[k]] BY <1>1 DEF PiecesOf
<1>3. ss \in Seq(Range(ss)) /\ Len(ss) = n BY <1>2, ListOf
<1> QED BY <1>1, <1>3 DEF PiecesOf, IsList

\* What comes first in a stream of Anthropic, and what a turn is written as after it.
TextBlock(chunks) ==
  Glued(Glued(<<Block(0, "text", Unset)>>,
              [k \in DOMAIN chunks |-> [type |-> "text_delta", index |-> 0, text |-> chunks[k]]]), <<Noise>>)

\* The head of a stream of Anthropic, and the index of its first call.
AnthropicHead(chunks) == Glued(<<Noise>>, IF chunks = <<>> THEN <<>> ELSE TextBlock(chunks))

FirstCall(chunks) == IF chunks = <<>> THEN 0 ELSE 1

\* A stream of Anthropic, in pieces.
LEMMA AnthropicIs ==
  ASSUME NEW chunks, NEW tools \in Seq(ToolCalls), NEW reason
  PROVE  AnthropicStream(chunks, tools, reason)
           = Glued(Glued(AnthropicHead(chunks), Joined(PiecesOf("anthropic", FirstCall(chunks), Canonized(tools)))),
                   <<[type |-> "message_delta", finish |-> reason], Noise>>)
<1>1. PICK w : w = Canonized(tools) OBVIOUS
<1>2. PICK base : base = FirstCall(chunks) OBVIOUS
<1>3. /\ DOMAIN w = DOMAIN tools
      /\ \A k \in DOMAIN tools : w[k].name = tools[k].name /\ w[k].args = Canonicalize(tools[k].args)
  BY <1>1, CanonizedIs
<1>4. PiecesOf("anthropic", base, w)
        = [k \in DOMAIN tools |->
              <<Block(base + k - 1, "tool", tools[k].name),
                [type |-> "input_json_delta", index |-> base + k - 1, args |-> Canonicalize(tools[k].args)], Noise>>]
  BY <1>3 DEF PiecesOf, Piece
<1> QED BY <1>1, <1>2, <1>4 DEF AnthropicStream, AnthropicHead, FirstCall, TextBlock, Glued

\* It is read back.
LEMMA AnthropicRead ==
  ASSUME NEW chunks, IsList(chunks), \A k \in DOMAIN chunks : chunks[k] \in Seq(Symbols),
         NEW tools \in Seq(ToolCalls), NEW reason \in Symbols, NEW w, w = Canonized(tools)
  PROVE  Back(Read("anthropic", AnthropicStream(chunks, tools, reason)), Joined(chunks), w, reason)
<1>1. PICK base \in Nat : base = IF chunks = <<>> THEN 0 ELSE 1 OBVIOUS
<1>2. PICK text : text = IF chunks = <<>> THEN <<>> ELSE TextBlock(chunks) OBVIOUS
<1>3. PICK p : p = "anthropic" OBVIOUS
<1>4. PICK noise : noise = <<Noise>> OBVIOUS
<1>5. PICK head : head = Glued(noise, text) OBVIOUS
<1>6. PICK words : words = Joined(chunks) OBVIOUS
<1>7. Read(p, noise) = Blank /\ IsList(noise) BY <1>3, <1>4, NoiseRead DEF Dialects
<1>8. Holds(Read(p, head), words, <<>>, base) /\ IsList(head)
  <2>1. CASE chunks = <<>>
    <3>1. text = <<>> /\ base = 0 BY <1>1, <1>2, <2>1
    <3>2. head = noise BY <1>5, <1>7, <3>1, ListNone
    <3>3. words = <<>> BY <1>6, <2>1, JoinedEmpty
    <3>4. Holds(Blank, <<>>, <<>>, 0) BY BlankHolds
    <3> QED BY <1>7, <3>1, <3>2, <3>3, <3>4
  <2>2. CASE chunks # <<>>
    <3>1. text = TextBlock(chunks) /\ base = 1 BY <1>1, <1>2, <2>2
    <3>2. PICK y : y = <<Block(0, "text", Unset)>> OBVIOUS
    <3>3. PICK deltas : deltas = [k \in DOMAIN chunks |-> [type |-> "text_delta", index |-> 0, text |-> chunks[k]]] OBVIOUS
    <3>4. text = Glued(Glued(y, deltas), noise) BY <1>4, <3>1, <3>2, <3>3 DEF TextBlock
    <3>5. PICK n \in Nat : n = Len(chunks) /\ DOMAIN chunks = 1 .. n BY ListHas
    <3>6. /\ DOMAIN deltas = 1 .. n /\ deltas = [k \in DOMAIN deltas |-> deltas[k]]
          /\ \A k \in DOMAIN chunks : deltas[k] = [type |-> "text_delta", index |-> 0, text |-> chunks[k]]
      BY <3>3, <3>5
    <3>7. IsList(deltas) /\ Len(deltas) = Len(chunks) BY <3>5, <3>6, ListOf DEF IsList
    <3>8. PICK start : start = Glued(noise, y) OBVIOUS
    <3>9. PICK t : t = Glued(start, deltas) OBVIOUS
    <3>10. Holds(Read(p, t), words, <<>>, 1) /\ IsList(t) /\ IsList(start)
      <4>1. \A k \in DOMAIN chunks : deltas[k] = [type |-> "text_delta", index |-> 0, text |-> chunks[k]] BY <3>6
      <4> QED BY <1>3, <1>4, <1>6, <3>2, <3>7, <3>8, <3>9, <4>1, DeltasRead
    <3>11. IsList(y) BY <3>2, ListOne
    <3>12. head = Glued(t, noise)
      <4>1. PICK z : z = Glued(y, deltas) OBVIOUS
      <4>2. IsList(z) BY <3>7, <3>11, <4>1, ListGlued
      <4>3. Glued(Glued(noise, z), noise) = Glued(noise, Glued(z, noise)) BY <1>7, <4>2, ListRegrouped
      <4>4. Glued(Glued(noise, y), deltas) = Glued(noise, Glued(y, deltas)) BY <1>7, <3>7, <3>11, ListRegrouped
      <4> QED BY <1>5, <3>4, <3>8, <3>9, <4>1, <4>3, <4>4
    <3>13. PICK b : b = Noise OBVIOUS
    <3>14. noise = <<b>> BY <1>4, <3>13
    <3>15. Read(p, head) = Step(p, Read(p, t), b) /\ IsList(head) BY <3>10, <3>12, <3>14, ReadOne
    <3>16. p \in Dialects BY <1>3 DEF Dialects
    <3>17. Step(p, Read(p, t), b) = Read(p, t)
      <4>1. PICK r : r = Read(p, t) OBVIOUS
      <4>2. Step(p, r, Noise) = r BY <3>16, NoiseStep
      <4> QED BY <3>13, <4>1, <4>2
    <3> QED BY <3>1, <3>10, <3>15, <3>17
  <2> QED BY <2>1, <2>2
<1>9. w \in Seq(ToolCalls) BY CanonizedIs
<1>10. PICK ss : ss = PiecesOf(p, base, w) OBVIOUS
<1>11. /\ IsList(ss) /\ Len(ss) = Len(w)
       /\ \A k \in 1 .. Len(w) : ss[k] = Piece(p, base + k - 1, w[k].name, w[k].args)
  BY <1>9, <1>10, PiecesAre
<1>12. PICK e : e = [type |-> "message_delta", finish |-> reason] OBVIOUS
<1>13. PICK end : end = <<e, Noise>> OBVIOUS
<1>14. PICK t : t = Glued(Glued(head, Joined(ss)), end) OBVIOUS
<1>15. AnthropicStream(chunks, tools, reason) = t
  <2>1. ss = PiecesOf("anthropic", base, w) BY <1>3, <1>10
  <2>2. AnthropicStream(chunks, tools, reason)
          = Glued(Glued(AnthropicHead(chunks), Joined(PiecesOf("anthropic", FirstCall(chunks), Canonized(tools)))),
                   <<[type |-> "message_delta", finish |-> reason], Noise>>)
    BY AnthropicIs
  <2>3. AnthropicHead(chunks) = head BY <1>2, <1>4, <1>5 DEF AnthropicHead
  <2>4. FirstCall(chunks) = base BY <1>1 DEF FirstCall
  <2> QED BY <1>12, <1>13, <1>14, <2>1, <2>2, <2>3, <2>4
<1>16. ASSUME NEW r \in Accs PROVE Step(p, r, e) = Finished(r, reason)
  <2>1. AnthropicStep(r, e) = Finished(r, reason) BY <1>12, EndStep
  <2> QED BY <1>3, <2>1, StepIs
<1>17. p \in Fragmented BY <1>3 DEF Fragmented
<1>18. Back(Read(p, t), words, w, reason) BY <1>8, <1>9, <1>11, <1>13, <1>14, <1>16, <1>17, TurnRead
<1> QED BY <1>3, <1>6, <1>15, <1>18

\* Something that is written for a text that is not empty.
Once(text, e) == [k \in DOMAIN Whole(text) |-> e]

\* It is a list of one or of none.
LEMMA OnceIs ==
  ASSUME NEW text, NEW e, NEW s, s = Once(text, e)
  PROVE  /\ text = <<>> => s = <<>> /\ Whole(text) = <<>> /\ Len(Whole(text)) = 0
         /\ text # <<>> => s = <<e>> /\ Whole(text) = <<text>> /\ Len(Whole(text)) = 1
<1>1. CASE text = <<>>
  <2>1. Whole(text) = <<>> BY <1>1 DEF Whole
  <2>2. Len(Whole(text)) = 0 /\ DOMAIN Whole(text) = {} BY <2>1
  <2>3. s = <<>> BY <2>2 DEF Once
  <2> QED BY <1>1, <2>1, <2>2, <2>3
<1>2. CASE text # <<>>
  <2>1. Whole(text) = <<text>> BY <1>2 DEF Whole
  <2>2. Len(Whole(text)) = 1 /\ DOMAIN Whole(text) = 1 .. 1 BY <2>1
  <2>3. DOMAIN s = 1 .. 1 /\ s = [k \in DOMAIN s |-> s[k]] /\ s[1] = e BY <2>2 DEF Once
  <2>4. PICK u : u = <<e>> OBVIOUS
  <2>5. u \in Seq({e}) /\ DOMAIN u = 1 .. 1 /\ u = [k \in DOMAIN u |-> u[k]] /\ u[1] = e BY <2>4
  <2>6. s = u BY <2>3, <2>5
  <2> QED BY <1>2, <2>1, <2>2, <2>4, <2>6
<1> QED BY <1>1, <1>2

\* A text outside of blocks.
LEMMA SpokenHolds ==
  ASSUME NEW text \in Seq(Symbols), NEW q, q = Spoken(Blank, text), NEW n \in Nat
  PROVE  Holds(q, text, <<>>, n) /\ OfType(q, "text") = <<>> /\ q.items = <<>> /\ q.order = <<>>
<1>1. PICK b : b = Blank OBVIOUS
<1>2. PICK none : none = <<>> OBVIOUS
<1>3. Sound(b) /\ TellsText(b, none) /\ TellsCalls(b, <<>>) BY <1>1, <1>2, BlankTells
<1>4. b.items = <<>> /\ b.order = <<>> /\ b.finish = Unset /\ b.failed = FALSE BY <1>1 DEF Blank
<1>5. OfType(b, "text") = <<>> BY <1>4, OfTypeEmpty
<1>6. PICK longer : longer = Glued(none, text) OBVIOUS
<1>7. longer = text
  <2>1. IsList(text) BY ListIn
  <2> QED BY <1>2, <1>6, <2>1, ListNone
<1>8. q = Spoken(b, text) BY <1>1
<1>9. /\ Sound(q) /\ TellsText(q, longer) /\ TellsCalls(q, <<>>) /\ SameBlocks(q, b)
      /\ q.items = b.items /\ q.finish = b.finish /\ q.failed = b.failed
      /\ OfType(q, "text") = <<>>
  BY <1>3, <1>5, <1>6, <1>8, SpokenTells
<1>10. q.order = <<>> BY <1>4, <1>9 DEF SameBlocks
<1>11. \A i \in DOMAIN q.items : i < n BY <1>4, <1>9
<1> QED BY <1>4, <1>7, <1>9, <1>10, <1>11 DEF Holds

\* A stream of the chat API, in pieces.
LEMMA ChatIs ==
  ASSUME NEW text, NEW tools \in Seq(ToolCalls), NEW reason
  PROVE  EncodeOpenAIChat(Transcript(text, tools, reason))
           = Glued(Glued(Glued(<<Chunk(<<>>, <<>>, Unset)>>, Once(text, Chunk(text, <<>>, Unset))),
                         Joined(PiecesOf("openai-chat", 1, Canonized(tools)))),
                   <<Chunk(<<>>, <<>>, reason), Noise>>)
<1>1. PICK w : w = Canonized(tools) OBVIOUS
<1>2. PICK base \in Nat : base = 1 OBVIOUS
<1>3. /\ DOMAIN w = DOMAIN tools
      /\ \A k \in DOMAIN tools : w[k].name = tools[k].name /\ w[k].args = Canonicalize(tools[k].args)
  BY <1>1, CanonizedIs
<1>4. PICK n \in Nat : DOMAIN tools = 1 .. n BY LenProperties
<1>5. \A k \in DOMAIN tools : base + k - 1 = k BY <1>2, <1>4
<1>6. PiecesOf("openai-chat", base, w)
        = [k \in DOMAIN tools |->
             <<Chunk(<<>>, <<[index |-> k, name |-> tools[k].name, args |-> <<>>]>>, Unset),
               Chunk(<<>>, <<[index |-> k, name |-> Unset, args |-> Canonicalize(tools[k].args)]>>, Unset)>>]
  BY <1>3, <1>5 DEF PiecesOf, Piece
<1>7. PICK t : t = Transcript(text, tools, reason) OBVIOUS
<1>8. t.text = text /\ t.tools = tools /\ t.finish = reason BY <1>7 DEF Transcript
<1> QED BY <1>1, <1>2, <1>6, <1>7, <1>8 DEF EncodeOpenAIChat, Once, Glued

\* It is read back.
LEMMA ChatRead ==
  ASSUME NEW text \in Seq(Symbols), NEW tools \in Seq(ToolCalls), NEW reason \in Symbols, NEW w, w = Canonized(tools)
  PROVE  Back(Read("openai-chat", EncodeOpenAIChat(Transcript(text, tools, reason))), text, w, reason)
<1>1. PICK p : p = "openai-chat" OBVIOUS
<1>2. PICK a : a = Chunk(<<>>, <<>>, Unset) OBVIOUS
<1>3. PICK c : c = Chunk(text, <<>>, Unset) OBVIOUS
<1>4. PICK start : start = <<a>> OBVIOUS
<1>5. PICK said1 : said1 = Once(text, c) OBVIOUS
<1>6. PICK head : head = Glued(start, said1) OBVIOUS
<1>7. PICK q : q = Spoken(Blank, text) OBVIOUS
<1>8. Blank \in Accs BY BlankTells DEF Sound
<1>9. Read(p, start) = Blank /\ IsList(start)
  <2>1. PICK none : none = <<>> OBVIOUS
  <2>2. IsList(start) BY <1>4, ListOne
  <2>3. IsList(none) /\ start = Glued(none, start) BY <2>1, <2>2, ListNone
  <2>4. Read(p, start) = Step(p, Read(p, none), a) BY <1>4, <2>3, ReadOne
  <2>5. Read(p, none) = Blank BY <2>1, ReadEmpty
  <2>6. PICK b : b = Blank OBVIOUS
  <2>7. b \in Accs BY <1>8, <2>6
  <2>8. OpenAIChatStep(b, Chunk(none, <<>>, Unset)) = Spoken(b, none) BY <2>7, SaysStep
  <2>9. Spoken(b, none) = b BY <2>1, <2>7, SpokenNothing
  <2>10. Step(p, b, a) = b BY <1>1, <1>2, <2>1, <2>8, <2>9, StepIs
  <2> QED BY <2>2, <2>4, <2>5, <2>6, <2>10
<1>10. Read(p, head) = q /\ IsList(head)
  <2>1. CASE text = <<>>
    <3>1. said1 = <<>> BY <1>5, <2>1, OnceIs
    <3>2. head = start BY <1>6, <1>9, <3>1, ListNone
    <3>3. q = Blank BY <1>7, <1>8, <2>1, SpokenNothing
    <3> QED BY <1>9, <3>2, <3>3
  <2>2. CASE text # <<>>
    <3>1. said1 = <<c>> BY <1>5, <2>2, OnceIs
    <3>2. Read(p, head) = Step(p, Read(p, start), c) /\ IsList(head) BY <1>6, <1>9, <3>1, ReadOne
    <3>3. PICK b : b = Blank OBVIOUS
    <3>4. OpenAIChatStep(b, Chunk(text, <<>>, Unset)) = Spoken(b, text) BY <1>8, <3>3, SaysStep
    <3>5. Step(p, b, c) = q BY <1>1, <1>3, <1>7, <3>3, <3>4, StepIs
    <3> QED BY <1>9, <3>2, <3>3, <3>5
  <2> QED BY <2>1, <2>2
<1>11. PICK base \in Nat : base = 1 OBVIOUS
<1>12. Holds(q, text, <<>>, base) BY <1>7, SpokenHolds
<1>13. w \in Seq(ToolCalls) BY CanonizedIs
<1>14. PICK ss : ss = PiecesOf(p, base, w) OBVIOUS
<1>15. /\ IsList(ss) /\ Len(ss) = Len(w)
       /\ \A k \in 1 .. Len(w) : ss[k] = Piece(p, base + k - 1, w[k].name, w[k].args)
  BY <1>13, <1>14, PiecesAre
<1>16. PICK e : e = Chunk(<<>>, <<>>, reason) OBVIOUS
<1>17. PICK end : end = <<e, Noise>> OBVIOUS
<1>18. PICK t : t = Glued(Glued(head, Joined(ss)), end) OBVIOUS
<1>19. EncodeOpenAIChat(Transcript(text, tools, reason)) = t
  <2>1. EncodeOpenAIChat(Transcript(text, tools, reason))
          = Glued(Glued(Glued(<<Chunk(<<>>, <<>>, Unset)>>, Once(text, Chunk(text, <<>>, Unset))),
                         Joined(PiecesOf("openai-chat", 1, Canonized(tools)))),
                   <<Chunk(<<>>, <<>>, reason), Noise>>)
    BY ChatIs
  <2> QED BY <1>1, <1>2, <1>3, <1>4, <1>5, <1>6, <1>11, <1>14, <1>16, <1>17, <1>18, <2>1
<1>20. ASSUME NEW r \in Accs PROVE Step(p, r, e) = Finished(r, reason)
  <2>1. OpenAIChatStep(r, e) = Finished(r, reason) BY <1>16, EndStep
  <2> QED BY <1>1, <2>1, StepIs
<1>21. p \in Fragmented BY <1>1 DEF Fragmented
<1>22. Holds(Read(p, head), text, <<>>, base) BY <1>10, <1>12
<1>23. Back(Read(p, t), text, w, reason) BY <1>10, <1>13, <1>15, <1>17, <1>18, <1>20, <1>21, <1>22, TurnRead
<1> QED BY <1>1, <1>19, <1>23

\* The message of a stream of the responses API.
WholeMessage(text) ==
  <<[type |-> "response.output_item.added", index |-> 0, item |-> "message", name |-> Unset],
    [type |-> "response.output_text.delta", text |-> text]>>

\* A stream of the responses API, in pieces.
LEMMA ResponsesIs ==
  ASSUME NEW text, NEW tools \in Seq(ToolCalls), NEW reason
  PROVE  EncodeOpenAIResponses(Transcript(text, tools, reason))
           = Glued(Glued(Glued(<<Noise>>, Joined(Once(text, WholeMessage(text)))),
                         Joined(PiecesOf("openai-responses", Len(Whole(text)), Canonized(tools)))),
                   <<[type |-> "response.completed", finish |-> reason]>>)
<1>1. PICK w : w = Canonized(tools) OBVIOUS
<1>2. PICK base : base = Len(Whole(text)) OBVIOUS
<1>3. /\ DOMAIN w = DOMAIN tools
      /\ \A k \in DOMAIN tools : w[k].name = tools[k].name /\ w[k].args = Canonicalize(tools[k].args)
  BY <1>1, CanonizedIs
<1>4. PiecesOf("openai-responses", base, w)
        = [k \in DOMAIN tools |->
             <<[type |-> "response.output_item.added", index |-> base + k - 1, item |-> "function_call",
                name |-> tools[k].name],
               [type |-> "response.function_call_arguments.delta", index |-> base + k - 1,
                args |-> Canonicalize(tools[k].args)]>>]
  BY <1>3 DEF PiecesOf, Piece
<1>5. PICK t : t = Transcript(text, tools, reason) OBVIOUS
<1>6. t.text = text /\ t.tools = tools /\ t.finish = reason BY <1>5 DEF Transcript
<1> QED BY <1>1, <1>2, <1>4, <1>5, <1>6 DEF EncodeOpenAIResponses, Once, WholeMessage, Glued

\* It is read back.
LEMMA ResponsesRead ==
  ASSUME NEW text \in Seq(Symbols), NEW tools \in Seq(ToolCalls), NEW reason \in Symbols, NEW w, w = Canonized(tools)
  PROVE  Back(Read("openai-responses", EncodeOpenAIResponses(Transcript(text, tools, reason))), text, w, reason)
<1>1. PICK p : p = "openai-responses" OBVIOUS
<1>2. PICK a : a = [type |-> "response.output_item.added", index |-> 0, item |-> "message", name |-> Unset] OBVIOUS
<1>3. PICK c : c = [type |-> "response.output_text.delta", text |-> text] OBVIOUS
<1>4. PICK start : start = <<Noise>> OBVIOUS
<1>5. PICK message : message = <<a, c>> OBVIOUS
<1>6. PICK said1 : said1 = Joined(Once(text, message)) OBVIOUS
<1>7. PICK head : head = Glued(start, said1) OBVIOUS
<1>8. PICK q : q = Spoken(Blank, text) OBVIOUS
<1>9. Blank \in Accs BY BlankTells DEF Sound
<1>10. Read(p, start) = Blank /\ IsList(start) BY <1>1, <1>4, NoiseRead DEF Dialects
<1>11. Read(p, head) = q /\ IsList(head)
  <2>1. CASE text = <<>>
    <3>1. Once(text, message) = <<>> BY <2>1, OnceIs
    <3>2. said1 = <<>> BY <1>6, <3>1, JoinedEmpty
    <3>3. head = start BY <1>7, <1>10, <3>2, ListNone
    <3>4. q = Blank BY <1>8, <1>9, <2>1, SpokenNothing
    <3> QED BY <1>10, <3>3, <3>4
  <2>2. CASE text # <<>>
    <3>1. PICK ss : ss = Once(text, message) OBVIOUS
    <3>2. ss = <<message>> BY <2>2, <3>1, OnceIs
    <3>3. IsList(message)
      <4>1. PICK x : x = <<a>> OBVIOUS
      <4>2. PICK y : y = <<c>> OBVIOUS
      <4> QED BY <1>5, <4>1, <4>2, ListTwo
    <3>4. said1 = message BY <1>6, <3>1, <3>2, <3>3, JoinedOne
    <3>5. PICK b : b = Blank OBVIOUS
    <3>6. OpenAIResponsesStep(b, a) = b
      <4>1. a.type = "response.output_item.added" /\ a.item = "message" BY <1>2
      <4> QED BY <4>1 DEF OpenAIResponsesStep
    <3>7. b = Step(p, Read(p, start), a) BY <1>1, <1>10, <3>5, <3>6, StepIs
    <3>8. Read(p, head) = Step(p, b, c) /\ IsList(head) BY <1>5, <1>7, <1>10, <3>4, <3>7, ReadTwo
    <3>9. OpenAIResponsesStep(b, [type |-> "response.output_text.delta", text |-> text]) = Spoken(b, text)
      BY <1>9, <3>5, SaysStep
    <3>10. Step(p, b, c) = q BY <1>1, <1>3, <1>8, <3>5, <3>9, StepIs
    <3> QED BY <3>8, <3>10
  <2> QED BY <2>1, <2>2
<1>12. PICK base \in Nat : base = Len(Whole(text))
  <2>1. Len(Whole(text)) = 0 \/ Len(Whole(text)) = 1
    <3>1. PICK s : s = Once(text, message) OBVIOUS
    <3> QED BY <3>1, OnceIs
  <2> QED BY <2>1
<1>13. Holds(q, text, <<>>, base) BY <1>8, SpokenHolds
<1>14. w \in Seq(ToolCalls) BY CanonizedIs
<1>15. PICK ss : ss = PiecesOf(p, base, w) OBVIOUS
<1>16. /\ IsList(ss) /\ Len(ss) = Len(w)
       /\ \A k \in 1 .. Len(w) : ss[k] = Piece(p, base + k - 1, w[k].name, w[k].args)
  BY <1>14, <1>15, PiecesAre
<1>17. PICK e : e = [type |-> "response.completed", finish |-> reason] OBVIOUS
<1>18. PICK end : end = <<e>> OBVIOUS
<1>19. PICK t : t = Glued(Glued(head, Joined(ss)), end) OBVIOUS
<1>20. EncodeOpenAIResponses(Transcript(text, tools, reason)) = t
  <2>1. EncodeOpenAIResponses(Transcript(text, tools, reason))
          = Glued(Glued(Glued(<<Noise>>, Joined(Once(text, WholeMessage(text)))),
                         Joined(PiecesOf("openai-responses", Len(Whole(text)), Canonized(tools)))),
                   <<[type |-> "response.completed", finish |-> reason]>>)
    BY ResponsesIs
  <2>2. WholeMessage(text) = message BY <1>2, <1>3, <1>5 DEF WholeMessage
  <2> QED BY <1>1, <1>4, <1>6, <1>7, <1>12, <1>15, <1>17, <1>18, <1>19, <2>1, <2>2
<1>21. ASSUME NEW r \in Accs PROVE Step(p, r, e) = Finished(r, reason)
  <2>1. OpenAIResponsesStep(r, e) = Finished(r, reason) BY <1>17, EndStep
  <2> QED BY <1>1, <2>1, StepIs
<1>22. p \in Fragmented BY <1>1 DEF Fragmented
<1>23. Holds(Read(p, head), text, <<>>, base) BY <1>11, <1>13
<1>24. Back(Read(p, t), text, w, reason) BY <1>11, <1>14, <1>16, <1>18, <1>19, <1>21, <1>22, <1>23, TurnRead
<1> QED BY <1>1, <1>20, <1>24

(***************************************************************************)
(* Codec: the encoders whose arguments are documents                       *)
(***************************************************************************)

\* The fold of Gemini, as an operator.
PartsFold(r, ss) == Folded(Part, r, ss)

\* The fold over the parts of a chunk, step by step.
LEMMA PartsDef ==
  ASSUME NEW r, NEW ss, Len(ss) \in Nat
  PROVE  \E f : /\ f = [k \in 0 .. Len(ss) |-> IF k = 0 THEN r ELSE Part(f[k - 1], ss[k])]
               /\ PartsFold(r, ss) = f[Len(ss)]
<1> DEFINE Fold(g, m) == g = [k \in 0 .. m |-> IF k = 0 THEN r ELSE Part(g[k - 1], ss[k])]
           P == {m \in Nat : \E g : Fold(g, m)}
<1>1. 0 \in P
  <2>1. Fold([k \in 0 .. 0 |-> r], 0) OBVIOUS
  <2> QED BY <2>1
<1>2. ASSUME NEW m \in Nat, m \in P PROVE m + 1 \in P
  <2>1. PICK g : Fold(g, m) BY <1>2
  <2> DEFINE h == [k \in 0 .. (m + 1) |-> IF k <= m THEN g[k] ELSE Part(g[m], ss[(m + 1)])]
  <2>2. ASSUME NEW k \in 0 .. (m + 1)
        PROVE  h[k] = IF k = 0 THEN r ELSE Part(h[k - 1], ss[k])
    <3>1. CASE k = 0 BY <2>1, <3>1
    <3>2. CASE k \in 1 .. m
      <4>1. h[k] = g[k] /\ h[k - 1] = g[k - 1] BY <3>2
      <4>2. \A j \in 0 .. m : g[j] = IF j = 0 THEN r ELSE Part(g[j - 1], ss[j]) BY <2>1
      <4>3. g[k] = Part(g[k - 1], ss[k]) BY <3>2, <4>2
      <4> QED BY <3>2, <4>1, <4>3
    <3>3. CASE k = m + 1
      <4>1. h[k] = Part(g[m], ss[k]) /\ h[k - 1] = g[m] BY <3>3
      <4> QED BY <3>3, <4>1
    <3> QED BY <3>1, <3>2, <3>3
  <2>3. Fold(h, m + 1) BY <2>2
  <2> HIDE DEF h, Fold
  <2>4. \E x : Fold(x, m + 1) BY <2>3
  <2> QED BY <2>4
<1>3. Len(ss) \in P
  <2> HIDE DEF P
  <2>1. PICK l \in Nat : l = Len(ss) OBVIOUS
  <2>2. \A n \in 0 .. (l - 1) : n \in P => n + 1 \in P BY <1>2, <2>1
  <2>3. \A n \in 0 .. l : n \in P BY <1>1, <2>2, SetInduction
  <2> QED BY <2>1, <2>3
<1>4. PICK g : Fold(g, Len(ss)) BY <1>3
<1>5. PartsFold(r, ss) = (CHOOSE x : Fold(x, Len(ss)))[Len(ss)] BY DEF Folded, PartsFold
<1> HIDE DEF Fold
<1>6. Fold((CHOOSE x : Fold(x, Len(ss))), Len(ss)) BY <1>4
<1> QED BY <1>5, <1>6 DEF Fold

\* The fold of Ollama, as an operator.
CallsFold(r, ss) == Folded(OllamaCall, r, ss)

\* The fold over the calls of a line, step by step.
LEMMA OllamaCallsDef ==
  ASSUME NEW r, NEW ss, Len(ss) \in Nat
  PROVE  \E f : /\ f = [k \in 0 .. Len(ss) |-> IF k = 0 THEN r ELSE OllamaCall(f[k - 1], ss[k])]
               /\ CallsFold(r, ss) = f[Len(ss)]
<1> DEFINE Fold(g, m) == g = [k \in 0 .. m |-> IF k = 0 THEN r ELSE OllamaCall(g[k - 1], ss[k])]
           P == {m \in Nat : \E g : Fold(g, m)}
<1>1. 0 \in P
  <2>1. Fold([k \in 0 .. 0 |-> r], 0) OBVIOUS
  <2> QED BY <2>1
<1>2. ASSUME NEW m \in Nat, m \in P PROVE m + 1 \in P
  <2>1. PICK g : Fold(g, m) BY <1>2
  <2> DEFINE h == [k \in 0 .. (m + 1) |-> IF k <= m THEN g[k] ELSE OllamaCall(g[m], ss[(m + 1)])]
  <2>2. ASSUME NEW k \in 0 .. (m + 1)
        PROVE  h[k] = IF k = 0 THEN r ELSE OllamaCall(h[k - 1], ss[k])
    <3>1. CASE k = 0 BY <2>1, <3>1
    <3>2. CASE k \in 1 .. m
      <4>1. h[k] = g[k] /\ h[k - 1] = g[k - 1] BY <3>2
      <4>2. \A j \in 0 .. m : g[j] = IF j = 0 THEN r ELSE OllamaCall(g[j - 1], ss[j]) BY <2>1
      <4>3. g[k] = OllamaCall(g[k - 1], ss[k]) BY <3>2, <4>2
      <4> QED BY <3>2, <4>1, <4>3
    <3>3. CASE k = m + 1
      <4>1. h[k] = OllamaCall(g[m], ss[k]) /\ h[k - 1] = g[m] BY <3>3
      <4> QED BY <3>3, <4>1
    <3> QED BY <3>1, <3>2, <3>3
  <2>3. Fold(h, m + 1) BY <2>2
  <2> HIDE DEF h, Fold
  <2>4. \E x : Fold(x, m + 1) BY <2>3
  <2> QED BY <2>4
<1>3. Len(ss) \in P
  <2> HIDE DEF P
  <2>1. PICK l \in Nat : l = Len(ss) OBVIOUS
  <2>2. \A n \in 0 .. (l - 1) : n \in P => n + 1 \in P BY <1>2, <2>1
  <2>3. \A n \in 0 .. l : n \in P BY <1>1, <2>2, SetInduction
  <2> QED BY <2>1, <2>3
<1>4. PICK g : Fold(g, Len(ss)) BY <1>3
<1>5. CallsFold(r, ss) = (CHOOSE x : Fold(x, Len(ss)))[Len(ss)] BY DEF Folded, CallsFold
<1> HIDE DEF Fold
<1>6. Fold((CHOOSE x : Fold(x, Len(ss))), Len(ss)) BY <1>4
<1> QED BY <1>5, <1>6 DEF Fold

\* A text outside of blocks and calls that arrived whole.
Bare(r, text, cs) ==
  /\ Sound(r) /\ TellsText(r, text) /\ TellsCalls(r, cs) /\ r.finish = Unset /\ r.failed = FALSE
  /\ DOMAIN r.items = 1 .. Len(r.order)

\* A turn that ends.
LEMMA BareBack ==
  ASSUME NEW r, NEW text, NEW cs, Bare(r, text, cs), NEW reason \in Symbols,
         NEW q, q = Finished(r, reason)
  PROVE  Back(q, text, cs, reason)
<1>1. Sound(r) /\ TellsText(r, text) /\ TellsCalls(r, cs) /\ r.finish = Unset /\ r.failed = FALSE BY DEF Bare
<1>2. /\ Sound(q) /\ TellsText(q, text) /\ TellsCalls(q, cs) /\ q.failed = r.failed
      /\ q.finish = IF reason = Unset THEN r.finish ELSE reason
  BY <1>1, FinishedTells
<1> QED BY <1>1, <1>2 DEF Back

\* The text comes first.
LEMMA SpokenBare == ASSUME NEW text \in Seq(Symbols), NEW q, q = Spoken(Blank, text) PROVE Bare(q, text, <<>>)
<1>1. PICK n \in Nat : n = 0 OBVIOUS
<1>2. Holds(q, text, <<>>, n) /\ q.items = <<>> /\ q.order = <<>> BY SpokenHolds
<1>3. DOMAIN q.items = 1 .. Len(q.order) BY <1>2
<1> QED BY <1>2, <1>3 DEF Holds, Bare

\* Calls that arrive whole, one after the other.
LEMMA CallsFolded ==
  ASSUME NEW f, NEW off \in Nat, NEW w \in Seq(ToolCalls), NEW text, Bare(f[off], text, <<>>),
         \A k \in 1 .. Len(w) : f[off + k] = Called(f[off + k - 1], w[k].name, w[k].args)
  PROVE  Bare(f[off + Len(w)], text, w)
<1>1. PICK m \in Nat : m = Len(w) /\ DOMAIN w = 1 .. m BY LenProperties
<1>2. IsList(w) BY ListIn
<1> DEFINE P == {n \in 0 .. m : Bare(f[off + n], text, First(w, n))}
<1>3. 0 \in P
  <2>1. First(w, 0) = <<>> BY <1>2, FirstAll
  <2>2. off + 0 = off OBVIOUS
  <2> QED BY <1>1, <2>1, <2>2
<1>4. ASSUME NEW n \in 0 .. (m - 1), n \in P PROVE n + 1 \in P
  <2>1. n \in Nat /\ n \in 0 .. m /\ n + 1 \in 1 .. m /\ n + 1 \in 0 .. m BY <1>1
  <2>2. PICK r : r = f[off + n] OBVIOUS
  <2>3. PICK cs : cs = First(w, n) OBVIOUS
  <2>4. Bare(r, text, cs) BY <1>4, <2>2, <2>3
  <2>5. PICK c : c = w[n + 1] OBVIOUS
  <2>6. \A k \in 1 .. m : w[k] \in ToolCalls BY <1>1, ElementOfSeq
  <2>7. c \in ToolCalls BY <2>1, <2>5, <2>6
  <2>8. cs \in Seq(ToolCalls)
    <3>1. IsList(cs) /\ Len(cs) = n /\ DOMAIN cs = 1 .. n /\ \A k \in 1 .. n : cs[k] = w[k] BY <1>1, <1>2, <2>1, <2>3, FirstIs
    <3>2. \A k \in 1 .. n : k \in 1 .. m BY <2>1
    <3>3. cs = [k \in 1 .. n |-> cs[k]] BY <3>1, ListHas
    <3>4. cs \in [1 .. n -> ToolCalls] BY <2>6, <3>1, <3>2, <3>3
    <3> QED BY <2>1, <3>4, SeqDef
  <2>9. PICK name : name = c.name OBVIOUS
  <2>10. PICK args : args = c.args OBVIOUS
  <2>11. name \in Symbols /\ args \in Seq(Symbols) /\ c.name = name /\ c.args = args BY <2>7, <2>9, <2>10, CallIs
  <2>12. PICK q : q = Called(r, name, args) OBVIOUS
  <2>13. /\ Sound(r) /\ TellsText(r, text) /\ TellsCalls(r, cs) /\ r.finish = Unset /\ r.failed = FALSE
         /\ DOMAIN r.items = 1 .. Len(r.order)
    BY <2>4 DEF Bare
  <2>14. PICK ds : ds = Append(cs, c) OBVIOUS
  <2>15. /\ Sound(q) /\ TellsText(q, text) /\ TellsCalls(q, Append(cs, c))
         /\ q.finish = r.finish /\ q.failed = r.failed
         /\ DOMAIN q.items = 1 .. Len(q.order)
    BY <2>7, <2>8, <2>11, <2>12, <2>13, CalledIs
  <2>16. Bare(q, text, ds) BY <2>13, <2>14, <2>15 DEF Bare
  <2>17. f[off + (n + 1)] = q
    <3>1. f[off + (n + 1)] = Called(f[off + (n + 1) - 1], w[n + 1].name, w[n + 1].args) BY <1>1, <2>1
    <3>2. off + (n + 1) - 1 = off + n BY <2>1
    <3> QED BY <2>2, <2>5, <2>9, <2>10, <2>12, <3>1, <3>2
  <2>18. First(w, n + 1) = ds BY <1>1, <1>2, <2>3, <2>5, <2>14, FirstGrows
  <2> QED BY <2>1, <2>16, <2>17, <2>18
<1> HIDE DEF P
<1>5. \A n \in 0 .. m : n \in P BY <1>3, <1>4, SetInduction
<1>6. m \in P BY <1>5
<1>7. First(w, m) = w BY <1>1, <1>2, FirstAll
<1> QED BY <1>1, <1>6, <1>7 DEF P

\* What is written of the calls of a turn where arguments are an object.
RawCalls(tools) == [k \in DOMAIN tools |-> [name |-> tools[k].name, args |-> ArgsRaw(tools[k].args)]]

\* Arguments that are no document are written as an empty object.
LEMMA RawFragments == ASSUME NEW args PROVE ArgsRaw(args) \in DOMAIN Canon /\ ArgsRaw(args) \in Seq(Symbols)
<1>1. ArgsRaw(args) \in DOMAIN Canon BY CanonAssumption DEF ArgsRaw, Valid
<1> QED BY <1>1, DocumentFragments

\* The calls as they are written.
LEMMA RawIs ==
  ASSUME NEW tools \in Seq(ToolCalls), NEW w, w = RawCalls(tools)
  PROVE  /\ w \in Seq(ToolCalls) /\ Len(w) = Len(tools) /\ DOMAIN w = DOMAIN tools
         /\ \A k \in DOMAIN tools : w[k].name = tools[k].name /\ w[k].args = ArgsRaw(tools[k].args)
<1>1. PICK n \in Nat : Len(tools) = n /\ DOMAIN tools = 1 .. n BY LenProperties
<1>2. DOMAIN w = 1 .. n /\ w = [k \in 1 .. n |-> w[k]] BY <1>1 DEF RawCalls
<1>3. ASSUME NEW k \in 1 .. n
      PROVE  w[k] \in ToolCalls /\ w[k].name = tools[k].name /\ w[k].args = ArgsRaw(tools[k].args)
  <2>1. PICK c : c = tools[k] OBVIOUS
  <2>2. c \in ToolCalls BY <1>1, <2>1, ElementOfSeq
  <2>3. c.name \in Symbols BY <2>2, CallIs
  <2>4. PICK args : args = ArgsRaw(c.args) OBVIOUS
  <2>5. args \in Seq(Symbols) BY <2>4, RawFragments
  <2>6. w[k] = [name |-> c.name, args |-> args] BY <1>1, <2>1, <2>4 DEF RawCalls
  <2> QED BY <2>1, <2>3, <2>4, <2>5, <2>6 DEF ToolCalls
<1>4. w \in [1 .. n -> ToolCalls] BY <1>2, <1>3
<1>5. w \in Seq(ToolCalls) BY <1>4, SeqDef
<1>6. Len(w) = n BY <1>2, <1>5, LenProperties
<1> QED BY <1>1, <1>2, <1>3, <1>5, <1>6

\* A text and the calls of a line.
LEMMA OllamaFolded ==
  ASSUME NEW text \in Seq(Symbols), NEW r, r = Spoken(Blank, text), NEW w \in Seq(ToolCalls), NEW q, q = CallsFold(r, w)
  PROVE  Bare(q, text, w)
<1>1. PICK n \in Nat : n = Len(w) /\ DOMAIN w = 1 .. n BY LenProperties
<1>2. \E f : /\ f = [k \in 0 .. Len(w) |-> IF k = 0 THEN r ELSE OllamaCall(f[k - 1], w[k])]
             /\ CallsFold(r, w) = f[Len(w)]
  <2>1. Len(w) \in Nat BY <1>1
  <2> QED BY <2>1, OllamaCallsDef
<1>3. PICK f : /\ f = [k \in 0 .. n |-> IF k = 0 THEN r ELSE OllamaCall(f[k - 1], w[k])]
               /\ q = f[n]
  BY <1>1, <1>2
<1>4. PICK off \in Nat : off = 0 OBVIOUS
<1>5. f[off] = r BY <1>3, <1>4
<1>6. Bare(f[off], text, <<>>) BY <1>5, SpokenBare
<1>7. ASSUME NEW k \in 1 .. Len(w) PROVE f[off + k] = Called(f[off + k - 1], w[k].name, w[k].args)
  <2>1. k \in 1 .. n /\ k \in 0 .. n /\ k # 0 /\ off + k = k /\ off + k - 1 = k - 1 BY <1>1, <1>4
  <2>2. f[k] = OllamaCall(f[k - 1], w[k]) BY <1>3, <2>1
  <2> QED BY <2>1, <2>2 DEF OllamaCall
<1>8. Bare(f[off + Len(w)], text, w) BY <1>6, <1>7, CallsFolded
<1> QED BY <1>1, <1>3, <1>4, <1>8

\* A line of Ollama is read back.
LEMMA OllamaRead ==
  ASSUME NEW text \in Seq(Symbols), NEW tools \in Seq(ToolCalls), NEW reason \in Symbols, NEW w, w = RawCalls(tools)
  PROVE  Back(Read("ollama", EncodeOllama(Transcript(text, tools, reason))), text, w, reason)
<1>1. PICK p : p = "ollama" OBVIOUS
<1>2. PICK none : none = <<>> OBVIOUS
<1>3. PICK a : a = [type |-> "line", text |-> text, calls |-> w, finish |-> Unset] OBVIOUS
<1>4. PICK c : c = [type |-> "line", text |-> none, calls |-> none, finish |-> reason] OBVIOUS
<1>5. PICK t : t = <<a, c>> OBVIOUS
<1>6. EncodeOllama(Transcript(text, tools, reason)) = t
  <2>1. PICK turn : turn = Transcript(text, tools, reason) OBVIOUS
  <2>2. turn.text = text /\ turn.tools = tools /\ turn.finish = reason BY <2>1 DEF Transcript
  <2>3. w = [k \in DOMAIN turn.tools |-> [name |-> turn.tools[k].name, args |-> ArgsRaw(turn.tools[k].args)]]
    BY <2>2 DEF RawCalls
  <2>4. EncodeOllama(turn) = <<[type |-> "line", text |-> text, calls |-> w, finish |-> Unset],
                               [type |-> "line", text |-> <<>>, calls |-> <<>>, finish |-> reason]>>
    BY <2>2, <2>3 DEF EncodeOllama
  <2> QED BY <1>2, <1>3, <1>4, <1>5, <2>1, <2>4
<1>7. IsList(none) /\ t = Glued(none, t)
  <2>1. PICK x : x = <<a>> OBVIOUS
  <2>2. PICK y : y = <<c>> OBVIOUS
  <2>3. IsList(t) BY <1>5, <2>1, <2>2, ListTwo
  <2> QED BY <1>2, <2>3, ListNone
<1>8. PICK b : b = Blank OBVIOUS
<1>9. Read(p, none) = b BY <1>2, <1>8, ReadEmpty
<1>10. PICK r : r = Spoken(b, text) OBVIOUS
<1>11. PICK q : q = CallsFold(r, w) OBVIOUS
<1>12. w \in Seq(ToolCalls) BY RawIs
<1>13. Bare(q, text, w)
  <2>1. r = Spoken(Blank, text) BY <1>8, <1>10
  <2> QED BY <1>11, <1>12, <2>1, OllamaFolded
<1>14. Step(p, b, a) = q
  <2>1. OllamaStep(b, a) = Finished(Folded(OllamaCall, Spoken(b, text), w), Unset) BY <1>3, OllamaStepIs
  <2>2. Folded(OllamaCall, Spoken(b, text), w) = q BY <1>10, <1>11 DEF CallsFold
  <2> QED BY <1>1, <2>1, <2>2, UnsetStep, StepIs
<1>15. PICK z : z = Finished(q, reason) OBVIOUS
<1>16. Step(p, q, c) = z
  <2>1. OllamaStep(q, c) = Finished(Folded(OllamaCall, Spoken(q, none), none), reason) BY <1>4, OllamaStepIs
  <2>2. q \in Accs BY <1>13 DEF Bare, Sound
  <2>3. Spoken(q, none) = q BY <1>2, <2>2, SpokenNothing
  <2>4. Folded(OllamaCall, q, none) = q BY <1>2, NoOllamaCall
  <2> QED BY <1>1, <1>15, <2>1, <2>3, <2>4, StepIs
<1>17. Read(p, t) = z
  <2>1. q = Step(p, Read(p, none), a) BY <1>9, <1>14
  <2>2. Read(p, t) = Step(p, q, c) BY <1>5, <1>7, <2>1, ReadTwo
  <2> QED BY <1>16, <2>2
<1>18. Back(z, text, w, reason) BY <1>13, <1>15, BareBack
<1> QED BY <1>1, <1>6, <1>17, <1>18

\* The parts of a text and of calls.
TextPart(text) == Once(text, [type |-> "text", text |-> text])

CallParts(w) == [k \in DOMAIN w |-> [type |-> "call", name |-> w[k].name, args |-> w[k].args]]

\* A text and the parts of a chunk.
LEMMA PartsFolded ==
  ASSUME NEW text \in Seq(Symbols), NEW w \in Seq(ToolCalls)
  PROVE  Bare(PartsFold(Blank, Glued(TextPart(text), CallParts(w))), text, w)
<1>1. PICK n \in Nat : n = Len(w) /\ DOMAIN w = 1 .. n BY LenProperties
<1>2. PICK first : first = TextPart(text) OBVIOUS
<1>3. PICK final : final = CallParts(w) OBVIOUS
<1>4. IsList(final) /\ Len(final) = n
      /\ \A k \in 1 .. n : final[k] = [type |-> "call", name |-> w[k].name, args |-> w[k].args]
  <2>1. /\ DOMAIN final = 1 .. n /\ final = [k \in DOMAIN final |-> final[k]]
        /\ \A k \in 1 .. n : final[k] = [type |-> "call", name |-> w[k].name, args |-> w[k].args]
    BY <1>1, <1>3 DEF CallParts
  <2> QED BY <2>1, ListOf DEF IsList
<1>5. PICK c : c = [type |-> "text", text |-> text] OBVIOUS
<1>6. first = Once(text, c) BY <1>2, <1>5 DEF TextPart
<1>7. /\ text = <<>> => first = <<>>
      /\ text # <<>> => first = <<c>>
  BY <1>6, OnceIs
<1>8. PICK off \in Nat : IsList(first) /\ off = Len(first)
  <2>1. CASE text = <<>>
    <3>1. first = <<>> /\ IsList(<<>>) BY <1>7, <2>1, EmptyList DEF IsList
    <3> QED BY <3>1, ListHas
  <2>2. CASE text # <<>>
    <3>1. first = <<c>> BY <1>7, <2>2
    <3>2. IsList(first) BY <3>1, ListOne
    <3> QED BY <3>2, ListHas
  <2> QED BY <2>1, <2>2
<1>21. PICK ps : ps = Glued(first, final) OBVIOUS
<1>9. /\ IsList(ps) /\ Len(ps) = off + n
      /\ \A i \in 1 .. off : ps[i] = first[i]
      /\ \A i \in 1 .. n : ps[off + i] = final[i]
  <2>1. ps = Glued(first, final) BY <1>21
  <2>3. IsList(first) /\ IsList(final) BY <1>4, <1>8
  <2>2. /\ IsList(ps) /\ Len(ps) = Len(first) + Len(final)
        /\ \A i \in 1 .. Len(first) : ps[i] = first[i]
        /\ \A i \in 1 .. Len(final) : ps[Len(first) + i] = final[i]
    <3>1. IsList(ps) BY <2>1, <2>3, ListGlued
    <3>2. Len(ps) = Len(first) + Len(final) BY <2>1, <2>3, ListGlued
    <3>3. ASSUME NEW i \in 1 .. Len(first) PROVE ps[i] = first[i]
      <4>1. Glued(first, final)[i] = first[i] BY <2>3, ListGlued
      <4> QED BY <2>1, <4>1
    <3>4. ASSUME NEW i \in 1 .. Len(final) PROVE ps[Len(first) + i] = final[i]
      <4>1. Glued(first, final)[Len(first) + i] = final[i] BY <2>3, ListGlued
      <4> QED BY <2>1, <4>1
    <3> QED BY <3>1, <3>2, <3>3, <3>4
  <2> QED BY <1>4, <1>8, <2>2
<1>10. PICK b : b = Blank OBVIOUS
<1>11. \E f : /\ f = [k \in 0 .. Len(ps) |-> IF k = 0 THEN b ELSE Part(f[k - 1], ps[k])]
              /\ PartsFold(b, ps) = f[Len(ps)]
  <2>1. Len(ps) \in Nat BY <1>9, ListHas
  <2> QED BY <2>1, PartsDef
<1>12. PICK m \in Nat : m = off + n OBVIOUS
<1>13. PICK f : /\ f = [k \in 0 .. m |-> IF k = 0 THEN b ELSE Part(f[k - 1], ps[k])]
                /\ PartsFold(b, ps) = f[m]
  BY <1>9, <1>11, <1>12
<1>14. f[0] = b BY <1>13
<1>15. PICK r : r = Spoken(b, text) OBVIOUS
<1>16. f[off] = r
  <2>1. CASE text = <<>>
    <3>1. Len(first) = 0 BY <1>7, <2>1
    <3>2. off = 0 BY <1>8, <3>1
    <3>3. b \in Accs BY <1>10, BlankTells DEF Sound
    <3>4. Spoken(b, text) = b BY <2>1, <3>3, SpokenNothing
    <3> QED BY <1>14, <1>15, <3>2, <3>4
  <2>2. CASE text # <<>>
    <3>1. first = <<c>> BY <1>7, <2>2
    <3>2. Len(first) = 1 /\ first[1] = c BY <3>1, ListOne
    <3>3. off = 1 /\ 1 \in 1 .. off /\ 1 \in 0 .. m /\ 1 - 1 = 0 BY <1>8, <1>12, <3>2
    <3>4. ps[1] = c BY <1>9, <3>2, <3>3
    <3>5. f[1] = Part(f[0], ps[1]) BY <1>13, <3>3
    <3>6. Part(b, c) = Spoken(b, text) BY <1>5 DEF Part
    <3> QED BY <1>14, <1>15, <3>3, <3>4, <3>5, <3>6
  <2> QED BY <2>1, <2>2
<1>17. Bare(f[off], text, <<>>) BY <1>10, <1>15, <1>16, SpokenBare
<1>18. ASSUME NEW k \in 1 .. Len(w) PROVE f[off + k] = Called(f[off + k - 1], w[k].name, w[k].args)
  <2>1. k \in 1 .. n /\ off + k \in 0 .. m /\ off + k # 0 BY <1>1, <1>12
  <2>2. PICK j : j = off + k OBVIOUS
  <2>3. f[j] = Part(f[j - 1], ps[j]) BY <1>13, <2>1, <2>2
  <2>4. PICK d : d = [type |-> "call", name |-> w[k].name, args |-> w[k].args] OBVIOUS
  <2>5. ps[j] = d BY <1>4, <1>9, <2>1, <2>2, <2>4
  <2>6. PICK s : s = f[j - 1] OBVIOUS
  <2>7. Part(s, d) = Called(s, w[k].name, w[k].args)
    <3>1. d.type = "call" /\ d.name = w[k].name /\ d.args = w[k].args BY <2>4
    <3> QED BY <3>1 DEF Part
  <2> QED BY <2>2, <2>3, <2>5, <2>6, <2>7
<1>19. Bare(f[off + Len(w)], text, w) BY <1>17, <1>18, CallsFolded
<1> QED BY <1>1, <1>2, <1>3, <1>10, <1>12, <1>13, <1>19, <1>21

\* A chunk of Gemini is read back.
LEMMA GeminiRead ==
  ASSUME NEW text \in Seq(Symbols), NEW tools \in Seq(ToolCalls), NEW reason \in Symbols, NEW w, w = RawCalls(tools)
  PROVE  Back(Read("gemini", EncodeGemini(Transcript(text, tools, reason))), text, w, reason)
<1>1. PICK p : p = "gemini" OBVIOUS
<1>2. PICK none : none = <<>> OBVIOUS
<1>3. PICK ps : ps = Glued(TextPart(text), CallParts(w)) OBVIOUS
<1>4. PICK a : a = [type |-> "response", parts |-> ps, finish |-> reason] OBVIOUS
<1>5. PICK t : t = <<a>> OBVIOUS
<1>6. EncodeGemini(Transcript(text, tools, reason)) = t
  <2>1. PICK turn : turn = Transcript(text, tools, reason) OBVIOUS
  <2>2. turn.text = text /\ turn.tools = tools /\ turn.finish = reason BY <2>1 DEF Transcript
  <2>3. /\ DOMAIN w = DOMAIN tools
        /\ \A k \in DOMAIN tools : w[k].name = tools[k].name /\ w[k].args = ArgsRaw(tools[k].args)
    BY RawIs
  <2>4. CallParts(w) = [k \in DOMAIN turn.tools |->
                          [type |-> "call", name |-> turn.tools[k].name, args |-> ArgsRaw(turn.tools[k].args)]]
    BY <2>2, <2>3 DEF CallParts
  <2>5. TextPart(text) = [k \in DOMAIN Whole(turn.text) |-> [type |-> "text", text |-> turn.text]]
    BY <2>2 DEF TextPart, Once
  <2>6. EncodeGemini(turn) = <<[type |-> "response", parts |-> ps, finish |-> reason]>>
    BY <1>3, <2>2, <2>4, <2>5 DEF EncodeGemini, Glued
  <2> QED BY <1>4, <1>5, <2>1, <2>6
<1>7. IsList(none) /\ t = Glued(none, t)
  <2>1. IsList(t) BY <1>5, ListOne
  <2> QED BY <1>2, <2>1, ListNone
<1>8. PICK b : b = Blank OBVIOUS
<1>9. Read(p, none) = b BY <1>2, <1>8, ReadEmpty
<1>10. PICK q : q = PartsFold(b, ps) OBVIOUS
<1>11. w \in Seq(ToolCalls) BY RawIs
<1>12. Bare(q, text, w)
  <2>1. q = PartsFold(Blank, ps) BY <1>8, <1>10
  <2> QED BY <1>3, <1>11, <2>1, PartsFolded
<1>13. PICK z : z = Finished(q, reason) OBVIOUS
<1>14. Step(p, b, a) = z
  <2>1. GeminiStep(b, a) = Finished(Folded(Part, b, ps), reason) BY <1>4, GeminiStepIs
  <2>2. Folded(Part, b, ps) = q BY <1>10 DEF PartsFold
  <2> QED BY <1>1, <1>13, <2>1, <2>2, StepIs
<1>15. Read(p, t) = z
  <2>1. Read(p, t) = Step(p, Read(p, none), a) BY <1>5, <1>7, ReadOne
  <2> QED BY <1>9, <1>14, <2>1
<1>16. Back(z, text, w, reason) BY <1>12, <1>13, BareBack
<1> QED BY <1>1, <1>6, <1>15, <1>16

(***************************************************************************)
(* Codec: a turn that is written and read back                             *)
(***************************************************************************)

\* Normalize sorts the calls.
LEMMA NormalizedIs ==
  ASSUME NEW text, NEW tools, NEW reason
  PROVE  Normalize(Transcript(text, tools, reason)) = Transcript(text, Sorted(tools), reason)
<1>1. PICK t : t = Transcript(text, tools, reason) OBVIOUS
<1>2. t = [role |-> "assistant", text |-> text, tools |-> tools, finish |-> reason] BY <1>1 DEF Transcript
<1>3. PICK sorted : sorted = Sorted(t.tools) OBVIOUS
<1>4. PICK role : role = IF t.role = Unset THEN "assistant" ELSE t.role OBVIOUS
<1>5. role = "assistant" BY <1>2, <1>4
<1>6. Normalize(t) = [t EXCEPT !.role = role, !.tools = sorted] BY <1>3, <1>4 DEF Normalize
<1>7. PICK q : q = [t EXCEPT !.role = role, !.tools = sorted] OBVIOUS
<1>8. q = [role |-> role, text |-> text, tools |-> sorted, finish |-> reason] BY <1>2, <1>7
<1>9. sorted = Sorted(tools) BY <1>2, <1>3
<1> QED BY <1>1, <1>5, <1>6, <1>7, <1>8, <1>9 DEF Transcript

\* What an accumulator that tells a turn is assembled into.
LEMMA BackIs ==
  ASSUME NEW r, NEW text, NEW cs, Back(r, text, cs, r.finish)
  PROVE  Assembled(r) = Transcript(text, Canonized(cs), r.finish)
<1>1. TellsText(r, text) /\ TellsCalls(r, cs) BY DEF Back
<1>2. PICK x : x = OfType(r, "text") OBVIOUS
<1>3. PICK y : y = OfType(r, "tool") OBVIOUS
<1>4. text = r.text \o Joined([k \in DOMAIN x |-> r.items[x[k]].text]) BY <1>1, <1>2 DEF TellsText
<1>5. /\ DOMAIN cs = DOMAIN y
      /\ \A k \in DOMAIN y : r.items[y[k]].name = cs[k].name /\ r.items[y[k]].args = cs[k].args
  BY <1>1, <1>3 DEF TellsCalls
<1>6. [k \in DOMAIN y |-> ToolCall(r.items[y[k]].name, r.items[y[k]].args)] = Canonized(cs) BY <1>5 DEF Canonized
<1>7. Assembled(r) = Transcript(r.text \o Joined([k \in DOMAIN x |-> r.items[x[k]].text]),
                                [k \in DOMAIN y |-> ToolCall(r.items[y[k]].name, r.items[y[k]].args)], r.finish)
  BY <1>2, <1>3 DEF Assembled
<1> QED BY <1>4, <1>6, <1>7

\* What a dialect writes of the calls of a turn.
OnWire(p, tools) == IF p \in Fragmented THEN Canonized(tools) ELSE RawCalls(tools)

\* Encode writes the normalized turn.
LEMMA EncodeIs ==
  ASSUME NEW t, NEW n, n = Normalize(t)
  PROVE  /\ Encode("anthropic", t) = EncodeAnthropic(n)
         /\ Encode("openai-chat", t) = EncodeOpenAIChat(n)
         /\ Encode("openai-responses", t) = EncodeOpenAIResponses(n)
         /\ Encode("gemini", t) = EncodeGemini(n)
         /\ Encode("ollama", t) = EncodeOllama(n)
BY DEF Encode

\* A text in one chunk, or in none when it is empty.
LEMMA JoinedWhole ==
  ASSUME NEW text \in Seq(Symbols), NEW chunks, chunks = Whole(text)
  PROVE  IsList(chunks) /\ Joined(chunks) = text /\ \A k \in DOMAIN chunks : chunks[k] \in Seq(Symbols)
<1>1. CASE text = <<>>
  <2>1. chunks = <<>> BY <1>1 DEF Whole
  <2>2. IsList(<<>>) /\ DOMAIN <<>> = {} BY EmptyList DEF IsList
  <2> QED BY <1>1, <2>1, <2>2, JoinedEmpty
<1>2. CASE text # <<>>
  <2>1. chunks = <<text>> BY <1>2 DEF Whole
  <2>2. IsList(text) BY ListIn
  <2>3. IsList(chunks) /\ Len(chunks) = 1 /\ chunks[1] = text BY <2>1, ListOne
  <2>4. Joined(chunks) = text BY <2>1, <2>2, JoinedOne
  <2>5. DOMAIN chunks = 1 .. 1 BY <2>3, ListHas
  <2> QED BY <2>3, <2>4, <2>5
<1> QED BY <1>1, <1>2

\* A turn that is written in a dialect is read back from it, up to its calls.
LEMMA EncodedRead ==
  ASSUME NEW p \in Dialects, NEW text \in Seq(Symbols), NEW tools \in Seq(ToolCalls), NEW reason \in Symbols,
         NEW t, Normalize(t) = Transcript(text, tools, reason)
  PROVE  Back(Read(p, Encode(p, t)), text, OnWire(p, tools), reason)
<1>1. PICK n : n = Transcript(text, tools, reason) OBVIOUS
<1>2. n = Normalize(t) BY <1>1
<1>3. PICK w : w = Canonized(tools) OBVIOUS
<1>4. PICK v : v = RawCalls(tools) OBVIOUS
<1>5. CASE p = "anthropic"
  <2>1. PICK chunks : chunks = Whole(text) OBVIOUS
  <2>2. IsList(chunks) /\ Joined(chunks) = text /\ \A k \in DOMAIN chunks : chunks[k] \in Seq(Symbols)
    BY <2>1, JoinedWhole
  <2>3. Back(Read("anthropic", AnthropicStream(chunks, tools, reason)), Joined(chunks), w, reason)
    BY <1>3, <2>2, AnthropicRead
  <2>4. n.text = text /\ n.tools = tools /\ n.finish = reason BY <1>1 DEF Transcript
  <2>5. EncodeAnthropic(n) = AnthropicStream(chunks, tools, reason) BY <2>1, <2>4 DEF EncodeAnthropic
  <2>6. Encode("anthropic", t) = EncodeAnthropic(n) BY <1>2, EncodeIs
  <2>7. OnWire(p, tools) = w BY <1>3, <1>5 DEF OnWire, Fragmented
  <2> QED BY <1>5, <2>2, <2>3, <2>5, <2>6, <2>7
<1>6. CASE p = "openai-chat"
  <2>1. Back(Read("openai-chat", EncodeOpenAIChat(Transcript(text, tools, reason))), text, w, reason) BY <1>3, ChatRead
  <2>2. Encode("openai-chat", t) = EncodeOpenAIChat(n) BY <1>2, EncodeIs
  <2>3. OnWire(p, tools) = w BY <1>3, <1>6 DEF OnWire, Fragmented
  <2> QED BY <1>1, <1>6, <2>1, <2>2, <2>3
<1>7. CASE p = "openai-responses"
  <2>1. Back(Read("openai-responses", EncodeOpenAIResponses(Transcript(text, tools, reason))), text, w, reason)
    BY <1>3, ResponsesRead
  <2>2. Encode("openai-responses", t) = EncodeOpenAIResponses(n) BY <1>2, EncodeIs
  <2>3. OnWire(p, tools) = w BY <1>3, <1>7 DEF OnWire, Fragmented
  <2> QED BY <1>1, <1>7, <2>1, <2>2, <2>3
<1>8. CASE p = "gemini"
  <2>1. Back(Read("gemini", EncodeGemini(Transcript(text, tools, reason))), text, v, reason) BY <1>4, GeminiRead
  <2>2. Encode("gemini", t) = EncodeGemini(n) BY <1>2, EncodeIs
  <2>3. OnWire(p, tools) = v BY <1>4, <1>8 DEF OnWire, Fragmented
  <2> QED BY <1>1, <1>8, <2>1, <2>2, <2>3
<1>9. CASE p = "ollama"
  <2>1. Back(Read("ollama", EncodeOllama(Transcript(text, tools, reason))), text, v, reason) BY <1>4, OllamaRead
  <2>2. Encode("ollama", t) = EncodeOllama(n) BY <1>2, EncodeIs
  <2>3. OnWire(p, tools) = v BY <1>4, <1>9 DEF OnWire, Fragmented
  <2> QED BY <1>1, <1>9, <2>1, <2>2, <2>3
<1> QED BY <1>5, <1>6, <1>7, <1>8, <1>9 DEF Dialects

\* So is the turn: as Decode assembles it.
LEMMA EncodedDecoded ==
  ASSUME NEW p \in Dialects, NEW text \in Seq(Symbols), NEW tools \in Seq(ToolCalls), NEW reason \in Symbols,
         NEW t, Normalize(t) = Transcript(text, tools, reason)
  PROVE  Decode(p, Encode(p, t)) = Transcript(text, Sorted(Canonized(OnWire(p, tools))), reason)
<1>1. PICK r : r = Read(p, Encode(p, t)) OBVIOUS
<1>2. PICK w : w = OnWire(p, tools) OBVIOUS
<1>3. Back(r, text, w, reason) BY <1>1, <1>2, EncodedRead
<1>4. r.finish = reason BY <1>3 DEF Back
<1>5. Assembled(r) = Transcript(text, Canonized(w), reason) BY <1>3, <1>4, BackIs
<1>6. Normalize(Transcript(text, Canonized(w), reason)) = Transcript(text, Sorted(Canonized(w)), reason) BY NormalizedIs
<1> QED BY <1>1, <1>2, <1>5, <1>6 DEF Decode

\* The canonical form of a canonical form (json.Compact is idempotent).
LEMMA CanonicalTwice == \A args : Canonicalize(Canonicalize(args)) = Canonicalize(args)
BY CanonAssumption DEF Canonicalize, Valid

\* What the provider called, with its documents in canonical form.
LEMMA HeardWritten ==
  ASSUME NEW cs \in Seq(Heard), NEW w, w = Canonized(cs)
  PROVE  /\ w \in Seq(ToolCalls) /\ DOMAIN w = DOMAIN cs
         /\ \A k \in DOMAIN w : Canonicalize(w[k].args) = w[k].args
<1>1. PICK n \in Nat : Len(cs) = n /\ DOMAIN cs = 1 .. n BY LenProperties
<1>2. DOMAIN w = 1 .. n /\ w = [k \in 1 .. n |-> w[k]] BY <1>1 DEF Canonized
<1>3. ASSUME NEW k \in 1 .. n PROVE w[k] \in ToolCalls /\ Canonicalize(w[k].args) = w[k].args
  <2>1. PICK c : c = cs[k] OBVIOUS
  <2>2. c \in Heard BY <1>1, <2>1, ElementOfSeq
  <2>3. c.name \in Symbols /\ c.args \in Seq(Symbols) BY <2>2 DEF Heard
  <2>4. PICK args : args = Canonicalize(c.args) OBVIOUS
  <2>5. args \in Seq(Symbols) /\ Canonicalize(args) = args BY <2>3, <2>4, CanonicalFragments, CanonicalTwice
  <2>6. w[k] = [name |-> c.name, args |-> args] BY <1>1, <2>1, <2>4 DEF Canonized, ToolCall
  <2> QED BY <2>3, <2>5, <2>6 DEF ToolCalls
<1>4. w \in [1 .. n -> ToolCalls] BY <1>2, <1>3
<1>5. w \in Seq(ToolCalls) BY <1>4, SeqDef
<1> QED BY <1>1, <1>2, <1>3, <1>5

\* The calls of a sorted turn are calls of the turn.
LEMMA SortedTools ==
  ASSUME NEW tools \in Seq(ToolCalls), NEW s, s = Sorted(tools)
  PROVE  s \in Seq(ToolCalls) /\ DOMAIN s = DOMAIN tools /\ \A k \in DOMAIN s : \E j \in DOMAIN tools : s[k] = tools[j]
<1>1. PICK n \in Nat : Len(tools) = n /\ DOMAIN tools = 1 .. n BY LenProperties
<1>2. PICK p \in Bijection(DOMAIN tools, DOMAIN tools) : s = [i \in DOMAIN tools |-> tools[p[i]]] BY SortedIs
<1>3. p \in [1 .. n -> 1 .. n] BY <1>1, <1>2 DEF Bijection, Injection
<1>4. \A k \in 1 .. n : tools[k] \in ToolCalls BY <1>1, ElementOfSeq
<1>5. s \in [1 .. n -> ToolCalls] BY <1>1, <1>2, <1>3, <1>4
<1>6. s \in Seq(ToolCalls) BY <1>5, SeqDef
<1>7. \A k \in 1 .. n : p[k] \in DOMAIN tools /\ s[k] = tools[p[k]] BY <1>1, <1>2, <1>3
<1> QED BY <1>1, <1>5, <1>6, <1>7

\* The calls of a turn that was decoded: sorted, with their documents in canonical form.
AsDecoded(tools) ==
  tools \in Seq(ToolCalls) /\ Sorted(tools) = tools /\ \A k \in DOMAIN tools : Canonicalize(tools[k].args) = tools[k].args

\* What Decode makes of a stream of the provider.
LEMMA TurnIs ==
  ASSUME CodecInv
  PROVE  \E tools : AsDecoded(tools) /\ Decode(dialect, stream) = Transcript(said, tools, finish)
<1>1. PICK r : r = Read(dialect, stream) OBVIOUS
<1>2. Sound(r) /\ TellsText(r, said) /\ TellsCalls(r, calls) /\ r.finish = finish /\ calls \in Seq(Heard)
  BY <1>1 DEF CodecInv, Tells
<1>3. PICK w : w = Canonized(calls) OBVIOUS
<1>4. Assembled(r) = Transcript(said, w, finish)
  <2>1. PICK x : x = OfType(r, "text") OBVIOUS
  <2>2. PICK y : y = OfType(r, "tool") OBVIOUS
  <2>3. said = r.text \o Joined([k \in DOMAIN x |-> r.items[x[k]].text]) BY <1>2, <2>1 DEF TellsText
  <2>4. /\ DOMAIN calls = DOMAIN y
        /\ \A k \in DOMAIN y : r.items[y[k]].name = calls[k].name /\ r.items[y[k]].args = calls[k].args
    BY <1>2, <2>2 DEF TellsCalls
  <2>5. [k \in DOMAIN y |-> ToolCall(r.items[y[k]].name, r.items[y[k]].args)] = w BY <1>3, <2>4 DEF Canonized
  <2>6. Assembled(r) = Transcript(r.text \o Joined([k \in DOMAIN x |-> r.items[x[k]].text]),
                                  [k \in DOMAIN y |-> ToolCall(r.items[y[k]].name, r.items[y[k]].args)], r.finish)
    BY <2>1, <2>2 DEF Assembled
  <2> QED BY <1>2, <2>3, <2>5, <2>6
<1>5. PICK tools : tools = Sorted(w) OBVIOUS
<1>6. Decode(dialect, stream) = Transcript(said, tools, finish)
  <2>1. Normalize(Transcript(said, w, finish)) = Transcript(said, tools, finish) BY <1>5, NormalizedIs
  <2> QED BY <1>1, <1>4, <2>1 DEF Decode
<1>7. w \in Seq(ToolCalls) /\ \A k \in DOMAIN w : Canonicalize(w[k].args) = w[k].args BY <1>2, <1>3, HeardWritten
<1>8. tools \in Seq(ToolCalls) /\ \A k \in DOMAIN tools : \E j \in DOMAIN w : tools[k] = w[j] BY <1>5, <1>7, SortedTools
<1>9. Sorted(tools) = tools BY <1>5, SortedTwice
<1>10. \A k \in DOMAIN tools : Canonicalize(tools[k].args) = tools[k].args BY <1>7, <1>8
<1> QED BY <1>6, <1>8, <1>9, <1>10 DEF AsDecoded

\* The fields of a turn.
LEMMA TranscriptIs ==
  ASSUME NEW text, NEW tools, NEW reason, NEW t, t = Transcript(text, tools, reason)
  PROVE  t.text = text /\ t.tools = tools /\ t.finish = reason
BY DEF Transcript

\* The calls that come back are the ones that were written, unless one was no document.
LEMMA CallsBack ==
  ASSUME NEW p \in Dialects, NEW tools, AsDecoded(tools), NEW w, w = Canonized(OnWire(p, tools))
  PROVE  Sorted(w) = tools <=> p \in Fragmented \/ \A k \in DOMAIN tools : Valid(tools[k].args)
<1>1. tools \in Seq(ToolCalls) /\ Sorted(tools) = tools /\ \A k \in DOMAIN tools : Canonicalize(tools[k].args) = tools[k].args
  BY DEF AsDecoded
<1>2. PICK n \in Nat : Len(tools) = n /\ DOMAIN tools = 1 .. n BY <1>1, LenProperties
<1>3. PICK v : v = OnWire(p, tools) OBVIOUS
<1>4. /\ v \in Seq(ToolCalls) /\ DOMAIN v = DOMAIN tools
      /\ \A k \in DOMAIN tools : v[k].name = tools[k].name
      /\ p \in Fragmented => \A k \in DOMAIN tools : v[k].args = Canonicalize(tools[k].args)
      /\ p \notin Fragmented => \A k \in DOMAIN tools : v[k].args = ArgsRaw(tools[k].args)
  <2>1. CASE p \in Fragmented
    <3>1. v = Canonized(tools) BY <1>3, <2>1 DEF OnWire
    <3> QED BY <1>1, <2>1, <3>1, CanonizedIs
  <2>2. CASE p \notin Fragmented
    <3>1. v = RawCalls(tools) BY <1>3, <2>2 DEF OnWire
    <3> QED BY <1>1, <2>2, <3>1, RawIs
  <2> QED BY <2>1, <2>2
<1>5. w = Canonized(v) BY <1>3
<1>6. w \in Seq(ToolCalls) /\ DOMAIN w = DOMAIN tools
      /\ \A k \in DOMAIN tools : w[k].name = tools[k].name /\ w[k].args = Canonicalize(v[k].args)
  BY <1>4, <1>5, CanonizedIs
<1>7. ASSUME p \in Fragmented \/ \A k \in DOMAIN tools : Valid(tools[k].args)
      PROVE  Sorted(w) = tools
  <2>1. ASSUME NEW k \in DOMAIN tools PROVE w[k] = tools[k]
    <3>1. v[k].args = tools[k].args
      <4>1. CASE p \in Fragmented BY <1>1, <1>4, <4>1
      <4>2. CASE p \notin Fragmented
        <5>1. v[k].args = ArgsRaw(tools[k].args) /\ Valid(tools[k].args) BY <1>4, <1>7, <4>2
        <5>2. ArgsRaw(tools[k].args) = Canonicalize(tools[k].args) BY <5>1 DEF ArgsRaw, Canonicalize
        <5> QED BY <1>1, <5>1, <5>2
      <4> QED BY <4>1, <4>2
    <3>2. w[k].name = tools[k].name /\ w[k].args = tools[k].args BY <1>1, <1>6, <3>1
    <3>3. PICK c : c = w[k] OBVIOUS
    <3>4. PICK d : d = tools[k] OBVIOUS
    <3>5. c \in ToolCalls /\ d \in ToolCalls BY <1>1, <1>6, <3>3, <3>4, ElementOfSeq, LenProperties
    <3>6. c = d BY <3>2, <3>3, <3>4, <3>5, CallIs
    <3> QED BY <3>3, <3>4, <3>6
  <2>2. IsList(w) /\ IsList(tools) BY <1>1, <1>6, ListIn
  <2>3. w = [k \in DOMAIN w |-> w[k]] /\ tools = [k \in DOMAIN tools |-> tools[k]] BY <2>2, ListHas
  <2>4. w = tools BY <1>6, <2>1, <2>3
  <2> QED BY <1>1, <2>4
<1>8. ASSUME Sorted(w) = tools, p \notin Fragmented, NEW k \in DOMAIN tools PROVE Valid(tools[k].args)
  <2>1. PICK j \in DOMAIN w : tools[k] = w[j] BY <1>6, <1>8, SortedTools
  <2>2. v[j].args = ArgsRaw(tools[j].args) BY <1>4, <1>6, <1>8
  <2>3. PICK raw : raw = ArgsRaw(tools[j].args) OBVIOUS
  <2>4. raw \in DOMAIN Canon BY <2>3, RawFragments
  <2>5. w[j].args = Canonicalize(raw) BY <1>6, <2>2, <2>3
  <2>6. Canonicalize(raw) \in DOMAIN Canon BY <2>4, CanonAssumption DEF Canonicalize, Valid
  <2> QED BY <2>1, <2>5, <2>6 DEF Valid
<1> QED BY <1>7, <1>8

\* Canonized in a dialect and read back.
LEMMA WrittenBack ==
  ASSUME NEW p \in Dialects, NEW text \in Seq(Symbols), NEW tools, AsDecoded(tools), NEW reason \in Symbols,
         NEW t, t = Transcript(text, tools, reason)
  PROVE  Equal(Decode(p, Encode(p, t)), t) <=> Writable(p, t)
<1>1. tools \in Seq(ToolCalls) /\ Sorted(tools) = tools BY DEF AsDecoded
<1>2. Normalize(t) = Transcript(text, tools, reason) BY <1>1, NormalizedIs
<1>3. PICK w : w = Canonized(OnWire(p, tools)) OBVIOUS
<1>4. PICK back : back = Transcript(text, Sorted(w), reason) OBVIOUS
<1>5. Decode(p, Encode(p, t)) = back BY <1>1, <1>2, <1>3, <1>4, EncodedDecoded
<1>6. Normalize(back) = back BY <1>4, NormalizedIs, SortedTwice
<1>7. back.tools = Sorted(w) /\ t.tools = tools BY <1>4, TranscriptIs
<1>8. back = t <=> Sorted(w) = tools BY <1>4, <1>7
<1>9. Equal(back, t) <=> back = t BY <1>2, <1>6 DEF Equal, Digest
<1>10. Sorted(w) = tools <=> p \in Fragmented \/ \A k \in DOMAIN tools : Valid(tools[k].args) BY <1>3, CallsBack
<1>11. Writable(p, t) <=> p \in Fragmented \/ \A k \in DOMAIN tools : Valid(tools[k].args) BY <1>7 DEF Writable
<1> QED BY <1>5, <1>8, <1>9, <1>10, <1>11

\* The invariant tells what every dialect makes of the turn.
LEMMA CodecInvEncodes == CodecInv => EncodedAnywhere
<1> SUFFICES ASSUME CodecInv PROVE EncodedAnywhere OBVIOUS
<1>1. dialect \in Dialects /\ said \in Seq(Symbols) /\ finish \in Symbols BY DEF CodecInv
<1>2. PICK tools : AsDecoded(tools) /\ Decode(dialect, stream) = Transcript(said, tools, finish) BY TurnIs
<1>3. PICK t : t = Transcript(said, tools, finish) OBVIOUS
<1>4. \A p \in Dialects : Equal(Decode(p, Encode(p, t)), t) <=> Writable(p, t) BY <1>1, <1>2, <1>3, WrittenBack
<1>5. RoundTrip(dialect, stream).stable <=> Equal(t, Decode(dialect, Encode(dialect, t)))
  BY <1>2, <1>3 DEF RoundTrip
<1>6. Equal(t, Decode(dialect, Encode(dialect, t))) <=> Equal(Decode(dialect, Encode(dialect, t)), t) BY DEF Equal
<1> QED BY <1>1, <1>2, <1>3, <1>4, <1>5, <1>6 DEF EncodedAnywhere

(***************************************************************************)
(* Codec: a turn that is framed anew                                       *)
(***************************************************************************)

\* A text that is cut is glued together again.
LEMMA TextCut ==
  ASSUME NEW text \in Seq(Symbols), NEW a \in Nat, NEW b \in Nat, a < b, b <= Len(text)
  PROVE  /\ Glued(First(text, a), SubSeq(text, a + 1, b)) = First(text, b)
         /\ SubSeq(text, a + 1, b) \in Seq(Symbols)
<1>17. PICK s : s = First(text, a) OBVIOUS
<1>18. PICK piece : piece = SubSeq(text, a + 1, b) OBVIOUS
<1>1. PICK n \in Nat : n = Len(text) /\ DOMAIN text = 1 .. n BY LenProperties
<1>2. IsList(text) BY ListIn
<1>3. a \in 0 .. Len(text) /\ b \in 0 .. Len(text) BY <1>1
<1>4. IsList(s) /\ Len(s) = a /\ \A k \in 1 .. a : s[k] = text[k] BY <1>2, <1>3, <1>17, FirstIs
<1>5. PICK m \in Nat : m = b - a OBVIOUS
<1>6. /\ piece \in Seq(Symbols) /\ Len(piece) = m
      /\ \A k \in 1 .. m : piece[k] = text[a + k]
  <2>1. a + 1 \in Int /\ b \in Int /\ \A i \in (a + 1) .. b : i \in 1 .. n BY <1>1
  <2>5. \A i \in (a + 1) .. b : text[i] \in Symbols BY <1>1, <2>1, ElementOfSeq
  <2>2. /\ piece \in Seq(Symbols)
        /\ Len(piece) = IF a + 1 <= b THEN b - (a + 1) + 1 ELSE 0
        /\ \A k \in 1 .. b - (a + 1) + 1 : piece[k] = text[(a + 1) + k - 1]
    BY <1>18, <2>1, <2>5, SubSeqProperties
  <2>3. b - (a + 1) + 1 = m /\ a + 1 <= b BY <1>5
  <2>4. \A k \in 1 .. m : (a + 1) + k - 1 = a + k OBVIOUS
  <2> QED BY <2>2, <2>3, <2>4
<1>7. IsList(s) /\ IsList(piece) BY <1>4, <1>6, ListIn
<1>8. PICK w : w = Glued(s, piece) OBVIOUS
<1>9. PICK z : z = First(text, b) OBVIOUS
<1>10. IsList(w) /\ Len(w) = Len(s) + Len(piece) BY <1>4, <1>7, <1>8, ListGlued
<1>11. IsList(z) /\ Len(z) = b /\ DOMAIN z = 1 .. b /\ \A k \in 1 .. b : z[k] = text[k] BY <1>2, <1>3, <1>9, FirstIs
<1>12. Len(w) = b BY <1>4, <1>5, <1>6, <1>10
<1>13. ASSUME NEW k \in 1 .. b PROVE w[k] = z[k]
  <2>1. CASE k <= a
    <3>1. k \in 1 .. Len(s) /\ k \in 1 .. a BY <1>4, <2>1
    <3>2. Glued(s, piece)[k] = s[k] BY <1>7, <3>1, ListGlued
    <3> QED BY <1>4, <1>8, <1>11, <3>1, <3>2
  <2>2. CASE ~(k <= a)
    <3>1. PICK j \in 1 .. m : k = a + j
      <4>1. k - a \in 1 .. m /\ k = a + (k - a) BY <1>5, <2>2
      <4> QED BY <4>1
    <3>2. j \in 1 .. Len(piece) BY <1>6
    <3>3. Glued(s, piece)[Len(s) + j] = piece[j] BY <1>7, <3>2, ListGlued
    <3> QED BY <1>4, <1>6, <1>8, <1>11, <3>1, <3>3
  <2> QED BY <2>1, <2>2
<1>14. w = [k \in DOMAIN w |-> w[k]] /\ DOMAIN w = 1 .. b BY <1>10, <1>12, ListHas
<1>15. z = [k \in DOMAIN z |-> z[k]] BY <1>11, ListHas
<1>16. w = z BY <1>11, <1>13, <1>14, <1>15
<1> QED BY <1>6, <1>8, <1>9, <1>16, <1>17, <1>18

\* Every split of a text is glued together again.
LEMMA SplitsJoined ==
  ASSUME NEW text \in Seq(Symbols), NEW chunks \in Splits(text)
  PROVE  IsList(chunks) /\ Joined(chunks) = text /\ \A k \in DOMAIN chunks : chunks[k] \in Seq(Symbols)
<1>1. CASE Len(text) < 2
  <2>1. chunks = Whole(text) BY <1>1 DEF Splits
  <2> QED BY <2>1, JoinedWhole
<1>2. CASE ~(Len(text) < 2)
  <2>1. PICK l \in Nat : l = Len(text) BY LenProperties
  <2>2. PICK ends \in ChunkEnds(text) :
          chunks = [i \in DOMAIN ends |-> SubSeq(text, (IF i = 1 THEN 0 ELSE ends[i - 1]) + 1, ends[i])]
    BY <1>2 DEF Splits
  <2>3. PICK n \in 2 .. 4 : /\ ends \in [1 .. n -> 1 .. l] /\ ends[n] = l
                            /\ \A i \in 2 .. n : ends[i - 1] < ends[i]
    BY <2>1, <2>2 DEF ChunkEnds
  <2>4. n \in Nat /\ DOMAIN ends = 1 .. n /\ DOMAIN chunks = 1 .. n /\ chunks = [i \in DOMAIN chunks |-> chunks[i]]
    <3>1. n \in Nat /\ DOMAIN ends = 1 .. n BY <2>3
    <3> QED BY <2>2, <3>1
  <2>5. IsList(chunks) /\ Len(chunks) = n BY <2>4, ListOf DEF IsList
  <2>6. PICK at : at = [i \in 0 .. n |-> IF i = 0 THEN 0 ELSE ends[i]] OBVIOUS
  <2>7. ASSUME NEW i \in 0 .. (n - 1)
        PROVE  /\ at[i] \in Nat /\ at[i + 1] \in Nat /\ at[i] < at[i + 1] /\ at[i + 1] <= l
               /\ chunks[i + 1] = SubSeq(text, at[i] + 1, at[i + 1])
    <3>1. PICK k \in 1 .. n : k = i + 1 BY <2>3
    <3>2. k \in 0 .. n /\ k # 0 /\ i \in 0 .. n /\ k - 1 = i /\ (k = 1 <=> i = 0) BY <2>3, <3>1
    <3>3. ends[k] \in 1 .. l /\ at[k] = ends[k] BY <2>3, <2>6, <3>2
    <3>4. chunks[k] = SubSeq(text, (IF k = 1 THEN 0 ELSE ends[k - 1]) + 1, ends[k]) BY <2>2, <2>4
    <3>5. CASE i = 0
      <4>1. at[i] = 0 /\ k = 1 BY <2>6, <3>2, <3>5
      <4> QED BY <2>1, <3>1, <3>3, <3>4, <4>1
    <3>6. CASE i # 0
      <4>1. i \in 1 .. n /\ k \in 2 .. n /\ k # 1 BY <2>3, <3>1, <3>2, <3>6
      <4>2. at[i] = ends[i] /\ ends[i] \in 1 .. l BY <2>3, <2>6, <3>2, <3>6, <4>1
      <4>3. ends[k - 1] < ends[k] BY <2>3, <4>1
      <4>4. chunks[k] = SubSeq(text, ends[k - 1] + 1, ends[k]) BY <3>4, <4>1
      <4>5. chunks[k] = SubSeq(text, at[i] + 1, at[k]) BY <3>2, <3>3, <4>2, <4>4
      <4>6. at[i] < at[k] /\ at[i] \in Nat /\ at[k] \in Nat /\ at[k] <= l BY <2>1, <3>2, <3>3, <4>2, <4>3
      <4> QED BY <3>1, <4>5, <4>6
    <3> QED BY <3>5, <3>6
  <2>8. at[0] = 0 /\ at[n] = l BY <2>3, <2>6
  <2>9. IsList(text) BY ListIn
  <2> DEFINE P == {k \in 0 .. n : Joined(First(chunks, k)) = First(text, at[k])}
  <2>10. 0 \in P
    <3>1. First(chunks, 0) = <<>> /\ First(text, 0) = <<>> BY <2>5, <2>9, FirstAll
    <3> QED BY <2>4, <2>8, <3>1, JoinedEmpty
  <2>11. ASSUME NEW i \in 0 .. (n - 1), i \in P PROVE i + 1 \in P
    <3>1. PICK a \in Nat : a = at[i] BY <2>7
    <3>2. PICK b \in Nat : b = at[i + 1] BY <2>7
    <3>3. a < b /\ b <= Len(text) BY <2>1, <2>7, <3>1, <3>2
    <3>4. PICK piece : piece = chunks[i + 1] OBVIOUS
    <3>5. piece = SubSeq(text, a + 1, b) BY <2>7, <3>1, <3>2, <3>4
    <3>6. PICK s : s = First(text, a) OBVIOUS
    <3>7. Glued(First(text, a), SubSeq(text, a + 1, b)) = First(text, b) BY <3>3, TextCut
    <3>8. s = Joined(First(chunks, i)) BY <2>11, <3>1, <3>6
    <3>9. i \in 0 .. (Len(chunks) - 1) BY <2>5
    <3>10. Joined(First(chunks, i + 1)) = Glued(s, piece) BY <2>5, <3>4, <3>8, <3>9, JoinedFirst
    <3>11. i + 1 \in 0 .. n BY <2>4
    <3> QED BY <3>2, <3>5, <3>6, <3>7, <3>10, <3>11
  <2> HIDE DEF P
  <2>12. \A k \in 0 .. n : k \in P BY <2>4, <2>10, <2>11, SetInduction
  <2>13. n \in P BY <2>4, <2>12
  <2>14. Joined(First(chunks, n)) = First(text, l) BY <2>8, <2>13 DEF P
  <2>15. First(chunks, n) = chunks /\ First(text, l) = text BY <2>1, <2>5, <2>9, FirstAll
  <2>16. ASSUME NEW k \in DOMAIN chunks PROVE chunks[k] \in Seq(Symbols)
    <3>1. PICK i \in 0 .. (n - 1) : k = i + 1
      <4>1. k \in 1 .. n BY <2>4
      <4>2. k - 1 \in 0 .. (n - 1) /\ k = (k - 1) + 1 BY <4>1
      <4> QED BY <4>2
    <3>2. PICK a \in Nat : a = at[i] BY <2>7
    <3>3. PICK b \in Nat : b = at[i + 1] BY <2>7
    <3>4. a < b /\ b <= Len(text) BY <2>1, <2>7, <3>2, <3>3
    <3>5. PICK piece : piece = chunks[k] OBVIOUS
    <3>6. piece = SubSeq(text, a + 1, b) BY <2>7, <3>1, <3>2, <3>3, <3>5
    <3>7. SubSeq(text, a + 1, b) \in Seq(Symbols) BY <3>4, TextCut
    <3> QED BY <3>5, <3>6, <3>7
  <2> QED BY <2>5, <2>14, <2>15, <2>16
<1> QED BY <1>1, <1>2

\* A sequence and its rearrangements have the same rearrangements.
LEMMA Rearranged ==
  ASSUME NEW s, NEW p \in Bijection(DOMAIN s, DOMAIN s), NEW t, t = [i \in DOMAIN s |-> s[p[i]]]
  PROVE  Rearrangements(t) = Rearrangements(s)
<1>1. PICK D : D = DOMAIN s OBVIOUS
<1>2. p \in Bijection(D, D) BY <1>1
<1>4. DOMAIN t = D /\ \A i \in D : t[i] = s[p[i]] BY <1>1
<1>5. \A q \in Bijection(D, D) : q \in [D -> D] BY DEF Bijection, Injection
<1>6. ASSUME NEW u \in Rearrangements(t) PROVE u \in Rearrangements(s)
  <2>1. PICK q \in Bijection(D, D) : u = [i \in D |-> t[q[i]]] BY <1>4 DEF Rearrangements
  <2>2. PICK b : b = [i \in D |-> p[q[i]]] OBVIOUS
  <2>3. b \in Bijection(D, D) BY <1>2, <2>1, <2>2, Fun_BijTransitive
  <2>4. \A i \in D : q[i] \in D /\ t[q[i]] = s[b[i]] BY <1>4, <1>5, <2>1, <2>2
  <2>5. u = [i \in D |-> s[b[i]]] BY <2>1, <2>4
  <2> QED BY <1>1, <2>3, <2>5 DEF Rearrangements
<1>7. ASSUME NEW u \in Rearrangements(s) PROVE u \in Rearrangements(t)
  <2>1. PICK q \in Bijection(D, D) : u = [i \in D |-> s[q[i]]] BY <1>1 DEF Rearrangements
  <2>2. PICK w : w = Inverse(p, D, D) OBVIOUS
  <2>3. w \in Bijection(D, D) /\ \A x \in D : w[x] \in D /\ p[w[x]] = x
    <3>1. w \in Bijection(D, D) BY <1>2, <2>2, Fun_BijInverse
    <3>2. \A x \in D : p[w[x]] = x BY <1>2, <2>2, Fun_BijInverse, Fun_BijectionProperties
    <3> QED BY <1>5, <3>1, <3>2
  <2>4. PICK b : b = [i \in D |-> w[q[i]]] OBVIOUS
  <2>5. b \in Bijection(D, D) BY <2>1, <2>3, <2>4, Fun_BijTransitive
  <2>6. \A i \in D : b[i] \in D /\ t[b[i]] = s[q[i]] BY <1>4, <1>5, <2>1, <2>3, <2>4
  <2>7. u = [i \in D |-> t[b[i]]] BY <2>1, <2>6
  <2> QED BY <1>4, <2>5, <2>7 DEF Rearrangements
<1> QED BY <1>6, <1>7

\* The order in which calls are written does not matter once they are sorted.
LEMMA SortedAnyOrder ==
  ASSUME NEW tools \in Seq(ToolCalls), NEW q \in Bijection(DOMAIN tools, DOMAIN tools),
         NEW u, u = [k \in DOMAIN tools |-> tools[q[k]]]
  PROVE  u \in Seq(ToolCalls) /\ Sorted(Canonized(Canonized(u))) = Sorted(Canonized(Canonized(tools)))
<1>1. PICK n \in Nat : Len(tools) = n /\ DOMAIN tools = 1 .. n BY LenProperties
<1>2. q \in [1 .. n -> 1 .. n] BY <1>1 DEF Bijection, Injection
<1>3. \A k \in 1 .. n : tools[k] \in ToolCalls BY <1>1, ElementOfSeq
<1>4. u \in [1 .. n -> ToolCalls] BY <1>1, <1>2, <1>3
<1>5. u \in Seq(ToolCalls) BY <1>4, SeqDef
<1>6. PICK w : w = Canonized(Canonized(tools)) OBVIOUS
<1>7. PICK v : v = Canonized(Canonized(u)) OBVIOUS
<1>8. DOMAIN w = DOMAIN tools /\ DOMAIN v = DOMAIN tools BY <1>1, <1>4, <1>6, <1>7 DEF Canonized
<1>9. ASSUME NEW k \in DOMAIN tools PROVE v[k] = w[q[k]]
  <2>1. PICK j \in DOMAIN tools : j = q[k] BY <1>1, <1>2
  <2>2. u[k] = tools[j] /\ k \in DOMAIN u BY <1>1, <1>4, <2>1
  <2>3. v[k] = ToolCall(ToolCall(u[k].name, u[k].args).name, ToolCall(u[k].name, u[k].args).args)
    BY <1>7, <2>2 DEF Canonized
  <2>4. w[j] = ToolCall(ToolCall(tools[j].name, tools[j].args).name, ToolCall(tools[j].name, tools[j].args).args)
    BY <1>6 DEF Canonized
  <2> QED BY <2>1, <2>2, <2>3, <2>4
<1>10. v = [k \in DOMAIN w |-> w[q[k]]]
  <2>1. v = [k \in DOMAIN v |-> v[k]] BY <1>7 DEF Canonized
  <2> QED BY <1>8, <1>9, <2>1
<1>11. q \in Bijection(DOMAIN w, DOMAIN w) BY <1>8
<1>12. Rearrangements(v) = Rearrangements(w) BY <1>10, <1>11, Rearranged
<1>13. Sorted(v) = Sorted(w) BY <1>12 DEF Sorted
<1> QED BY <1>5, <1>6, <1>7, <1>13

\* The invariant tells what every reframing of the turn decodes to.
LEMMA CodecInvReframes == CodecInv => ReframedSame
<1> SUFFICES ASSUME CodecInv PROVE ReframedSame OBVIOUS
<1>1. dialect \in Dialects /\ said \in Seq(Symbols) /\ finish \in Symbols BY DEF CodecInv
<1>2. PICK tools : AsDecoded(tools) /\ Decode(dialect, stream) = Transcript(said, tools, finish) BY TurnIs
<1>3. PICK t : t = Transcript(said, tools, finish) OBVIOUS
<1>4. tools \in Seq(ToolCalls) /\ Sorted(tools) = tools BY <1>2 DEF AsDecoded
<1>5. Normalize(t) = Transcript(said, tools, finish) /\ Normalize(t) = t BY <1>3, <1>4, NormalizedIs
<1>6. t.text = said /\ t.tools = tools /\ t.finish = finish BY <1>3, TranscriptIs
<1>7. ASSUME NEW p \in Dialects, NEW s \in Reframings(p, t)
      PROVE  Equal(Decode(p, s), Decode(p, Encode(p, t)))
  <2>1. CASE p # "anthropic"
    <3>1. s = Encode(p, t) BY <2>1 DEF Reframings
    <3> QED BY <3>1 DEF Equal
  <2>2. CASE p = "anthropic"
    <3>1. PICK chunks \in Splits(said), q \in Bijection(DOMAIN tools, DOMAIN tools) :
            s = AnthropicStream(chunks, [k \in DOMAIN tools |-> tools[q[k]]], finish)
      BY <1>5, <1>6, <2>2 DEF Reframings
    <3>2. PICK u : u = [k \in DOMAIN tools |-> tools[q[k]]] OBVIOUS
    <3>3. u \in Seq(ToolCalls) /\ Sorted(Canonized(Canonized(u))) = Sorted(Canonized(Canonized(tools)))
      BY <1>4, <3>2, SortedAnyOrder
    <3>4. IsList(chunks) /\ Joined(chunks) = said /\ \A k \in DOMAIN chunks : chunks[k] \in Seq(Symbols)
      BY <1>1, SplitsJoined
    <3>5. PICK w : w = Canonized(u) OBVIOUS
    <3>6. PICK r : r = Read("anthropic", AnthropicStream(chunks, u, finish)) OBVIOUS
    <3>7. Back(r, Joined(chunks), w, finish) BY <1>1, <3>3, <3>4, <3>5, <3>6, AnthropicRead
    <3>8. Back(r, said, w, finish) /\ r.finish = finish BY <3>4, <3>7 DEF Back
    <3>9. Assembled(r) = Transcript(said, Canonized(w), finish) BY <3>8, BackIs
    <3>10. Normalize(Transcript(said, Canonized(w), finish)) = Transcript(said, Sorted(Canonized(w)), finish) BY NormalizedIs
    <3>11. Decode(p, s) = Transcript(said, Sorted(Canonized(w)), finish)
      BY <2>2, <3>1, <3>2, <3>6, <3>9, <3>10 DEF Decode
    <3>12. Decode(p, Encode(p, t)) = Transcript(said, Sorted(Canonized(OnWire(p, tools))), finish)
      BY <1>1, <1>4, <1>5, EncodedDecoded
    <3>13. OnWire(p, tools) = Canonized(tools) BY <2>2 DEF OnWire, Fragmented
    <3>14. Decode(p, s) = Decode(p, Encode(p, t)) BY <3>3, <3>5, <3>11, <3>12, <3>13
    <3> QED BY <3>14 DEF Equal
  <2> QED BY <2>1, <2>2
<1> QED BY <1>2, <1>3, <1>7 DEF ReframedSame

\* A turn that is decoded and written in a dialect is decoded to the same turn again exactly when
\* the dialect can carry it, and validate's round trip is stable exactly then (wireenc.go): only
\* arguments that are no document are lost, and only where a dialect writes them as an object.
\* For every stream of a provider and every set of documents.
THEOREM EncodedAnywhereCorrect == CodecSpec => []EncodedAnywhere
<1>1. CodecInit => CodecInv BY CodecInvInit
<1>2. CodecInv /\ [CodecNext]_codecVars => CodecInv' BY CodecInvNext
<1>3. CodecInv => EncodedAnywhere BY CodecInvEncodes
<1> QED BY <1>1, <1>2, <1>3, PTL DEF CodecSpec

\* Splitting the text of a turn anew and writing its calls in another order (fuzz, wireenc.go)
\* decodes to the turn that Encode writes, in every dialect.
THEOREM ReframedSameCorrect == CodecSpec => []ReframedSame
<1>1. CodecInit => CodecInv BY CodecInvInit
<1>2. CodecInv /\ [CodecNext]_codecVars => CodecInv' BY CodecInvNext
<1>3. CodecInv => ReframedSame BY CodecInvReframes
<1> QED BY <1>1, <1>2, <1>3, PTL DEF CodecSpec

(***************************************************************************)
(* Streams of any provider                                                 *)
(***************************************************************************)

\* A block is opened, whether or not there was one of its index.
LEMMA OpenedSound ==
  ASSUME NEW r, Sound(r), NEW i \in Nat, NEW type \in {"text", "tool"}, NEW name \in Symbols,
         NEW q, q = Opened(r, i, type, name)
  PROVE  Sound(q) /\ i \in DOMAIN q.items /\ q.failed = r.failed
<1> DEFINE new == NewBlock(type, name)
           items == With(r.items, i, new)
           order == Append(r.order, i)
           D == {i} \cup DOMAIN r.items
<1>1. /\ r.items \in [DOMAIN r.items -> Pieces] /\ DOMAIN r.items \subseteq Nat /\ r.order \in Seq(Nat)
      /\ r.text \in Seq(Symbols) /\ r.finish \in Symbols /\ r.failed \in BOOLEAN /\ r \in Accs
  BY AccIs DEF Sound
<1>2. new \in Pieces BY DEF Pieces, NewBlock
<1>3. items \in [D -> Pieces] /\ D \in SUBSET Nat
  <2> HIDE DEF new
  <2> QED BY <1>1, <1>2 DEF With
<1>4. PICK n \in Nat : Len(r.order) = n /\ DOMAIN r.order = 1 .. n BY <1>1, LenProperties
<1>5. /\ order \in Seq(Nat) /\ DOMAIN order = 1 .. (n + 1)
      /\ \A k \in 1 .. n : order[k] = r.order[k]
      /\ order[n + 1] = i
  BY <1>1, <1>4, AppendProperties, LenProperties
<1>6. q = Rebuilt(r, items, order) BY <1>1, OpenedRecord
<1> HIDE DEF items, order
<1>7. q.items = items /\ q.order = order /\ q.failed = r.failed BY <1>6 DEF Rebuilt
<1>8. q \in Accs BY <1>1, <1>3, <1>5, <1>6, AccOf DEF Rebuilt
<1>9. ASSUME NEW k \in 1 .. (n + 1) PROVE order[k] \in D
  <2>1. k \in 1 .. n \/ k = n + 1 OBVIOUS
  <2>2. \A m \in 1 .. n : r.order[m] \in DOMAIN r.items BY <1>4 DEF Sound
  <2> QED BY <1>5, <2>1, <2>2
<1>10. DOMAIN items = D BY <1>3
<1> QED BY <1>5, <1>7, <1>8, <1>9, <1>10 DEF Sound

\* More text and more arguments for a block, and a name.
LEMMA TextToSound ==
  ASSUME NEW r, Sound(r), NEW i, NEW c \in Seq(Symbols), NEW q, q = TextTo(r, i, c)
  PROVE  Sound(q) /\ q.failed = r.failed
<1>1. CASE i \notin DOMAIN r.items BY <1>1 DEF TextTo
<1>2. CASE i \in DOMAIN r.items
  <2>1. /\ r = [items |-> r.items, order |-> r.order, text |-> r.text, finish |-> r.finish, failed |-> r.failed]
        /\ r.items[i] \in Pieces
    BY <1>2, AccIs DEF Sound
  <2>2. PICK t : t = r.items[i].text \o c OBVIOUS
  <2>3. t \in Seq(Symbols) BY <2>1, <2>2, ConcatProperties DEF Pieces
  <2>4. PICK piece : piece = [r.items[i] EXCEPT !.text = t] OBVIOUS
  <2>5. piece \in Pieces /\ piece.type = r.items[i].type BY <2>1, <2>3, <2>4 DEF Pieces
  <2>6. q = [r EXCEPT !.items = [r.items EXCEPT ![i] = piece]] BY <1>2, <2>2, <2>4 DEF TextTo
  <2>7. \A new : [r EXCEPT !.items = new] = [items |-> new, order |-> r.order, text |-> r.text,
                                             finish |-> r.finish, failed |-> r.failed]
    BY <2>1
  <2>8. q = Replaced(r, i, piece) BY <2>6, <2>7 DEF Replaced
  <2> QED BY <1>2, <2>5, <2>8, PieceIs
<1> QED BY <1>1, <1>2

LEMMA ArgsToSound ==
  ASSUME NEW r, Sound(r), NEW i, NEW c \in Seq(Symbols), NEW q, q = ArgsTo(r, i, c)
  PROVE  Sound(q) /\ q.failed = r.failed
<1>1. CASE i \notin DOMAIN r.items BY <1>1 DEF ArgsTo
<1>2. CASE i \in DOMAIN r.items
  <2>1. /\ r = [items |-> r.items, order |-> r.order, text |-> r.text, finish |-> r.finish, failed |-> r.failed]
        /\ r.items[i] \in Pieces
    BY <1>2, AccIs DEF Sound
  <2>2. PICK t : t = r.items[i].args \o c OBVIOUS
  <2>3. t \in Seq(Symbols) BY <2>1, <2>2, ConcatProperties DEF Pieces
  <2>4. PICK piece : piece = [r.items[i] EXCEPT !.args = t] OBVIOUS
  <2>5. piece \in Pieces /\ piece.type = r.items[i].type BY <2>1, <2>3, <2>4 DEF Pieces
  <2>6. q = [r EXCEPT !.items = [r.items EXCEPT ![i] = piece]] BY <1>2, <2>2, <2>4 DEF ArgsTo
  <2>7. \A new : [r EXCEPT !.items = new] = [items |-> new, order |-> r.order, text |-> r.text,
                                             finish |-> r.finish, failed |-> r.failed]
    BY <2>1
  <2>8. q = Replaced(r, i, piece) BY <2>6, <2>7 DEF Replaced
  <2> QED BY <1>2, <2>5, <2>8, PieceIs
<1> QED BY <1>1, <1>2

LEMMA NamedSound ==
  ASSUME NEW r, Sound(r), NEW i \in DOMAIN r.items, NEW name \in Symbols, NEW q, q = Named(r, i, name)
  PROVE  Sound(q) /\ q.failed = r.failed
<1>1. CASE name = Unset BY <1>1 DEF Named
<1>2. CASE name # Unset
  <2>1. /\ r = [items |-> r.items, order |-> r.order, text |-> r.text, finish |-> r.finish, failed |-> r.failed]
        /\ r.items[i] \in Pieces
    BY AccIs DEF Sound
  <2>4. PICK piece : piece = [r.items[i] EXCEPT !.name = name] OBVIOUS
  <2>5. piece \in Pieces /\ piece.type = r.items[i].type BY <2>1, <2>4 DEF Pieces
  <2>6. q = [r EXCEPT !.items = [r.items EXCEPT ![i] = piece]] BY <1>2, <2>4 DEF Named
  <2>7. \A new : [r EXCEPT !.items = new] = [items |-> new, order |-> r.order, text |-> r.text,
                                             finish |-> r.finish, failed |-> r.failed]
    BY <2>1
  <2>8. q = Replaced(r, i, piece) BY <2>6, <2>7 DEF Replaced
  <2> QED BY <2>5, <2>8, PieceIs
<1> QED BY <1>1, <1>2

LEMMA SpokenSound ==
  ASSUME NEW r, Sound(r), NEW c \in Seq(Symbols), NEW q, q = Spoken(r, c)
  PROVE  Sound(q) /\ q.failed = r.failed
<1>0. r \in Accs BY DEF Sound
<1>1. r.text \o c \in Seq(Symbols) BY <1>0, AccIs, ConcatProperties
<1>2. q.items = r.items /\ q.order = r.order /\ q.failed = r.failed /\ q \in Accs
  BY <1>0, <1>1 DEF Spoken, Accs
<1> QED BY <1>2 DEF Sound

LEMMA FinishedSound ==
  ASSUME NEW r, Sound(r), NEW reason \in Symbols, NEW q, q = Finished(r, reason)
  PROVE  Sound(q) /\ q.failed = r.failed
<1>0. r \in Accs BY DEF Sound
<1>2. q.items = r.items /\ q.order = r.order /\ q.failed = r.failed /\ q \in Accs
  BY <1>0 DEF Finished, Accs
<1> QED BY <1>2 DEF Sound

LEMMA FailedSound ==
  ASSUME NEW r, Sound(r), NEW q, q = [r EXCEPT !.failed = TRUE]
  PROVE  Sound(q)
<1>0. r \in Accs BY DEF Sound
<1>2. q.items = r.items /\ q.order = r.order /\ q \in Accs BY <1>0 DEF Accs
<1> QED BY <1>2 DEF Sound

LEMMA CalledSound ==
  ASSUME NEW r, Sound(r), NEW name \in Symbols, NEW args \in Seq(Symbols), NEW q, q = Called(r, name, args)
  PROVE  Sound(q) /\ q.failed = r.failed
<1>1. PICK i \in Nat : i = Len(r.order) + 1 BY AccIs DEF Sound
<1>2. PICK type \in {"text", "tool"} : type = "tool" OBVIOUS
<1>3. PICK s : s = Opened(r, i, type, name) OBVIOUS
<1>4. Sound(s) /\ s.failed = r.failed BY <1>3, OpenedSound
<1>5. q = ArgsTo(s, i, args) BY <1>1, <1>2, <1>3 DEF Called
<1> QED BY <1>4, <1>5, ArgsToSound

\* The fold over the calls of a chunk, as an operator and step by step.
ChatFold(r, ss) == Folded(ChatCall, r, ss)

LEMMA ChatCallsDef ==
  ASSUME NEW r, NEW ss, Len(ss) \in Nat
  PROVE  \E f : /\ f = [k \in 0 .. Len(ss) |-> IF k = 0 THEN r ELSE ChatCall(f[k - 1], ss[k])]
               /\ ChatFold(r, ss) = f[Len(ss)]
<1> DEFINE Fold(g, m) == g = [k \in 0 .. m |-> IF k = 0 THEN r ELSE ChatCall(g[k - 1], ss[k])]
           P == {m \in Nat : \E g : Fold(g, m)}
<1>1. 0 \in P
  <2>1. Fold([k \in 0 .. 0 |-> r], 0) OBVIOUS
  <2> QED BY <2>1
<1>2. ASSUME NEW m \in Nat, m \in P PROVE m + 1 \in P
  <2>1. PICK g : Fold(g, m) BY <1>2
  <2> DEFINE h == [k \in 0 .. (m + 1) |-> IF k <= m THEN g[k] ELSE ChatCall(g[m], ss[(m + 1)])]
  <2>2. ASSUME NEW k \in 0 .. (m + 1)
        PROVE  h[k] = IF k = 0 THEN r ELSE ChatCall(h[k - 1], ss[k])
    <3>1. CASE k = 0 BY <2>1, <3>1
    <3>2. CASE k \in 1 .. m
      <4>1. h[k] = g[k] /\ h[k - 1] = g[k - 1] BY <3>2
      <4>2. \A j \in 0 .. m : g[j] = IF j = 0 THEN r ELSE ChatCall(g[j - 1], ss[j]) BY <2>1
      <4>3. g[k] = ChatCall(g[k - 1], ss[k]) BY <3>2, <4>2
      <4> QED BY <3>2, <4>1, <4>3
    <3>3. CASE k = m + 1
      <4>1. h[k] = ChatCall(g[m], ss[k]) /\ h[k - 1] = g[m] BY <3>3
      <4> QED BY <3>3, <4>1
    <3> QED BY <3>1, <3>2, <3>3
  <2>3. Fold(h, m + 1) BY <2>2
  <2> HIDE DEF h, Fold
  <2>4. \E x : Fold(x, m + 1) BY <2>3
  <2> QED BY <2>4
<1>3. Len(ss) \in P
  <2> HIDE DEF P
  <2>1. PICK l \in Nat : l = Len(ss) OBVIOUS
  <2>2. \A n \in 0 .. (l - 1) : n \in P => n + 1 \in P BY <1>2, <2>1
  <2>3. \A n \in 0 .. l : n \in P BY <1>1, <2>2, SetInduction
  <2> QED BY <2>1, <2>3
<1>4. PICK g : Fold(g, Len(ss)) BY <1>3
<1>5. ChatFold(r, ss) = (CHOOSE x : Fold(x, Len(ss)))[Len(ss)] BY DEF Folded, ChatFold
<1> HIDE DEF Fold
<1>6. Fold((CHOOSE x : Fold(x, Len(ss))), Len(ss)) BY <1>4
<1> QED BY <1>5, <1>6 DEF Fold

\* What the decoders look into.
CallOf  == [name : Symbols, args : Seq(Symbols)]
ChatOf  == [index : Nat, name : Symbols, args : Seq(Symbols)]
PartsOf == [type : {"text"}, text : Seq(Symbols)] \cup [type : {"call"}, name : Symbols, args : Seq(Symbols)]

\* One call of a chunk, one part of a response and one call of a line.
LEMMA ChatCallSound ==
  ASSUME NEW r, Sound(r), NEW c \in ChatOf, NEW q, q = ChatCall(r, c)
  PROVE  Sound(q) /\ q.failed = r.failed
<1>0. c.index \in Nat /\ c.name \in Symbols /\ c.args \in Seq(Symbols) BY DEF ChatOf
<1>1. PICK o : o = IF c.index \in DOMAIN r.items THEN r ELSE Opened(r, c.index, "tool", Unset) OBVIOUS
<1>2. Unset \in Symbols BY DEF Symbols
<1>3. Sound(o) /\ c.index \in DOMAIN o.items /\ o.failed = r.failed
  <2>1. CASE c.index \in DOMAIN r.items BY <1>1, <2>1
  <2>2. CASE c.index \notin DOMAIN r.items
    <3>1. PICK type : type = "tool" OBVIOUS
    <3>2. PICK i : i = c.index OBVIOUS
    <3>3. o = Opened(r, i, type, Unset) BY <1>1, <2>2, <3>1, <3>2
    <3>4. i \in Nat /\ type \in {"text", "tool"} BY <1>0, <3>1, <3>2
    <3>5. Sound(o) /\ i \in DOMAIN o.items /\ o.failed = r.failed BY <1>2, <3>3, <3>4, OpenedSound
    <3> QED BY <3>2, <3>5
  <2> QED BY <2>1, <2>2
<1>4. PICK n : n = Named(o, c.index, c.name) OBVIOUS
<1>5. Sound(n) /\ n.failed = r.failed BY <1>0, <1>3, <1>4, NamedSound
<1>6. q = ArgsTo(n, c.index, c.args) BY <1>1, <1>4 DEF ChatCall
<1> QED BY <1>0, <1>5, <1>6, ArgsToSound

LEMMA PartSound ==
  ASSUME NEW r, Sound(r), NEW c \in PartsOf, NEW q, q = Part(r, c)
  PROVE  Sound(q) /\ q.failed = r.failed
<1>1. CASE c \in [type : {"text"}, text : Seq(Symbols)]
  <2>1. c.type = "text" /\ c.text \in Seq(Symbols) BY <1>1
  <2>2. q = Spoken(r, c.text) BY <2>1 DEF Part
  <2> QED BY <2>1, <2>2, SpokenSound
<1>2. CASE c \in [type : {"call"}, name : Symbols, args : Seq(Symbols)]
  <2>1. c.type = "call" /\ c.name \in Symbols /\ c.args \in Seq(Symbols) BY <1>2
  <2>2. q = Called(r, c.name, c.args) BY <2>1 DEF Part
  <2> QED BY <2>1, <2>2, CalledSound
<1> QED BY <1>1, <1>2 DEF PartsOf

LEMMA OllamaCallSound ==
  ASSUME NEW r, Sound(r), NEW c \in CallOf, NEW q, q = OllamaCall(r, c)
  PROVE  Sound(q) /\ q.failed = r.failed
<1>1. c.name \in Symbols /\ c.args \in Seq(Symbols) BY DEF CallOf
<1>2. q = Called(r, c.name, c.args) BY DEF OllamaCall
<1> QED BY <1>1, <1>2, CalledSound

\* All of them.
LEMMA ChatFoldSound ==
  ASSUME NEW r, Sound(r), NEW ss \in Seq(ChatOf), NEW q, q = ChatFold(r, ss)
  PROVE  Sound(q) /\ q.failed = r.failed
<1>1. PICK n \in Nat : n = Len(ss) /\ DOMAIN ss = 1 .. n BY LenProperties
<1>2. PICK f : /\ f = [k \in 0 .. n |-> IF k = 0 THEN r ELSE ChatCall(f[k - 1], ss[k])]
               /\ ChatFold(r, ss) = f[n]
  BY <1>1, ChatCallsDef
<1> DEFINE P == {k \in 0 .. n : Sound(f[k]) /\ f[k].failed = r.failed}
<1>3. 0 \in P BY <1>2
<1>4. ASSUME NEW k \in 0 .. (n - 1), k \in P PROVE k + 1 \in P
  <2>1. k + 1 \in 1 .. n /\ (k + 1) - 1 = k OBVIOUS
  <2>2. f[k + 1] = ChatCall(f[k], ss[k + 1]) BY <1>2, <2>1
  <2>3. ss[k + 1] \in ChatOf BY <1>1, <2>1
  <2>4. Sound(f[k]) /\ f[k].failed = r.failed BY <1>4
  <2>5. Sound(f[k + 1]) /\ f[k + 1].failed = r.failed BY <2>2, <2>3, <2>4, ChatCallSound
  <2> QED BY <2>1, <2>5
<1> HIDE DEF P
<1>5. \A k \in 0 .. n : k \in P BY <1>3, <1>4, SetInduction
<1> QED BY <1>2, <1>5 DEF P

LEMMA PartsFoldSound ==
  ASSUME NEW r, Sound(r), NEW ss \in Seq(PartsOf), NEW q, q = PartsFold(r, ss)
  PROVE  Sound(q) /\ q.failed = r.failed
<1>1. PICK n \in Nat : n = Len(ss) /\ DOMAIN ss = 1 .. n BY LenProperties
<1>2. PICK f : /\ f = [k \in 0 .. n |-> IF k = 0 THEN r ELSE Part(f[k - 1], ss[k])]
               /\ PartsFold(r, ss) = f[n]
  BY <1>1, PartsDef
<1> DEFINE P == {k \in 0 .. n : Sound(f[k]) /\ f[k].failed = r.failed}
<1>3. 0 \in P BY <1>2
<1>4. ASSUME NEW k \in 0 .. (n - 1), k \in P PROVE k + 1 \in P
  <2>1. k + 1 \in 1 .. n /\ (k + 1) - 1 = k OBVIOUS
  <2>2. f[k + 1] = Part(f[k], ss[k + 1]) BY <1>2, <2>1
  <2>3. ss[k + 1] \in PartsOf BY <1>1, <2>1
  <2>4. Sound(f[k]) /\ f[k].failed = r.failed BY <1>4
  <2>5. Sound(f[k + 1]) /\ f[k + 1].failed = r.failed BY <2>2, <2>3, <2>4, PartSound
  <2> QED BY <2>1, <2>5
<1> HIDE DEF P
<1>5. \A k \in 0 .. n : k \in P BY <1>3, <1>4, SetInduction
<1> QED BY <1>2, <1>5 DEF P

LEMMA CallsFoldSound ==
  ASSUME NEW r, Sound(r), NEW ss \in Seq(CallOf), NEW q, q = CallsFold(r, ss)
  PROVE  Sound(q) /\ q.failed = r.failed
<1>1. PICK n \in Nat : n = Len(ss) /\ DOMAIN ss = 1 .. n BY LenProperties
<1>2. PICK f : /\ f = [k \in 0 .. n |-> IF k = 0 THEN r ELSE OllamaCall(f[k - 1], ss[k])]
               /\ CallsFold(r, ss) = f[n]
  BY <1>1, OllamaCallsDef
<1> DEFINE P == {k \in 0 .. n : Sound(f[k]) /\ f[k].failed = r.failed}
<1>3. 0 \in P BY <1>2
<1>4. ASSUME NEW k \in 0 .. (n - 1), k \in P PROVE k + 1 \in P
  <2>1. k + 1 \in 1 .. n /\ (k + 1) - 1 = k OBVIOUS
  <2>2. f[k + 1] = OllamaCall(f[k], ss[k + 1]) BY <1>2, <2>1
  <2>3. ss[k + 1] \in CallOf BY <1>1, <2>1
  <2>4. Sound(f[k]) /\ f[k].failed = r.failed BY <1>4
  <2>5. Sound(f[k + 1]) /\ f[k + 1].failed = r.failed BY <2>2, <2>3, <2>4, OllamaCallSound
  <2> QED BY <2>1, <2>5
<1> HIDE DEF P
<1>5. \A k \in 0 .. n : k \in P BY <1>3, <1>4, SetInduction
<1> QED BY <1>2, <1>5 DEF P

\* What each event carries.
Carries(e) ==
  /\ e.type = "content_block_start" => e.index \in Nat /\ e.block \in {"text", "tool"} /\ e.name \in Symbols
  /\ e.type = "text_delta" => e.index \in Nat /\ e.text \in Seq(Symbols)
  /\ e.type \in {"input_json_delta", "response.function_call_arguments.delta"} => e.index \in Nat /\ e.args \in Seq(Symbols)
  /\ e.type \in {"message_delta", "response.completed"} => e.finish \in Symbols
  /\ e.type = "chunk" => e.text \in Seq(Symbols) /\ e.calls \in Seq(ChatOf) /\ e.finish \in Symbols
  /\ e.type = "response.output_text.delta" => e.text \in Seq(Symbols)
  /\ e.type = "response.output_item.added" => e.index \in Nat /\ e.name \in Symbols
  /\ e.type = "response" => e.parts \in Seq(PartsOf) /\ e.finish \in Symbols
  /\ e.type = "line" => e.text \in Seq(Symbols) /\ e.calls \in Seq(CallOf) /\ e.finish \in Symbols

LEMMA EventCarries == ASSUME NEW e \in Events(Symbols) PROVE Carries(e)
<1>1. CASE e \in [type : {"noise", "error"}] BY <1>1, Zenon DEF Carries
<1>2. CASE e \in [type : {"content_block_start"}, index : Nat, block : {"text", "tool"}, name : Symbols] BY <1>2 DEF Carries
<1>3. CASE e \in [type : {"text_delta"}, index : Nat, text : Seq(Symbols)] BY <1>3 DEF Carries
<1>4. CASE e \in [type : {"input_json_delta", "response.function_call_arguments.delta"}, index : Nat, args : Seq(Symbols)]
  BY <1>4 DEF Carries
<1>5. CASE e \in [type : {"message_delta", "response.completed"}, finish : Symbols] BY <1>5 DEF Carries
<1>6. CASE e \in [type : {"chunk"}, text : Seq(Symbols), calls : Seq(ChatOf), finish : Symbols] BY <1>6 DEF Carries
<1>7. CASE e \in [type : {"response.output_text.delta"}, text : Seq(Symbols)] BY <1>7 DEF Carries
<1>8. CASE e \in [type : {"response.output_item.added"}, index : Nat, item : {"message", "function_call"}, name : Symbols]
  BY <1>8 DEF Carries
<1>9. CASE e \in [type : {"response"}, parts : Seq(PartsOf), finish : Symbols] BY <1>9 DEF Carries
<1>10. CASE e \in [type : {"line"}, text : Seq(Symbols), calls : Seq(CallOf), finish : Symbols] BY <1>10 DEF Carries
<1>11. \/ e \in [type : {"noise", "error"}]
       \/ e \in [type : {"content_block_start"}, index : Nat, block : {"text", "tool"}, name : Symbols]
       \/ e \in [type : {"text_delta"}, index : Nat, text : Seq(Symbols)]
       \/ e \in [type : {"input_json_delta", "response.function_call_arguments.delta"}, index : Nat, args : Seq(Symbols)]
       \/ e \in [type : {"message_delta", "response.completed"}, finish : Symbols]
       \/ e \in [type : {"chunk"}, text : Seq(Symbols), calls : Seq(ChatOf), finish : Symbols]
       \/ e \in [type : {"response.output_text.delta"}, text : Seq(Symbols)]
       \/ e \in [type : {"response.output_item.added"}, index : Nat, item : {"message", "function_call"}, name : Symbols]
       \/ e \in [type : {"response"}, parts : Seq(PartsOf), finish : Symbols]
       \/ e \in [type : {"line"}, text : Seq(Symbols), calls : Seq(CallOf), finish : Symbols]
  BY Zenon DEF Events, ChatOf, PartsOf, CallOf
<1> QED BY <1>1, <1>2, <1>3, <1>4, <1>5, <1>6, <1>7, <1>8, <1>9, <1>10, <1>11, Zenon

\* What an event of each dialect leaves is an accumulator, and only an error fails the stream.
StepSound(r, e, q) == Sound(q) /\ (e.type # "error" => q.failed = r.failed)

LEMMA AnthropicSound ==
  ASSUME NEW r, Sound(r), NEW e, Carries(e), NEW q, q = AnthropicStep(r, e)
  PROVE  StepSound(r, e, q)
<1>1. CASE e.type = "content_block_start"
  <2>1. q = Opened(r, e.index, e.block, e.name) BY <1>1 DEF AnthropicStep
  <2>2. e.index \in Nat /\ e.block \in {"text", "tool"} /\ e.name \in Symbols BY <1>1 DEF Carries
  <2> QED BY <2>1, <2>2, OpenedSound DEF StepSound
<1>2. CASE e.type = "text_delta"
  <2>1. q = TextTo(r, e.index, e.text) BY <1>2 DEF AnthropicStep
  <2>2. e.text \in Seq(Symbols) BY <1>2 DEF Carries
  <2> QED BY <2>1, <2>2, TextToSound DEF StepSound
<1>3. CASE e.type = "input_json_delta"
  <2>1. q = ArgsTo(r, e.index, e.args) BY <1>3 DEF AnthropicStep
  <2>2. e.args \in Seq(Symbols) BY <1>3 DEF Carries
  <2> QED BY <2>1, <2>2, ArgsToSound DEF StepSound
<1>4. CASE e.type = "message_delta"
  <2>1. q = Finished(r, e.finish) BY <1>4 DEF AnthropicStep
  <2>2. e.finish \in Symbols BY <1>4 DEF Carries
  <2> QED BY <2>1, <2>2, FinishedSound DEF StepSound
<1>5. CASE e.type = "error"
  <2>1. q = [r EXCEPT !.failed = TRUE] BY <1>5 DEF AnthropicStep
  <2> QED BY <1>5, <2>1, FailedSound DEF StepSound
<1>6. CASE e.type \notin {"content_block_start", "text_delta", "input_json_delta", "message_delta", "error"}
  <2>1. q = r BY <1>6 DEF AnthropicStep
  <2> QED BY <2>1 DEF StepSound
<1> QED BY <1>1, <1>2, <1>3, <1>4, <1>5, <1>6

LEMMA ChatSound ==
  ASSUME NEW r, Sound(r), NEW e, Carries(e), NEW q, q = OpenAIChatStep(r, e)
  PROVE  StepSound(r, e, q)
<1>1. CASE e.type = "chunk"
  <2>1. PICK a : a = Spoken(r, e.text) OBVIOUS
  <2>2. PICK b : b = ChatFold(a, e.calls) OBVIOUS
  <2>3. q = Finished(b, e.finish) BY <1>1, <2>1, <2>2 DEF OpenAIChatStep, ChatFold
  <2>4. e.text \in Seq(Symbols) /\ e.calls \in Seq(ChatOf) /\ e.finish \in Symbols BY <1>1 DEF Carries
  <2>5. Sound(a) /\ a.failed = r.failed BY <2>1, <2>4, SpokenSound
  <2>6. Sound(b) /\ b.failed = r.failed BY <2>2, <2>4, <2>5, ChatFoldSound
  <2> QED BY <2>3, <2>4, <2>6, FinishedSound DEF StepSound
<1>2. CASE e.type # "chunk" BY <1>2 DEF OpenAIChatStep, StepSound
<1> QED BY <1>1, <1>2

LEMMA ResponsesSound ==
  ASSUME NEW r, Sound(r), NEW e, Carries(e), NEW q, q = OpenAIResponsesStep(r, e)
  PROVE  StepSound(r, e, q)
<1>1. CASE e.type = "response.output_text.delta"
  <2>1. q = Spoken(r, e.text) BY <1>1 DEF OpenAIResponsesStep
  <2>2. e.text \in Seq(Symbols) BY <1>1 DEF Carries
  <2> QED BY <2>1, <2>2, SpokenSound DEF StepSound
<1>2. CASE e.type = "response.output_item.added"
  <2>1. PICK type : type = "tool" OBVIOUS
  <2>2. q = r \/ q = Opened(r, e.index, type, e.name) BY <1>2, <2>1 DEF OpenAIResponsesStep
  <2>3. e.index \in Nat /\ e.name \in Symbols /\ type \in {"text", "tool"} BY <1>2, <2>1 DEF Carries
  <2> QED BY <2>2, <2>3, OpenedSound DEF StepSound
<1>3. CASE e.type = "response.function_call_arguments.delta"
  <2>1. q = ArgsTo(r, e.index, e.args) BY <1>3 DEF OpenAIResponsesStep
  <2>2. e.args \in Seq(Symbols) BY <1>3 DEF Carries
  <2> QED BY <2>1, <2>2, ArgsToSound DEF StepSound
<1>4. CASE e.type = "response.completed"
  <2>1. q = Finished(r, e.finish) BY <1>4 DEF OpenAIResponsesStep
  <2>2. e.finish \in Symbols BY <1>4 DEF Carries
  <2> QED BY <2>1, <2>2, FinishedSound DEF StepSound
<1>5. CASE e.type \notin {"response.output_text.delta", "response.output_item.added",
                          "response.function_call_arguments.delta", "response.completed"}
  <2>1. q = r BY <1>5 DEF OpenAIResponsesStep
  <2> QED BY <2>1 DEF StepSound
<1> QED BY <1>1, <1>2, <1>3, <1>4, <1>5

LEMMA GeminiSound ==
  ASSUME NEW r, Sound(r), NEW e, Carries(e), NEW q, q = GeminiStep(r, e)
  PROVE  StepSound(r, e, q)
<1>1. CASE e.type = "response"
  <2>2. PICK b : b = PartsFold(r, e.parts) OBVIOUS
  <2>3. q = Finished(b, e.finish) BY <1>1, <2>2 DEF GeminiStep, PartsFold
  <2>4. e.parts \in Seq(PartsOf) /\ e.finish \in Symbols BY <1>1 DEF Carries
  <2>6. Sound(b) /\ b.failed = r.failed BY <2>2, <2>4, PartsFoldSound
  <2> QED BY <2>3, <2>4, <2>6, FinishedSound DEF StepSound
<1>2. CASE e.type # "response" BY <1>2 DEF GeminiStep, StepSound
<1> QED BY <1>1, <1>2

LEMMA OllamaSound ==
  ASSUME NEW r, Sound(r), NEW e, Carries(e), NEW q, q = OllamaStep(r, e)
  PROVE  StepSound(r, e, q)
<1>1. CASE e.type = "line"
  <2>1. PICK a : a = Spoken(r, e.text) OBVIOUS
  <2>2. PICK b : b = CallsFold(a, e.calls) OBVIOUS
  <2>3. q = Finished(b, e.finish) BY <1>1, <2>1, <2>2 DEF OllamaStep, CallsFold
  <2>4. e.text \in Seq(Symbols) /\ e.calls \in Seq(CallOf) /\ e.finish \in Symbols BY <1>1 DEF Carries
  <2>5. Sound(a) /\ a.failed = r.failed BY <2>1, <2>4, SpokenSound
  <2>6. Sound(b) /\ b.failed = r.failed BY <2>2, <2>4, <2>5, CallsFoldSound
  <2> QED BY <2>3, <2>4, <2>6, FinishedSound DEF StepSound
<1>2. CASE e.type # "line" BY <1>2 DEF OllamaStep, StepSound
<1> QED BY <1>1, <1>2

\* Streams of events.
Streams == Seq(Events(Symbols))

\* What is read of a stream is an accumulator.
LEMMA ReadSound ==
  ASSUME NEW p \in Dialects, NEW ss \in Streams
  PROVE  Sound(Read(p, ss))
<1>1. PICK n \in Nat : n = Len(ss) /\ DOMAIN ss = 1 .. n BY LenProperties DEF Streams
<1>2. PICK f : /\ f = [k \in 0 .. n |-> IF k = 0 THEN Blank ELSE Step(p, f[k - 1], ss[k])]
               /\ Read(p, ss) = f[n]
  <2>1. Len(ss) \in Nat BY <1>1
  <2>2. \E f : /\ f = [k \in 0 .. Len(ss) |-> IF k = 0 THEN Blank ELSE Step(p, f[k - 1], ss[k])]
               /\ Read(p, ss) = f[Len(ss)]
    BY <2>1, ReadDef, Zenon
  <2> QED BY <1>1, <2>2
<1> DEFINE P == {k \in 0 .. n : Sound(f[k])}
<1>3. 0 \in P BY <1>2, BlankTells
<1>4. ASSUME NEW k \in 0 .. (n - 1), k \in P PROVE k + 1 \in P
  <2>1. k + 1 \in 1 .. n /\ (k + 1) - 1 = k OBVIOUS
  <2>2. PICK r : r = f[k] OBVIOUS
  <2>3. PICK e : e = ss[k + 1] OBVIOUS
  <2>4. PICK q : q = Step(p, r, e) OBVIOUS
  <2>5. f[k + 1] = q BY <1>2, <2>1, <2>2, <2>3, <2>4
  <2>6. Sound(r) BY <1>4, <2>2
  <2>7. Carries(e)
    <3>1. e \in Events(Symbols) BY <1>1, <2>1, <2>3 DEF Streams
    <3> QED BY <3>1, EventCarries
  <2>8. Sound(q)
    <3>1. CASE p = "anthropic"
      <4>1. q = AnthropicStep(r, e) BY <2>4, <3>1, StepIs
      <4> QED BY <2>6, <2>7, <4>1, AnthropicSound DEF StepSound
    <3>2. CASE p = "openai-chat"
      <4>1. q = OpenAIChatStep(r, e) BY <2>4, <3>2, StepIs
      <4> QED BY <2>6, <2>7, <4>1, ChatSound DEF StepSound
    <3>3. CASE p = "openai-responses"
      <4>1. q = OpenAIResponsesStep(r, e) BY <2>4, <3>3, StepIs
      <4> QED BY <2>6, <2>7, <4>1, ResponsesSound DEF StepSound
    <3>4. CASE p = "gemini"
      <4>1. q = GeminiStep(r, e) BY <2>4, <3>4, StepIs
      <4> QED BY <2>6, <2>7, <4>1, GeminiSound DEF StepSound
    <3>5. CASE p = "ollama"
      <4>1. q = OllamaStep(r, e) BY <2>4, <3>5, StepIs
      <4> QED BY <2>6, <2>7, <4>1, OllamaSound DEF StepSound
    <3> QED BY <3>1, <3>2, <3>3, <3>4, <3>5 DEF Dialects
  <2> QED BY <2>1, <2>5, <2>8
<1> HIDE DEF P
<1>5. \A k \in 0 .. n : k \in P BY <1>3, <1>4, SetInduction
<1> QED BY <1>2, <1>5 DEF P

\* The blocks of a type are blocks.
LEMMA OfTypeBlocks ==
  ASSUME NEW r, Sound(r), NEW t
  PROVE  OfType(r, t) \in Seq(DOMAIN r.items)
<1>1. PICK n \in Nat : n = Len(r.order) /\ DOMAIN r.order = 1 .. n BY AccIs DEF Sound
<1>2. PICK f : /\ f = [k \in 0 .. n |-> IF k = 0 THEN <<>> ELSE Taken(r, t, f[k - 1], r.order[k])]
               /\ OfType(r, t) = f[n]
  <2>1. Len(r.order) \in Nat BY <1>1
  <2>2. \E f : /\ f = [k \in 0 .. Len(r.order) |-> IF k = 0 THEN <<>> ELSE Taken(r, t, f[k - 1], r.order[k])]
               /\ OfType(r, t) = f[Len(r.order)]
    BY <2>1, OfTypeDef, Zenon
  <2> QED BY <1>1, <2>2
<1> DEFINE P == {k \in 0 .. n : f[k] \in Seq(DOMAIN r.items)}
<1>3. 0 \in P BY <1>2
<1>4. ASSUME NEW k \in 0 .. (n - 1), k \in P PROVE k + 1 \in P
  <2>1. k + 1 \in 1 .. n /\ (k + 1) - 1 = k OBVIOUS
  <2>2. PICK i : i = r.order[k + 1] OBVIOUS
  <2>3. i \in DOMAIN r.items BY <1>1, <2>1, <2>2 DEF Sound
  <2>4. f[k + 1] = Taken(r, t, f[k], i) BY <1>2, <2>1, <2>2
  <2>5. f[k] \in Seq(DOMAIN r.items) BY <1>4
  <2>6. Append(f[k], i) \in Seq(DOMAIN r.items) BY <2>3, <2>5, AppendProperties
  <2>7. f[k + 1] = f[k] \/ f[k + 1] = Append(f[k], i) BY <2>4 DEF Taken
  <2>8. f[k + 1] \in Seq(DOMAIN r.items) BY <2>5, <2>6, <2>7, Zenon
  <2> QED BY <2>1, <2>8
<1> HIDE DEF P
<1>5. \A k \in 0 .. n : k \in P BY <1>3, <1>4, SetInduction
<1> QED BY <1>2, <1>5 DEF P

\* What the decoders make of a turn.
IsDecoded(t) ==
  \E text \in Seq(Symbols), reason \in Symbols : \E tools : AsDecoded(tools) /\ t = Transcript(text, tools, reason)

\* Calls with canonical documents, sorted.
LEMMA SortedDecoded ==
  ASSUME NEW w \in Seq(ToolCalls), \A k \in DOMAIN w : Canonicalize(w[k].args) = w[k].args, NEW tools, tools = Sorted(w)
  PROVE  AsDecoded(tools)
<1>8. tools \in Seq(ToolCalls) /\ \A k \in DOMAIN tools : \E j \in DOMAIN w : tools[k] = w[j] BY SortedTools
<1>9. Sorted(tools) = tools BY SortedTwice
<1>10. \A k \in DOMAIN tools : Canonicalize(tools[k].args) = tools[k].args BY <1>8
<1> QED BY <1>8, <1>9, <1>10 DEF AsDecoded

\* Any accumulator is assembled into a turn.
LEMMA AssembledIs ==
  ASSUME NEW r, Sound(r)
  PROVE  \E text \in Seq(Symbols), w \in Seq(ToolCalls) :
           /\ Assembled(r) = Transcript(text, w, r.finish)
           /\ \A k \in DOMAIN w : Canonicalize(w[k].args) = w[k].args
<1>1. /\ r.items \in [DOMAIN r.items -> Pieces] /\ r.text \in Seq(Symbols) BY AccIs DEF Sound
<1>2. PICK x : x = OfType(r, "text") OBVIOUS
<1>3. PICK y : y = OfType(r, "tool") OBVIOUS
<1>4. x \in Seq(DOMAIN r.items) /\ y \in Seq(DOMAIN r.items) BY <1>2, <1>3, OfTypeBlocks
<1>5. PICK ts : ts = [k \in DOMAIN x |-> r.items[x[k]].text] OBVIOUS
<1>6. PICK w : w = [k \in DOMAIN y |-> ToolCall(r.items[y[k]].name, r.items[y[k]].args)] OBVIOUS
<1>7. PICK text : text = r.text \o Joined(ts) OBVIOUS
<1>8. text \in Seq(Symbols)
  <2>1. PICK m \in Nat : Len(x) = m /\ DOMAIN x = 1 .. m BY <1>4, LenProperties
  <2>2. ASSUME NEW k \in 1 .. m PROVE ts[k] \in Seq(Symbols)
    <3>1. r.items[x[k]] \in Pieces BY <1>1, <1>4, <2>1, ElementOfSeq
    <3> QED BY <1>5, <2>1, <3>1 DEF Pieces
  <2>3. Len(ts) = m BY <1>5, <2>1
  <2>4. Joined(ts) \in Seq(Symbols) BY <2>2, <2>3, JoinedType
  <2> QED BY <1>1, <1>7, <2>4, ConcatProperties
<1>9. w \in Seq(ToolCalls) /\ \A k \in DOMAIN w : Canonicalize(w[k].args) = w[k].args
  <2>1. PICK m \in Nat : Len(y) = m /\ DOMAIN y = 1 .. m BY <1>4, LenProperties
  <2>2. ASSUME NEW k \in 1 .. m PROVE w[k] \in ToolCalls /\ Canonicalize(w[k].args) = w[k].args
    <3>1. PICK c : c = r.items[y[k]] OBVIOUS
    <3>2. c \in Pieces BY <1>1, <1>4, <2>1, <3>1, ElementOfSeq
    <3>3. c.name \in Symbols /\ c.args \in Seq(Symbols) BY <3>2 DEF Pieces
    <3>4. PICK args : args = Canonicalize(c.args) OBVIOUS
    <3>5. args \in Seq(Symbols) /\ Canonicalize(args) = args BY <3>3, <3>4, CanonicalFragments, CanonicalTwice
    <3>6. w[k] = [name |-> c.name, args |-> args] BY <1>6, <2>1, <3>1, <3>4 DEF ToolCall
    <3> QED BY <3>3, <3>5, <3>6 DEF ToolCalls
  <2>3. DOMAIN w = 1 .. m /\ w = [k \in 1 .. m |-> w[k]] BY <1>6, <2>1
  <2>4. w \in [1 .. m -> ToolCalls] BY <2>2, <2>3
  <2>5. w \in Seq(ToolCalls) BY <2>1, <2>4, SeqDef
  <2> QED BY <2>2, <2>3, <2>5
<1>10. Assembled(r) = Transcript(text, w, r.finish) BY <1>2, <1>3, <1>5, <1>6, <1>7 DEF Assembled
<1> QED BY <1>8, <1>9, <1>10

\* Every stream is decoded into a turn.
LEMMA DecodedIs ==
  ASSUME NEW p \in Dialects, NEW ss \in Streams
  PROVE  IsDecoded(Decode(p, ss))
<1>1. PICK r : r = Read(p, ss) OBVIOUS
<1>2. Sound(r) BY <1>1, ReadSound
<1>3. PICK text \in Seq(Symbols), w \in Seq(ToolCalls) :
        /\ Assembled(r) = Transcript(text, w, r.finish)
        /\ \A k \in DOMAIN w : Canonicalize(w[k].args) = w[k].args
  BY <1>2, AssembledIs
<1>4. PICK tools : tools = Sorted(w) OBVIOUS
<1>5. AsDecoded(tools) BY <1>3, <1>4, SortedDecoded
<1>6. Normalize(Transcript(text, w, r.finish)) = Transcript(text, tools, r.finish) BY <1>4, NormalizedIs
<1>7. Decode(p, ss) = Transcript(text, tools, r.finish) BY <1>1, <1>3, <1>6 DEF Decode
<1>8. r.finish \in Symbols BY <1>2, AccIs DEF Sound
<1> QED BY <1>5, <1>7, <1>8 DEF IsDecoded

(***************************************************************************)
(* Encoders write streams of events                                        *)
(***************************************************************************)

Event == Events(Symbols)

LEMMA EventsMade ==
  /\ Noise \in Event
  /\ [type |-> "error"] \in Event
  /\ \A i \in Nat, type \in {"text", "tool"}, name \in Symbols : Block(i, type, name) \in Event
  /\ \A i \in Nat, text \in Seq(Symbols) : [type |-> "text_delta", index |-> i, text |-> text] \in Event
  /\ \A i \in Nat, args \in Seq(Symbols) : [type |-> "input_json_delta", index |-> i, args |-> args] \in Event
  /\ \A reason \in Symbols : [type |-> "message_delta", finish |-> reason] \in Event
  /\ \A text \in Seq(Symbols), cs \in Seq(ChatOf), reason \in Symbols : Chunk(text, cs, reason) \in Event
  /\ \A i \in Nat, name \in Symbols, item \in {"message", "function_call"} :
       [type |-> "response.output_item.added", index |-> i, item |-> item, name |-> name] \in Event
  /\ \A text \in Seq(Symbols) : [type |-> "response.output_text.delta", text |-> text] \in Event
  /\ \A i \in Nat, args \in Seq(Symbols) : [type |-> "response.function_call_arguments.delta", index |-> i, args |-> args] \in Event
  /\ \A reason \in Symbols : [type |-> "response.completed", finish |-> reason] \in Event
  /\ \A parts \in Seq(PartsOf), reason \in Symbols : [type |-> "response", parts |-> parts, finish |-> reason] \in Event
  /\ \A text \in Seq(Symbols), cs \in Seq(CallOf), reason \in Symbols :
       [type |-> "line", text |-> text, calls |-> cs, finish |-> reason] \in Event
<1>1. /\ \A x \in [type : {"noise", "error"}] : x \in Event
      /\ \A x \in [type : {"content_block_start"}, index : Nat, block : {"text", "tool"}, name : Symbols] : x \in Event
      /\ \A x \in [type : {"text_delta"}, index : Nat, text : Seq(Symbols)] : x \in Event
      /\ \A x \in [type : {"input_json_delta", "response.function_call_arguments.delta"}, index : Nat, args : Seq(Symbols)] :
           x \in Event
      /\ \A x \in [type : {"message_delta", "response.completed"}, finish : Symbols] : x \in Event
      /\ \A x \in [type : {"chunk"}, text : Seq(Symbols), calls : Seq(ChatOf), finish : Symbols] : x \in Event
      /\ \A x \in [type : {"response.output_text.delta"}, text : Seq(Symbols)] : x \in Event
      /\ \A x \in [type : {"response.output_item.added"}, index : Nat, item : {"message", "function_call"}, name : Symbols] :
           x \in Event
      /\ \A x \in [type : {"response"}, parts : Seq(PartsOf), finish : Symbols] : x \in Event
      /\ \A x \in [type : {"line"}, text : Seq(Symbols), calls : Seq(CallOf), finish : Symbols] : x \in Event
  BY Zenon DEF Event, Events, ChatOf, PartsOf, CallOf
<1> HIDE DEF Event
<1>2. Noise \in Event /\ [type |-> "error"] \in Event BY <1>1 DEF Noise
<1>3. \A i \in Nat, type \in {"text", "tool"}, name \in Symbols : Block(i, type, name) \in Event BY <1>1 DEF Block
<1>4. \A i \in Nat, text \in Seq(Symbols) : [type |-> "text_delta", index |-> i, text |-> text] \in Event BY <1>1
<1>5. \A i \in Nat, args \in Seq(Symbols) : [type |-> "input_json_delta", index |-> i, args |-> args] \in Event BY <1>1
<1>6. \A reason \in Symbols : [type |-> "message_delta", finish |-> reason] \in Event BY <1>1
<1>7. \A text \in Seq(Symbols), cs \in Seq(ChatOf), reason \in Symbols : Chunk(text, cs, reason) \in Event BY <1>1 DEF Chunk
<1>8. \A i \in Nat, name \in Symbols, item \in {"message", "function_call"} :
        [type |-> "response.output_item.added", index |-> i, item |-> item, name |-> name] \in Event BY <1>1
<1>9. \A text \in Seq(Symbols) : [type |-> "response.output_text.delta", text |-> text] \in Event BY <1>1
<1>10. \A i \in Nat, args \in Seq(Symbols) :
         [type |-> "response.function_call_arguments.delta", index |-> i, args |-> args] \in Event BY <1>1
<1>11. \A reason \in Symbols : [type |-> "response.completed", finish |-> reason] \in Event BY <1>1
<1>12. \A parts \in Seq(PartsOf), reason \in Symbols : [type |-> "response", parts |-> parts, finish |-> reason] \in Event BY <1>1
<1>13. \A text \in Seq(Symbols), cs \in Seq(CallOf), reason \in Symbols :
         [type |-> "line", text |-> text, calls |-> cs, finish |-> reason] \in Event BY <1>1
<1> QED BY <1>2, <1>3, <1>4, <1>5, <1>6, <1>7, <1>8, <1>9, <1>10, <1>11, <1>12, <1>13, Zenon

LEMMA ShortStreams ==
  /\ <<>> \in Streams
  /\ \A a \in Event : <<a>> \in Streams
  /\ \A a, b \in Event : <<a, b>> \in Streams
  /\ \A a, b, c \in Event : <<a, b, c>> \in Streams
BY DEF Streams, Event

LEMMA StreamsGlued == ASSUME NEW a \in Streams, NEW b \in Streams PROVE Glued(a, b) \in Streams
BY ConcatProperties DEF Streams, Glued

LEMMA StreamsJoined ==
  ASSUME NEW n \in Nat, NEW ss, Len(ss) = n, \A k \in 1 .. n : ss[k] \in Streams
  PROVE  Joined(ss) \in Streams
BY JoinedType DEF Streams

LEMMA PieceStream ==
  ASSUME NEW p \in Fragmented, NEW i \in Nat, NEW name \in Symbols, NEW args \in Seq(Symbols)
  PROVE  Piece(p, i, name, args) \in Streams
<1> HIDE DEF Event
<1>0. <<>> \in Seq(Symbols) /\ Unset \in Symbols BY DEF Symbols
<1>1. CASE p = "anthropic"
  <2>1. PICK a : a = Block(i, "tool", name) OBVIOUS
  <2>2. PICK b : b = [type |-> "input_json_delta", index |-> i, args |-> args] OBVIOUS
  <2>3. a \in Event /\ b \in Event /\ Noise \in Event BY <2>1, <2>2, EventsMade
  <2>4. Piece(p, i, name, args) = <<a, b, Noise>> BY <1>1, <2>1, <2>2 DEF Piece
  <2> QED BY <2>3, <2>4, ShortStreams
<1>2. CASE p = "openai-chat"
  <2>1. PICK a : a = Chunk(<<>>, <<[index |-> i, name |-> name, args |-> <<>>]>>, Unset) OBVIOUS
  <2>2. PICK b : b = Chunk(<<>>, <<[index |-> i, name |-> Unset, args |-> args]>>, Unset) OBVIOUS
  <2>3. [index |-> i, name |-> name, args |-> <<>>] \in ChatOf /\ [index |-> i, name |-> Unset, args |-> args] \in ChatOf
    BY <1>0 DEF ChatOf
  <2>4. \A c \in ChatOf : <<c>> \in Seq(ChatOf) OBVIOUS
  <2>5. a \in Event /\ b \in Event BY <1>0, <2>1, <2>2, <2>3, <2>4, EventsMade
  <2>6. Piece(p, i, name, args) = <<a, b>> BY <1>2, <2>1, <2>2 DEF Piece
  <2> QED BY <2>5, <2>6, ShortStreams
<1>3. CASE p = "openai-responses"
  <2>1. PICK a : a = [type |-> "response.output_item.added", index |-> i, item |-> "function_call", name |-> name] OBVIOUS
  <2>2. PICK b : b = [type |-> "response.function_call_arguments.delta", index |-> i, args |-> args] OBVIOUS
  <2>3. a \in Event /\ b \in Event BY <2>1, <2>2, EventsMade
  <2>4. Piece(p, i, name, args) = <<a, b>> BY <1>3, <2>1, <2>2 DEF Piece
  <2> QED BY <2>3, <2>4, ShortStreams
<1> QED BY <1>1, <1>2, <1>3 DEF Fragmented

LEMMA PiecesStream ==
  ASSUME NEW p \in Fragmented, NEW base \in Nat, NEW w \in Seq(ToolCalls)
  PROVE  Joined(PiecesOf(p, base, w)) \in Streams
<1>1. PICK n \in Nat : n = Len(w) /\ DOMAIN w = 1 .. n BY LenProperties
<1>2. PICK ss : ss = PiecesOf(p, base, w) OBVIOUS
<1>3. Len(ss) = n /\ \A k \in 1 .. n : ss[k] = Piece(p, base + k - 1, w[k].name, w[k].args)
  BY <1>1, <1>2, PiecesAre
<1>4. ASSUME NEW k \in 1 .. n PROVE ss[k] \in Streams
  <2>1. PICK i \in Nat : i = base + k - 1 OBVIOUS
  <2>2. PICK c : c = w[k] OBVIOUS
  <2>3. c \in ToolCalls BY <1>1, <2>2, ElementOfSeq
  <2>4. c.name \in Symbols /\ c.args \in Seq(Symbols) BY <2>3 DEF ToolCalls
  <2>5. ss[k] = Piece(p, i, c.name, c.args) BY <1>3, <2>1, <2>2
  <2> QED BY <2>4, <2>5, PieceStream
<1> QED BY <1>2, <1>3, <1>4, StreamsJoined

LEMMA OnceStream ==
  ASSUME NEW text, NEW S, NEW e \in S
  PROVE  Once(text, e) \in Seq(S)
<1>1. PICK s : s = Once(text, e) OBVIOUS
<1>2. s = <<>> \/ s = <<e>> BY <1>1, OnceIs
<1>3. <<>> \in Seq(S) /\ <<e>> \in Seq(S) OBVIOUS
<1> QED BY <1>1, <1>2, <1>3

\* A stream of Anthropic, for any chunks.
LEMMA AnthropicTyped ==
  ASSUME NEW chunks \in Seq(Seq(Symbols)), NEW tools \in Seq(ToolCalls), NEW reason \in Symbols
  PROVE  AnthropicStream(chunks, tools, reason) \in Streams
<1> HIDE DEF Event
<1>1. PICK w : w = Canonized(tools) OBVIOUS
<1>2. w \in Seq(ToolCalls) BY <1>1, CanonizedIs
<1>3. PICK base \in Nat : base = FirstCall(chunks) BY DEF FirstCall
<1>4. PICK body : body = Joined(PiecesOf("anthropic", base, w)) OBVIOUS
<1>5. body \in Streams BY <1>2, <1>4, PiecesStream DEF Fragmented
<1>6. AnthropicHead(chunks) \in Streams
  <2>0. <<Noise>> \in Streams /\ <<>> \in Streams /\ <<Block(0, "text", Unset)>> \in Streams
    <3>1. Unset \in Symbols BY DEF Symbols
    <3>2. PICK b : b = Block(0, "text", Unset) OBVIOUS
    <3>3. Noise \in Event /\ b \in Event BY <3>1, <3>2, EventsMade
    <3> QED BY <3>2, <3>3, ShortStreams
  <2>1. PICK deltas : deltas = [k \in DOMAIN chunks |-> [type |-> "text_delta", index |-> 0, text |-> chunks[k]]] OBVIOUS
  <2>2. deltas \in Streams
    <3>1. PICK n \in Nat : n = Len(chunks) /\ DOMAIN chunks = 1 .. n BY LenProperties
    <3>2. ASSUME NEW k \in 1 .. n PROVE deltas[k] \in Event
      <4>1. PICK c : c = chunks[k] OBVIOUS
      <4>2. c \in Seq(Symbols) BY <3>1, <4>1, ElementOfSeq
      <4>3. deltas[k] = [type |-> "text_delta", index |-> 0, text |-> c] BY <2>1, <3>1, <4>1
      <4> QED BY <4>2, <4>3, EventsMade
    <3>3. DOMAIN deltas = 1 .. n /\ deltas = [k \in 1 .. n |-> deltas[k]] BY <2>1, <3>1
    <3>4. deltas \in [1 .. n -> Event] BY <3>2, <3>3
    <3>5. deltas \in Seq(Event) BY <3>1, <3>4, SeqDef
    <3> QED BY <3>5 DEF Streams, Event
  <2>3. PICK a : a = Glued(<<Block(0, "text", Unset)>>, deltas) OBVIOUS
  <2>4. a \in Streams BY <2>0, <2>2, <2>3, StreamsGlued
  <2>5. Glued(a, <<Noise>>) \in Streams BY <2>0, <2>4, StreamsGlued
  <2>6. TextBlock(chunks) = Glued(a, <<Noise>>) BY <2>1, <2>3 DEF TextBlock
  <2>7. (IF chunks = <<>> THEN <<>> ELSE TextBlock(chunks)) \in Streams BY <2>0, <2>5, <2>6
  <2> QED BY <2>0, <2>7, StreamsGlued DEF AnthropicHead
<1>7. PICK tail : tail = <<[type |-> "message_delta", finish |-> reason], Noise>> OBVIOUS
<1>8. tail \in Streams
  <2>1. PICK e : e = [type |-> "message_delta", finish |-> reason] OBVIOUS
  <2>2. e \in Event /\ Noise \in Event BY <2>1, EventsMade
  <2> QED BY <1>7, <2>1, <2>2, ShortStreams
<1>9. PICK head : head = AnthropicHead(chunks) OBVIOUS
<1>10. Glued(head, body) \in Streams BY <1>5, <1>6, <1>9, StreamsGlued
<1>11. Glued(Glued(head, body), tail) \in Streams BY <1>8, <1>10, StreamsGlued
<1>12. AnthropicStream(chunks, tools, reason) = Glued(Glued(head, body), tail)
  BY <1>1, <1>3, <1>4, <1>7, <1>9, AnthropicIs
<1> QED BY <1>11, <1>12

LEMMA ChatTyped ==
  ASSUME NEW text \in Seq(Symbols), NEW tools \in Seq(ToolCalls), NEW reason \in Symbols
  PROVE  EncodeOpenAIChat(Transcript(text, tools, reason)) \in Streams
<1> HIDE DEF Event
<1>0. Unset \in Symbols /\ <<>> \in Seq(Symbols) /\ <<>> \in Seq(ChatOf) BY DEF Symbols
<1>1. PICK w : w = Canonized(tools) OBVIOUS
<1>2. w \in Seq(ToolCalls) BY <1>1, CanonizedIs
<1>4. PICK body : body = Joined(PiecesOf("openai-chat", 1, w)) OBVIOUS
<1>5. body \in Streams
  <2>1. PICK one \in Nat : one = 1 OBVIOUS
  <2>2. Joined(PiecesOf("openai-chat", one, w)) \in Streams BY <1>2, PiecesStream DEF Fragmented
  <2> QED BY <1>4, <2>1, <2>2
<1>6. PICK a : a = Chunk(<<>>, <<>>, Unset) OBVIOUS
<1>7. PICK b : b = Chunk(text, <<>>, Unset) OBVIOUS
<1>8. PICK c : c = Chunk(<<>>, <<>>, reason) OBVIOUS
<1>9. a \in Event /\ b \in Event /\ c \in Event /\ Noise \in Event BY <1>0, <1>6, <1>7, <1>8, EventsMade
<1>10. <<a>> \in Streams /\ <<c, Noise>> \in Streams BY <1>9, ShortStreams
<1>11. PICK once : once = Once(text, b) OBVIOUS
<1>12. once \in Streams BY <1>9, <1>11, OnceStream DEF Streams, Event
<1>13. PICK x : x = Glued(<<a>>, once) OBVIOUS
<1>14. x \in Streams BY <1>10, <1>12, <1>13, StreamsGlued
<1>15. Glued(x, body) \in Streams BY <1>5, <1>14, StreamsGlued
<1>16. Glued(Glued(x, body), <<c, Noise>>) \in Streams BY <1>10, <1>15, StreamsGlued
<1>17. EncodeOpenAIChat(Transcript(text, tools, reason)) = Glued(Glued(x, body), <<c, Noise>>)
  BY <1>1, <1>4, <1>6, <1>7, <1>8, <1>11, <1>13, ChatIs
<1> QED BY <1>16, <1>17

LEMMA ResponsesTyped ==
  ASSUME NEW text \in Seq(Symbols), NEW tools \in Seq(ToolCalls), NEW reason \in Symbols
  PROVE  EncodeOpenAIResponses(Transcript(text, tools, reason)) \in Streams
<1> HIDE DEF Event
<1>0. Unset \in Symbols BY DEF Symbols
<1>1. PICK w : w = Canonized(tools) OBVIOUS
<1>2. w \in Seq(ToolCalls) BY <1>1, CanonizedIs
<1>3. PICK base \in Nat : base = Len(Whole(text)) BY OnceIs
<1>4. PICK body : body = Joined(PiecesOf("openai-responses", base, w)) OBVIOUS
<1>5. body \in Streams BY <1>2, <1>4, PiecesStream DEF Fragmented
<1>6. PICK a : a = [type |-> "response.output_item.added", index |-> 0, item |-> "message", name |-> Unset] OBVIOUS
<1>7. PICK b : b = [type |-> "response.output_text.delta", text |-> text] OBVIOUS
<1>8. PICK c : c = [type |-> "response.completed", finish |-> reason] OBVIOUS
<1>9. a \in Event /\ b \in Event /\ c \in Event /\ Noise \in Event BY <1>0, <1>6, <1>7, <1>8, EventsMade
<1>10. <<a, b>> \in Streams /\ <<c>> \in Streams /\ <<Noise>> \in Streams BY <1>9, ShortStreams
<1>11. WholeMessage(text) = <<a, b>> BY <1>6, <1>7 DEF WholeMessage
<1>12. PICK once : once = Once(text, WholeMessage(text)) OBVIOUS
<1>13. once \in Seq(Streams) BY <1>10, <1>11, <1>12, OnceStream
<1>14. PICK spoken : spoken = Joined(once) OBVIOUS
<1>15. spoken \in Streams
  <2>1. PICK n \in Nat : n = Len(once) /\ DOMAIN once = 1 .. n BY <1>13, LenProperties
  <2>2. \A k \in 1 .. n : once[k] \in Streams BY <1>13, <2>1, ElementOfSeq
  <2> QED BY <1>14, <2>1, <2>2, StreamsJoined
<1>16. PICK x : x = Glued(<<Noise>>, spoken) OBVIOUS
<1>17. x \in Streams BY <1>10, <1>15, <1>16, StreamsGlued
<1>18. Glued(x, body) \in Streams BY <1>5, <1>17, StreamsGlued
<1>19. Glued(Glued(x, body), <<c>>) \in Streams BY <1>10, <1>18, StreamsGlued
<1>20. EncodeOpenAIResponses(Transcript(text, tools, reason)) = Glued(Glued(x, body), <<c>>)
  BY <1>1, <1>3, <1>4, <1>8, <1>12, <1>14, <1>16, ResponsesIs
<1> QED BY <1>19, <1>20

LEMMA OllamaTyped ==
  ASSUME NEW text \in Seq(Symbols), NEW tools \in Seq(ToolCalls), NEW reason \in Symbols
  PROVE  EncodeOllama(Transcript(text, tools, reason)) \in Streams
<1> HIDE DEF Event
<1>0. Unset \in Symbols /\ <<>> \in Seq(Symbols) /\ <<>> \in Seq(CallOf) BY DEF Symbols
<1>1. PICK w : w = RawCalls(tools) OBVIOUS
<1>2. w \in Seq(CallOf) BY <1>1, RawIs DEF CallOf, ToolCalls
<1>3. PICK a : a = [type |-> "line", text |-> text, calls |-> w, finish |-> Unset] OBVIOUS
<1>4. PICK b : b = [type |-> "line", text |-> <<>>, calls |-> <<>>, finish |-> reason] OBVIOUS
<1>5. a \in Event /\ b \in Event BY <1>0, <1>2, <1>3, <1>4, EventsMade
<1>6. PICK t : t = Transcript(text, tools, reason) OBVIOUS
<1>7. t.text = text /\ t.tools = tools /\ t.finish = reason BY <1>6, TranscriptIs
<1>8. EncodeOllama(t) = <<a, b>> BY <1>1, <1>3, <1>4, <1>7 DEF EncodeOllama, RawCalls
<1> QED BY <1>5, <1>6, <1>8, ShortStreams

LEMMA GeminiTyped ==
  ASSUME NEW text \in Seq(Symbols), NEW tools \in Seq(ToolCalls), NEW reason \in Symbols
  PROVE  EncodeGemini(Transcript(text, tools, reason)) \in Streams
<1> HIDE DEF Event
<1>1. PICK n \in Nat : n = Len(tools) /\ DOMAIN tools = 1 .. n BY LenProperties
<1>2. PICK made : made = [k \in DOMAIN tools |-> [type |-> "call", name |-> tools[k].name, args |-> ArgsRaw(tools[k].args)]]
  OBVIOUS
<1>3. made \in Seq(PartsOf)
  <2>1. ASSUME NEW k \in 1 .. n PROVE made[k] \in PartsOf
    <3>1. PICK c : c = tools[k] OBVIOUS
    <3>2. c \in ToolCalls BY <1>1, <3>1, ElementOfSeq
    <3>3. PICK args : args = ArgsRaw(c.args) OBVIOUS
    <3>4. c.name \in Symbols /\ args \in Seq(Symbols) BY <3>2, <3>3, RawFragments DEF ToolCalls
    <3>5. made[k] = [type |-> "call", name |-> c.name, args |-> args] BY <1>1, <1>2, <3>1, <3>3
    <3> QED BY <3>4, <3>5 DEF PartsOf
  <2>2. DOMAIN made = 1 .. n /\ made = [k \in 1 .. n |-> made[k]] BY <1>1, <1>2
  <2>3. made \in [1 .. n -> PartsOf] BY <2>1, <2>2
  <2> QED BY <1>1, <2>3, SeqDef
<1>4. PICK p : p = [type |-> "text", text |-> text] OBVIOUS
<1>5. p \in PartsOf BY <1>4 DEF PartsOf
<1>6. PICK once : once = Once(text, p) OBVIOUS
<1>7. once \in Seq(PartsOf) BY <1>5, <1>6, OnceStream
<1>8. PICK parts : parts = once \o made OBVIOUS
<1>9. parts \in Seq(PartsOf) BY <1>3, <1>7, <1>8, ConcatProperties
<1>10. PICK e : e = [type |-> "response", parts |-> parts, finish |-> reason] OBVIOUS
<1>11. e \in Event BY <1>9, <1>10, EventsMade
<1>12. PICK t : t = Transcript(text, tools, reason) OBVIOUS
<1>13. t.text = text /\ t.tools = tools /\ t.finish = reason BY <1>12, TranscriptIs
<1>14. EncodeGemini(t) = <<e>> BY <1>2, <1>4, <1>6, <1>8, <1>10, <1>13 DEF EncodeGemini, Once
<1> QED BY <1>11, <1>12, <1>14, ShortStreams

\* A turn that can be written.
Told(t) ==
  \E text \in Seq(Symbols), tools \in Seq(ToolCalls), reason \in Symbols : t = Transcript(text, tools, reason)

LEMMA DecodedTold == ASSUME NEW t, IsDecoded(t) PROVE Told(t)
BY DEF IsDecoded, Told, AsDecoded

\* It is told again once it is normalized.
LEMMA ToldNormal ==
  ASSUME NEW t, Told(t)
  PROVE  \E text \in Seq(Symbols), tools \in Seq(ToolCalls), reason \in Symbols : Normalize(t) = Transcript(text, tools, reason)
<1>1. PICK text \in Seq(Symbols), tools \in Seq(ToolCalls), reason \in Symbols : t = Transcript(text, tools, reason) BY DEF Told
<1>2. Normalize(t) = Transcript(text, Sorted(tools), reason) BY <1>1, NormalizedIs
<1>3. Sorted(tools) \in Seq(ToolCalls) BY SortedTools
<1> QED BY <1>2, <1>3

\* Every encoder writes a stream.
LEMMA EncodeTyped ==
  ASSUME NEW p \in Dialects, NEW t, Told(t)
  PROVE  Encode(p, t) \in Streams
<1>1. PICK text \in Seq(Symbols), tools \in Seq(ToolCalls), reason \in Symbols : Normalize(t) = Transcript(text, tools, reason)
  BY ToldNormal
<1>2. PICK n : n = Normalize(t) OBVIOUS
<1>3. n = Transcript(text, tools, reason) /\ n.text = text /\ n.tools = tools /\ n.finish = reason BY <1>1, <1>2, TranscriptIs
<1>4. CASE p = "anthropic"
  <2>1. PICK chunks : chunks = Whole(text) OBVIOUS
  <2>2. chunks \in Seq(Seq(Symbols))
    <3>1. chunks = <<>> \/ chunks = <<text>> BY <2>1 DEF Whole
    <3>2. <<>> \in Seq(Seq(Symbols)) /\ <<text>> \in Seq(Seq(Symbols)) OBVIOUS
    <3> QED BY <3>1, <3>2
  <2>3. AnthropicStream(chunks, tools, reason) \in Streams BY <2>2, AnthropicTyped
  <2>4. EncodeAnthropic(n) = AnthropicStream(chunks, tools, reason) BY <1>3, <2>1 DEF EncodeAnthropic
  <2> QED BY <1>2, <1>4, <2>3, <2>4, EncodeIs
<1>5. CASE p = "openai-chat" BY <1>2, <1>3, <1>5, EncodeIs, ChatTyped
<1>6. CASE p = "openai-responses" BY <1>2, <1>3, <1>6, EncodeIs, ResponsesTyped
<1>7. CASE p = "gemini" BY <1>2, <1>3, <1>7, EncodeIs, GeminiTyped
<1>8. CASE p = "ollama" BY <1>2, <1>3, <1>8, EncodeIs, OllamaTyped
<1> QED BY <1>4, <1>5, <1>6, <1>7, <1>8 DEF Dialects

=============================================================================
