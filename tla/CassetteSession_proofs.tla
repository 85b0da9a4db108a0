------------------------ MODULE CassetteSession_proofs ------------------------
(***************************************************************************)
(* The theorems of CassetteSession, for every set of calls, keys, requests *)
(* and seeds.  What is filed under a key is the list of its interactions   *)
(* in their order, so that appending to a file only extends it; the run    *)
(* has answered the n-th request of a key with the n-th of that list, or   *)
(* with what the policy makes of it; and the file has, up to the last      *)
(* Save, the same list.                                                    *)
(***************************************************************************)
EXTENDS CassetteSession, TLAPS, SequenceTheorems, WellFoundedInduction

\* The n-th answer that a group gives.
Nth(group, n, p) == ServedIndex(group, n - 1, p)

\* The cursor of a group of this length after n answers.
After(len, n, p) == IF p = "RepeatLast" /\ n > len THEN len ELSE n

\* What the seed does not answer is answered live; otherwise it answers for ever.
GoesLive(k) == policy = "Error" \/ keys[k] = <<>>

\* During the run, the calls that have a record and those that are about to get one.
CallInv ==
    /\ \A c \in Calls :
        /\ pc[c] \in {"idle", "lookup", "live"} => slot[c] = 0
        /\ pc[c] \in {"filling", "cut"} => slot[c] # 0
        /\ pc[c] # "idle" => req[c] \in Requests
        /\ pc[c] = "live" /\ mode = "branch" =>
             req[c].kind = "http" /\ req[c].key # NoKey
        /\ slot[c] # 0 => /\ slot[c] > seed
                          /\ req[c] \in Requests
                          /\ mode = "branch" => req[c].key # NoKey
    /\ \A c, d \in Calls : slot[c] = slot[d] /\ slot[c] # 0 => c = d

LiveInv ==
    phase = "run" =>
        /\ \A c \in Calls :
            /\ pc[c] = "live" /\ mode = "branch" => ~CanServe(keys[req[c].key], cursor[req[c].key], policy)
            /\ slot[c] # 0 => /\ slot[c] <= Len(mem)
                              /\ pc[c] = "done" => mem[slot[c]].full
                              /\ pc[c] \in {"filling", "cut"} => ~mem[slot[c]].full

\* What is in memory during the run: the seed, and then the records of the live calls.
MemInv ==
    phase = "run" =>
        /\ mode = "record" => seed = 0
        /\ keys = Filed(mem)[seed]
        /\ \A i \in 1..seed : ~Unindexable(mem[i])
        /\ \A i \in (seed + 1)..Len(mem) :
            /\ mem[i].saved = mem[i].derived
            /\ \E c \in Calls : slot[c] = i /\ mem[i].kind = req[c].kind /\ mem[i].saved = req[c].key

\* How the run has answered the requests of a key.
Answers(k) ==
    /\ \A n \in DOMAIN answered[k] : answered[k][n] = Nth(Groups(mem)[k], n, policy)
    /\ GoesLive(k) =>
         IF cursor[k] < Len(keys[k]) THEN Groups(mem)[k] = keys[k] /\ Len(answered[k]) = cursor[k]
         ELSE cursor[k] = Len(keys[k]) /\ Len(answered[k]) = Len(Groups(mem)[k])
    /\ ~GoesLive(k) =>
         Groups(mem)[k] = keys[k] /\ cursor[k] = After(Len(keys[k]), Len(answered[k]), policy)

AnswerInv == phase = "run" => \A k \in Keys : Answers(k)

\* The file answers as the run had when it was saved, and does not open only for want of a key.
DiskInv ==
    /\ seed <= Len(disk)
    /\ phase = "run" => \A i \in 1..seed : IndexKey(disk[i]) = IndexKey(mem[i])
    /\ \A i \in DOMAIN disk : Unindexable(disk[i]) =>
         mode = "record" /\ \E c \in Calls : slot[c] = i /\ req[c].key = NoKey /\ req[c].kind = "http"
    /\ phase = "failed" => ~Opens(disk)
    /\ \A k \in Keys :
        /\ \A n \in DOMAIN upTo[k] : upTo[k][n] = Nth(Groups(disk)[k], n, policy)
        /\ Len(upTo[k]) > Len(Groups(disk)[k]) => policy # "Error" /\ Groups(disk)[k] # <<>>

\* How the second process has answered.
ReplayInv ==
    /\ phase # "replay" => replayed = Nowhere
    /\ phase = "replay" =>
        /\ keys = Groups(disk)
        /\ \A k \in Keys :
            /\ \A n \in DOMAIN replayed[k] : replayed[k][n] = Nth(keys[k], n, policy)
            /\ cursor[k] = After(Len(keys[k]), Len(replayed[k]), policy)
            /\ policy = "Error" => Len(replayed[k]) <= Len(keys[k])

Inv ==
    /\ TypeOK /\ CallInv /\ LiveInv /\ MemInv /\ AnswerInv /\ DiskInv /\ ReplayInv
    /\ phase # "run" => SuffixAfterPrefix
-----------------------------------------------------------------------------
(* Induction.  The library's principle takes an operator, which no prover  *)
(* here can instantiate; its statement about sets can be cited.            *)

LEMMA LeastNatural ==
    ASSUME NEW T, T \subseteq Nat, T # {}
    PROVE  \E x \in T : \A y \in T : ~(y < x)
<1>1. PICK x \in T : \A y \in T : ~(<<y, x>> \in OpToRel(<, Nat))
  BY NatLessThanWellFounded, WFMin
<1>2. ASSUME NEW y \in T, y < x PROVE FALSE
  <2>1. <<y, x>> \in OpToRel(<, Nat) BY <1>2 DEF OpToRel
  <2> QED BY <1>1, <2>1
<1> QED BY <1>2

LEMMA SetInduction ==
    ASSUME NEW m \in Nat, NEW P, 0 \in P, \A n \in 0..(m - 1) : n \in P => n + 1 \in P
    PROVE  \A n \in 0..m : n \in P
<1> SUFFICES ASSUME (0..m) \ P # {} PROVE FALSE OBVIOUS
<1>0. (0..m) \ P \subseteq Nat OBVIOUS
<1>1. PICK x \in (0..m) \ P : \A y \in (0..m) \ P : ~(y < x) BY <1>0, LeastNatural
<1>2. x # 0 BY <1>1
<1>3. x - 1 \in 0..(m - 1) /\ x - 1 \in 0..m /\ x - 1 < x BY <1>2
<1>4. x - 1 \in P BY <1>1, <1>3
<1>5. (x - 1) + 1 \in P BY <1>3, <1>4
<1> QED BY <1>1, <1>5
-----------------------------------------------------------------------------
(* What is filed under a key                                               *)

\* Filed is what its recursive definition says.
LEMMA FiledDef ==
    ASSUME NEW f, Len(f) \in Nat
    PROVE  Filed(f) = [n \in 0..Len(f) |-> IF n = 0 THEN Nowhere ELSE Filing(Filed(f)[n - 1], f[n], n)]
<1> DEFINE Is(g, m) == g = [n \in 0..m |-> IF n = 0 THEN Nowhere ELSE Filing(g[n - 1], f[n], n)]
           P == {m \in Nat : \E g : Is(g, m)}
<1>1. 0 \in P
  <2>1. Is([n \in 0..0 |-> Nowhere], 0) OBVIOUS
  <2> QED BY <2>1
<1>2. ASSUME NEW m \in Nat, m \in P PROVE m + 1 \in P
  <2>1. PICK g : Is(g, m) BY <1>2
  <2> DEFINE h == [n \in 0..(m + 1) |-> IF n <= m THEN g[n] ELSE Filing(g[m], f[m + 1], m + 1)]
  <2>2. ASSUME NEW n \in 0..(m + 1)
        PROVE  h[n] = IF n = 0 THEN Nowhere ELSE Filing(h[n - 1], f[n], n)
    <3>1. CASE n = 0 BY <2>1, <3>1
    <3>2. CASE n \in 1..m
      <4>1. h[n] = g[n] /\ h[n - 1] = g[n - 1] BY <3>2
      <4>2. g[n] = Filing(g[n - 1], f[n], n) BY <2>1, <3>2
      <4> QED BY <3>2, <4>1, <4>2
    <3>3. CASE n = m + 1
      <4>1. h[n] = Filing(g[m], f[m + 1], m + 1) /\ h[n - 1] = g[m] /\ n - 1 = m BY <3>3
      <4> QED BY <3>3, <4>1
    <3> QED BY <3>1, <3>2, <3>3
  <2>3. Is(h, m + 1) BY <2>2
  <2> HIDE DEF h, Is
  <2>4. \E x : Is(x, m + 1) BY <2>3
  <2> QED BY <2>4
<1>3. \A n \in 0..Len(f) : n \in P BY <1>1, <1>2, SetInduction
<1>4. PICK g : Is(g, Len(f)) BY <1>3
<1>5. Filed(f) = CHOOSE x : Is(x, Len(f)) BY DEF Filed
<1> HIDE DEF Is
<1>6. Is(Filed(f), Len(f)) BY <1>4, <1>5
<1> QED BY <1>6 DEF Is

\* The lists of a file by key: those of no interaction, and what the next one adds.
LEMMA FiledSteps ==
    ASSUME NEW f, Len(f) \in Nat
    PROVE  /\ Filed(f)[0] = Nowhere
           /\ \A n \in 0..(Len(f) - 1) : Filed(f)[n + 1] = Filing(Filed(f)[n], f[n + 1], n + 1)
<1>1. Filed(f) = [n \in 0..Len(f) |-> IF n = 0 THEN Nowhere ELSE Filing(Filed(f)[n - 1], f[n], n)]
  BY FiledDef
<1>2. Filed(f)[0] = Nowhere BY <1>1
<1>3. ASSUME NEW n \in 0..(Len(f) - 1) PROVE Filed(f)[n + 1] = Filing(Filed(f)[n], f[n + 1], n + 1)
  <2>1. n + 1 \in 0..Len(f) /\ n + 1 # 0 /\ (n + 1) - 1 = n OBVIOUS
  <2> QED BY <1>1, <2>1
<1> QED BY <1>2, <1>3

LEMMA FilingTypes ==
    ASSUME NEW v \in [Keys -> Seq(Nat \ {0})], NEW it, NEW n \in Nat \ {0}
    PROVE  /\ Filing(v, it, n) \in [Keys -> Seq(Nat \ {0})]
           /\ \A k \in Keys : Filing(v, it, n)[k] = IF IndexKey(it) = k THEN Append(v[k], n) ELSE v[k]
<1>1. \A k \in Keys : Append(v[k], n) \in Seq(Nat \ {0}) BY AppendProperties
<1> QED BY <1>1 DEF Filing

LEMMA FiledTypes ==
    ASSUME NEW f, Len(f) \in Nat
    PROVE  \A n \in 0..Len(f) : Filed(f)[n] \in [Keys -> Seq(Nat \ {0})]
<1> DEFINE P == {n \in Nat : n <= Len(f) => Filed(f)[n] \in [Keys -> Seq(Nat \ {0})]}
<1>1. 0 \in P
  <2>1. Nowhere \in [Keys -> Seq(Nat \ {0})] BY EmptySeq DEF Nowhere
  <2> QED BY <2>1, FiledSteps
<1>2. ASSUME NEW n \in 0..(Len(f) - 1), n \in P PROVE n + 1 \in P
  <2>1. Filed(f)[n] \in [Keys -> Seq(Nat \ {0})] BY <1>2
  <2>2. n + 1 \in Nat \ {0} OBVIOUS
  <2>3. Filed(f)[n + 1] = Filing(Filed(f)[n], f[n + 1], n + 1) BY FiledSteps
  <2>4. Filing(Filed(f)[n], f[n + 1], n + 1) \in [Keys -> Seq(Nat \ {0})] BY <2>1, <2>2, FilingTypes
  <2> QED BY <2>3, <2>4
<1>3. \A n \in 0..Len(f) : n \in P BY <1>1, <1>2, SetInduction
<1> QED BY <1>3

\* An interaction only adds itself, at the end of the list of its key.
LEMMA FiledNext ==
    ASSUME NEW f, Len(f) \in Nat, NEW n \in 0..(Len(f) - 1), NEW k \in Keys
    PROVE  /\ IndexKey(f[n + 1]) = k =>
                /\ Len(Filed(f)[n + 1][k]) = Len(Filed(f)[n][k]) + 1
                /\ \A i \in 1..Len(Filed(f)[n][k]) : Filed(f)[n + 1][k][i] = Filed(f)[n][k][i]
                /\ Filed(f)[n + 1][k][Len(Filed(f)[n][k]) + 1] = n + 1
           /\ IndexKey(f[n + 1]) # k => Filed(f)[n + 1][k] = Filed(f)[n][k]
           /\ Filed(f)[n][k] \in Seq(Nat \ {0}) /\ Len(Filed(f)[n][k]) \in Nat
           /\ DOMAIN Filed(f)[n][k] = 1..Len(Filed(f)[n][k])
<1>1. Filed(f)[n] \in [Keys -> Seq(Nat \ {0})] BY FiledTypes
<1>2. n + 1 \in Nat \ {0} OBVIOUS
<1>3. Filed(f)[n + 1][k] = IF IndexKey(f[n + 1]) = k THEN Append(Filed(f)[n][k], n + 1) ELSE Filed(f)[n][k]
  <2>1. Filed(f)[n + 1] = Filing(Filed(f)[n], f[n + 1], n + 1) BY FiledSteps
  <2>2. Filing(Filed(f)[n], f[n + 1], n + 1)[k] =
          IF IndexKey(f[n + 1]) = k THEN Append(Filed(f)[n][k], n + 1) ELSE Filed(f)[n][k]
    BY <1>1, <1>2, FilingTypes
  <2> QED BY <2>1, <2>2
<1>4. Filed(f)[n][k] \in Seq(Nat \ {0}) BY <1>1
<1>5. /\ Len(Append(Filed(f)[n][k], n + 1)) = Len(Filed(f)[n][k]) + 1
      /\ \A i \in 1..Len(Filed(f)[n][k]) : Append(Filed(f)[n][k], n + 1)[i] = Filed(f)[n][k][i]
      /\ Append(Filed(f)[n][k], n + 1)[Len(Filed(f)[n][k]) + 1] = n + 1
  BY <1>2, <1>4, AppendProperties
<1> QED BY <1>3, <1>4, <1>5, LenProperties

\* Two files whose interactions have the same keys are filed alike.
LEMMA FiledSame ==
    ASSUME NEW f, NEW g, Len(f) \in Nat, Len(g) \in Nat, NEW m \in Nat, m <= Len(f), m <= Len(g),
           \A i \in 1..m : IndexKey(f[i]) = IndexKey(g[i])
    PROVE  Filed(f)[m] = Filed(g)[m]
<1> DEFINE P == {n \in Nat : n <= m => Filed(f)[n] = Filed(g)[n]}
<1>1. 0 \in P BY FiledSteps
<1>2. ASSUME NEW n \in 0..(m - 1), n \in P PROVE n + 1 \in P
  <2>1. /\ n \in 0..(Len(f) - 1) /\ n \in 0..(Len(g) - 1) /\ n + 1 \in 1..m
        /\ Filed(f)[n] = Filed(g)[n]
    BY <1>2
  <2>2. IndexKey(f[n + 1]) = IndexKey(g[n + 1]) BY <2>1
  <2>3. Filing(Filed(f)[n], f[n + 1], n + 1) = Filing(Filed(g)[n], g[n + 1], n + 1) BY <2>1, <2>2 DEF Filing
  <2>4. Filed(f)[n + 1] = Filed(g)[n + 1] BY <2>1, <2>3, FiledSteps
  <2> QED BY <2>4
<1>3. \A n \in 0..m : n \in P BY <1>1, <1>2, SetInduction
<1> QED BY <1>3

\* What is filed is there, and what is there is filed.
Sound(list, f, n, k) ==
    /\ \A i \in 1..Len(list) : list[i] \in 1..n
    /\ \A j \in 1..n : IndexKey(f[j]) = k => \E i \in 1..Len(list) : list[i] = j

LEMMA FiledSound ==
    ASSUME NEW f, Len(f) \in Nat, NEW k \in Keys
    PROVE  \A n \in 0..Len(f) : Sound(Filed(f)[n][k], f, n, k)
<1> DEFINE P == {n \in Nat : Sound(Filed(f)[n][k], f, n, k)}
<1>1. 0 \in P
  <2>1. Filed(f)[0][k] = <<>> BY FiledSteps DEF Nowhere
  <2>2. Sound(<<>>, f, 0, k) BY DEF Sound
  <2> QED BY <2>1, <2>2
<1>2. ASSUME NEW n \in 0..(Len(f) - 1), n \in P PROVE n + 1 \in P
  <2> DEFINE old == Filed(f)[n][k]
             new == Filed(f)[n + 1][k]
  <2>1. /\ IndexKey(f[n + 1]) = k =>
             /\ Len(new) = Len(old) + 1
             /\ \A i \in 1..Len(old) : new[i] = old[i]
             /\ new[Len(old) + 1] = n + 1
        /\ IndexKey(f[n + 1]) # k => new = old
        /\ Len(old) \in Nat
    BY FiledNext
  <2>2. /\ \A i \in 1..Len(old) : old[i] \in 1..n
        /\ \A j \in 1..n : IndexKey(f[j]) = k => \E i \in 1..Len(old) : old[i] = j
    BY <1>2 DEF Sound
  <2> HIDE DEF old, new
  <2>3. \A i \in 1..Len(new) : new[i] \in 1..(n + 1)
    <3>1. CASE IndexKey(f[n + 1]) = k BY <2>1, <2>2, <3>1
    <3>2. CASE IndexKey(f[n + 1]) # k BY <2>1, <2>2, <3>2
    <3> QED BY <3>1, <3>2
  <2>4. ASSUME NEW j \in 1..(n + 1), IndexKey(f[j]) = k PROVE \E i \in 1..Len(new) : new[i] = j
    <3>1. CASE j = n + 1
      <4>1. Len(old) + 1 \in 1..Len(new) /\ new[Len(old) + 1] = j BY <2>1, <2>4, <3>1
      <4> QED BY <4>1
    <3>2. CASE j \in 1..n
      <4>1. PICK i \in 1..Len(old) : old[i] = j BY <2>2, <2>4, <3>2
      <4>2. i \in 1..Len(new) /\ new[i] = j BY <2>1, <4>1
      <4> QED BY <4>2
    <3> QED BY <3>1, <3>2
  <2>5. Sound(new, f, n + 1, k) BY <2>3, <2>4 DEF Sound
  <2>6. n + 1 \in Nat OBVIOUS
  <2> QED BY <2>5, <2>6 DEF new
<1>3. \A n \in 0..Len(f) : n \in P BY <1>1, <1>2, SetInduction
<1> QED BY <1>3

LEMMA FiledAll ==
    ASSUME NEW f, Len(f) \in Nat, NEW n \in 0..Len(f), NEW j \in 1..n, NEW k \in Keys, IndexKey(f[j]) = k
    PROVE  \E i \in 1..Len(Filed(f)[n][k]) : Filed(f)[n][k][i] = j
<1>1. Sound(Filed(f)[n][k], f, n, k) BY FiledSound
<1> QED BY <1>1 DEF Sound

\* Later interactions extend the list of a key by later positions.
LEMMA FiledExtends ==
    ASSUME NEW f, Len(f) \in Nat, NEW n \in 0..Len(f), NEW k \in Keys
    PROVE  /\ Len(Groups(f)[k]) >= Len(Filed(f)[n][k])
           /\ \A i \in 1..Len(Filed(f)[n][k]) : Groups(f)[k][i] = Filed(f)[n][k][i]
           /\ \A i \in (Len(Filed(f)[n][k]) + 1)..Len(Groups(f)[k]) : Groups(f)[k][i] > n
<1> DEFINE old == Filed(f)[n][k]
           Extends(m) ==
             /\ Len(Filed(f)[m][k]) >= Len(old)
             /\ \A i \in 1..Len(old) : Filed(f)[m][k][i] = old[i]
             /\ \A i \in (Len(old) + 1)..Len(Filed(f)[m][k]) : Filed(f)[m][k][i] > n
           P == {m \in Nat : n <= m => Extends(m)}
<1>1. Filed(f)[n] \in [Keys -> Seq(Nat \ {0})] BY FiledTypes
<1>2. Len(old) \in Nat BY <1>1, LenProperties
<1>3. Extends(n) BY <1>2
<1>4. 0 \in P BY <1>3
<1>5. ASSUME NEW m \in 0..(Len(f) - 1), m \in P PROVE m + 1 \in P
  <2> DEFINE mid == Filed(f)[m][k]
             new == Filed(f)[m + 1][k]
  <2>1. /\ IndexKey(f[m + 1]) = k =>
             /\ Len(new) = Len(mid) + 1
             /\ \A i \in 1..Len(mid) : new[i] = mid[i]
             /\ new[Len(mid) + 1] = m + 1
        /\ IndexKey(f[m + 1]) # k => new = mid
        /\ Len(mid) \in Nat
    BY FiledNext
  <2>2. CASE m + 1 <= n
    <3>1. m + 1 < n \/ m + 1 = n BY <2>2
    <3> QED BY <1>3, <3>1
  <2>3. CASE n <= m
    <3>1. /\ Len(mid) >= Len(old)
          /\ \A i \in 1..Len(old) : mid[i] = old[i]
          /\ \A i \in (Len(old) + 1)..Len(mid) : mid[i] > n
      BY <1>5, <2>3
    <3> HIDE DEF mid, new, old
    <3>2. /\ Len(new) >= Len(old)
          /\ \A i \in 1..Len(old) : new[i] = old[i]
          /\ \A i \in (Len(old) + 1)..Len(new) : new[i] > n
      <4>1. CASE IndexKey(f[m + 1]) = k BY <1>2, <2>1, <2>3, <3>1, <4>1
      <4>2. CASE IndexKey(f[m + 1]) # k BY <2>1, <3>1, <4>2
      <4> QED BY <4>1, <4>2
    <3> QED BY <3>2 DEF new
  <2> QED BY <2>2, <2>3
<1>6. \A m \in 0..Len(f) : m \in P BY <1>4, <1>5, SetInduction
<1>7. Extends(Len(f)) BY <1>6
<1> QED BY <1>7 DEF Groups

\* An appended interaction is filed under its key, after what is there.
LEMMA GroupsAppend ==
    ASSUME NEW S, NEW f \in Seq(S), NEW it \in S
    PROVE  /\ \A n \in 0..Len(f) : Filed(Append(f, it))[n] = Filed(f)[n]
           /\ \A k \in Keys :
                /\ IndexKey(it) = k =>
                     /\ Len(Groups(Append(f, it))[k]) = Len(Groups(f)[k]) + 1
                     /\ \A i \in 1..Len(Groups(f)[k]) : Groups(Append(f, it))[k][i] = Groups(f)[k][i]
                     /\ Groups(Append(f, it))[k][Len(Groups(f)[k]) + 1] = Len(f) + 1
                /\ IndexKey(it) # k => Groups(Append(f, it))[k] = Groups(f)[k]
<1> DEFINE g == Append(f, it)
<1>1. /\ Len(f) \in Nat /\ Len(g) = Len(f) + 1 /\ g[Len(f) + 1] = it
      /\ \A i \in 1..Len(f) : g[i] = f[i]
  BY AppendProperties, LenProperties
<1> HIDE DEF g
<1>2. ASSUME NEW n \in 0..Len(f) PROVE Filed(g)[n] = Filed(f)[n]
  <2>1. n \in Nat /\ n <= Len(f) /\ n <= Len(g) /\ Len(g) \in Nat BY <1>1
  <2>2. \A i \in 1..n : IndexKey(g[i]) = IndexKey(f[i]) BY <1>1, <2>1
  <2> QED BY <1>1, <2>1, <2>2, FiledSame
<1>3. ASSUME NEW k \in Keys
      PROVE  /\ IndexKey(it) = k =>
                  /\ Len(Filed(g)[Len(f) + 1][k]) = Len(Filed(g)[Len(f)][k]) + 1
                  /\ \A i \in 1..Len(Filed(g)[Len(f)][k]) : Filed(g)[Len(f) + 1][k][i] = Filed(g)[Len(f)][k][i]
                  /\ Filed(g)[Len(f) + 1][k][Len(Filed(g)[Len(f)][k]) + 1] = Len(f) + 1
             /\ IndexKey(it) # k => Filed(g)[Len(f) + 1][k] = Filed(g)[Len(f)][k]
  <2>1. Len(g) \in Nat /\ Len(f) \in 0..(Len(g) - 1) BY <1>1
  <2> QED BY <1>1, <2>1, FiledNext
<1>4. Filed(g)[Len(f)] = Groups(f) /\ Filed(g)[Len(f) + 1] = Groups(g) BY <1>1, <1>2 DEF Groups
<1> QED BY <1>2, <1>3, <1>4 DEF g

LEMMA FiledIn ==
    ASSUME NEW f, Len(f) \in Nat, NEW n \in 0..Len(f)
    PROVE  Filed(f)[n] \in [Keys -> Seq(1..n)]
<1>1. Filed(f)[n] \in [Keys -> Seq(Nat \ {0})] BY FiledTypes
<1>2. ASSUME NEW k \in Keys PROVE Filed(f)[n][k] \in Seq(1..n)
  <2>1. \A i \in 1..Len(Filed(f)[n][k]) : Filed(f)[n][k][i] \in 1..n BY FiledSound DEF Sound
  <2>2. Filed(f)[n][k] \in [1..Len(Filed(f)[n][k]) -> Nat \ {0}] /\ Len(Filed(f)[n][k]) \in Nat
    BY <1>1, LenProperties
  <2>3. Filed(f)[n][k] \in [1..Len(Filed(f)[n][k]) -> 1..n] BY <2>1, <2>2
  <2> QED BY <2>2, <2>3, SeqDef
<1> QED BY <1>1, <1>2

LEMMA GroupsTypes ==
    ASSUME NEW f, Len(f) \in Nat
    PROVE  /\ Groups(f) \in [Keys -> Seq(Nat \ {0})]
           /\ Groups(f) \in [Keys -> Seq(1..Len(f))]
<1>1. Len(f) \in 0..Len(f) OBVIOUS
<1> QED BY <1>1, FiledTypes, FiledIn DEF Groups

\* What a group that can serve gives, and where its cursor is then.
LEMMA ServedFacts ==
    ASSUME NEW S, NEW g \in Seq(S), NEW n \in Nat, NEW p \in Policies, CanServe(g, n, p)
    PROVE  ServedIndex(g, n, p) \in S /\ NextCursor(g, n, p) \in Nat
<1>1. Len(g) \in Nat \ {0} BY EmptySeq DEF CanServe
<1>2. (n % Len(g)) + 1 \in 1..Len(g) BY <1>1
<1>3. Len(g) \in 1..Len(g) BY <1>1
<1>4. n < Len(g) => n + 1 \in 1..Len(g) BY <1>1
<1>5. \A i \in 1..Len(g) : g[i] \in S BY ElementOfSeq
<1> QED BY <1>1, <1>2, <1>3, <1>4, <1>5 DEF ServedIndex, NextCursor, Exhausted
-----------------------------------------------------------------------------
(* The types                                                               *)

LEMMA MemFacts ==
    ASSUME TypeOK
    PROVE  /\ mem \in Seq(Stored) /\ Len(mem) \in Nat /\ DOMAIN mem = 1..Len(mem)
           /\ disk \in Seq(Stored) /\ Len(disk) \in Nat /\ DOMAIN disk = 1..Len(disk)
           /\ \A i \in 1..Len(mem) : mem[i] \in Stored
           /\ \A i \in 1..Len(disk) : disk[i] \in Stored
           /\ seed \in 0..Len(mem) /\ seed \in Nat
<1>1. mem \in Seq(Stored) /\ disk \in Seq(Stored) /\ seed \in 0..Len(mem) BY DEF TypeOK
<1>2. Len(mem) \in Nat /\ DOMAIN mem = 1..Len(mem) /\ Len(disk) \in Nat /\ DOMAIN disk = 1..Len(disk)
  BY <1>1, LenProperties
<1> QED BY <1>1, <1>2, ElementOfSeq

LEMMA KeyFacts ==
    ASSUME TypeOK, NEW k \in Keys
    PROVE  /\ keys[k] \in Seq(Nat \ {0}) /\ Len(keys[k]) \in Nat /\ DOMAIN keys[k] = 1..Len(keys[k])
           /\ cursor[k] \in Nat /\ policy \in Policies
           /\ answered[k] \in Seq(Nat \ {0}) /\ Len(answered[k]) \in Nat /\ DOMAIN answered[k] = 1..Len(answered[k])
           /\ replayed[k] \in Seq(Nat \ {0}) /\ Len(replayed[k]) \in Nat /\ DOMAIN replayed[k] = 1..Len(replayed[k])
           /\ upTo[k] \in Seq(Nat \ {0}) /\ Len(upTo[k]) \in Nat /\ DOMAIN upTo[k] = 1..Len(upTo[k])
<1>1. keys[k] \in Seq(DOMAIN mem) /\ cursor[k] \in Nat /\ policy \in Policies BY DEF TypeOK
<1>2. DOMAIN mem \subseteq Nat \ {0} BY MemFacts
<1>3. keys[k] \in Seq(Nat \ {0}) BY <1>1, <1>2, SeqMonotonic
<1>4. answered[k] \in Seq(Nat \ {0}) /\ replayed[k] \in Seq(Nat \ {0}) /\ upTo[k] \in Seq(Nat \ {0})
  BY DEF TypeOK, Trace
<1> QED BY <1>1, <1>3, <1>4, LenProperties

LEMMA RecordedType ==
    ASSUME NEW r \in Requests, NEW full \in BOOLEAN
    PROVE  /\ Recorded(r, full) \in Stored
           /\ Recorded(r, full).kind = r.kind /\ Recorded(r, full).saved = r.key
           /\ Recorded(r, full).derived = r.key /\ Recorded(r, full).full = full
           /\ IndexKey(Recorded(r, full)) = r.key
<1>1. r \in [kind : {"http", "mcp"}, key : Keys \cup {NoKey}] BY RequestsAssumption
<1> QED BY <1>1 DEF Recorded, Stored, IndexKey

\* What Save writes for an interaction: the same key, kind and body.
LEMMA ScrubbedFacts ==
    ASSUME TypeOK, MemInv, phase = "run", NEW i \in 1..Len(mem), NEW stale \in Keys \cup {NoKey}
    PROVE  /\ Scrubbed(i, stale) \in Stored
           /\ IndexKey(Scrubbed(i, stale)) = IndexKey(mem[i])
           /\ Scrubbed(i, stale).kind = mem[i].kind
           /\ Scrubbed(i, stale).full = mem[i].full
<1>1. mem[i] \in Stored /\ i \in Nat BY MemFacts
<1>2. CASE (i <= seed /\ mem[i].saved = NoKey) \/ mem[i].derived = NoKey
  BY <1>1, <1>2 DEF Scrubbed
<1>3. CASE ~((i <= seed /\ mem[i].saved = NoKey) \/ mem[i].derived = NoKey)
  <2>1. mem[i].saved # NoKey
    <3>1. CASE i <= seed BY <1>3, <3>1
    <3>2. CASE i \in (seed + 1)..Len(mem) BY <1>3, <3>2 DEF MemInv
    <3> QED BY <1>1, <3>1, <3>2, MemFacts
  <2>2. Scrubbed(i, stale) = [mem[i] EXCEPT !.derived = stale] BY <1>3 DEF Scrubbed
  <2> QED BY <1>1, <2>1, <2>2 DEF Stored, IndexKey
<1> QED BY <1>2, <1>3

LEMMA TypeInit == Init => TypeOK
<1> SUFFICES ASSUME Init PROVE TypeOK OBVIOUS
<1>1. mem \in Seq(Stored) BY SeedsAssumption, EmptySeq DEF Init, Stored
<1>2. Len(mem) \in Nat /\ DOMAIN mem = 1..Len(mem) BY <1>1, LenProperties
<1>3. keys \in [Keys -> Seq(DOMAIN mem)] BY <1>2, GroupsTypes DEF Init
<1>4. Nowhere \in Trace BY EmptySeq DEF Nowhere, Trace
<1>5. Zero \in [Keys -> Nat] BY DEF Zero
<1> QED BY <1>1, <1>2, <1>3, <1>4, <1>5 DEF Init, TypeOK

LEMMA TypeStep == TypeOK /\ CallInv /\ MemInv /\ DiskInv /\ [Next]_vars => TypeOK'
<1> SUFFICES ASSUME TypeOK, CallInv, MemInv, DiskInv, [Next]_vars PROVE TypeOK' OBVIOUS
<1> USE DEF opened, run
<1>1. /\ phase \in {"run", "replay", "failed"} /\ mode \in {"record", "branch"} /\ policy \in Policies
      /\ seed \in 0..Len(mem) /\ mem \in Seq(Stored) /\ keys \in [Keys -> Seq(DOMAIN mem)]
      /\ cursor \in [Keys -> Nat]
      /\ pc \in [Calls -> {"idle", "lookup", "live", "filling", "cut", "done"}]
      /\ req \in [Calls -> Requests \cup {NoRequest}] /\ slot \in [Calls -> Nat] /\ disk \in Seq(Stored)
      /\ answered \in Trace /\ upTo \in Trace /\ replayed \in Trace
  BY DEF TypeOK
<1>2. ASSUME NEW c \in Calls, Call(c) PROVE TypeOK'
  <2>1. PICK r \in Requests : req' = [req EXCEPT ![c] = r] BY <1>2 DEF Call
  <2>2. req' \in [Calls -> Requests \cup {NoRequest}] BY <1>1, <2>1
  <2>3. pc' \in [Calls -> {"idle", "lookup", "live", "filling", "cut", "done"}] BY <1>1, <1>2 DEF Call
  <2> QED BY <1>1, <1>2, <2>2, <2>3 DEF Call, TypeOK
<1>3. ASSUME NEW c \in Calls, LookupFails(c) \/ LiveFails(c) \/ Diverge(c) \/ CaptureFails(c) PROVE TypeOK'
  <2>1. pc' \in [Calls -> {"idle", "lookup", "live", "filling", "cut", "done"}]
    BY <1>1, <1>3 DEF LookupFails, LiveFails, Diverge, CaptureFails, Ends
  <2>2. UNCHANGED <<phase, opened, mem, keys, cursor, req, slot, disk, answered, upTo, replayed>>
    BY <1>3 DEF LookupFails, LiveFails, Diverge, CaptureFails
  <2> QED BY <1>1, <2>1, <2>2 DEF TypeOK
<1>4. ASSUME NEW c \in Calls, ServePrefix(c) PROVE TypeOK'
  <2> DEFINE k == req[c].key
  <2>1. pc[c] = "lookup" /\ k # NoKey /\ CanServe(keys[k], cursor[k], policy)
        /\ cursor' = [cursor EXCEPT ![k] = NextCursor(keys[k], @, policy)]
        /\ answered' = [answered EXCEPT ![k] = Append(@, ServedIndex(keys[k], cursor[k], policy))]
    BY <1>4 DEF ServePrefix, Take, Next1
  <2>2. req[c] \in Requests BY <2>1 DEF CallInv
  <2>3. k \in Keys BY <2>1, <2>2, RequestsAssumption
  <2>4. /\ keys[k] \in Seq(Nat \ {0}) /\ cursor[k] \in Nat /\ policy \in Policies
        /\ answered[k] \in Seq(Nat \ {0})
    BY <2>3, KeyFacts
  <2>5. ServedIndex(keys[k], cursor[k], policy) \in Nat \ {0} /\ NextCursor(keys[k], cursor[k], policy) \in Nat
    BY <2>1, <2>4, ServedFacts
  <2>6. Append(answered[k], ServedIndex(keys[k], cursor[k], policy)) \in Seq(Nat \ {0})
    BY <2>4, <2>5, AppendProperties
  <2> HIDE DEF k
  <2>7. answered' \in Trace BY <1>1, <2>1, <2>3, <2>6 DEF Trace
  <2>8. cursor' \in [Keys -> Nat] BY <1>1, <2>1, <2>3, <2>5
  <2>9. pc' \in [Calls -> {"idle", "lookup", "live", "filling", "cut", "done"}]
    BY <1>1, <1>4 DEF ServePrefix, Ends
  <2> QED BY <1>1, <1>4, <2>7, <2>8, <2>9 DEF ServePrefix, TypeOK
<1>5. ASSUME NEW c \in Calls, LiveAnswers(c) PROVE TypeOK'
  <2> DEFINE it == Recorded(req[c], req[c].kind = "mcp")
  <2>1. /\ pc[c] = "live" /\ mem' = Append(mem, it)
        /\ slot' = [slot EXCEPT ![c] = Len(mem) + 1] /\ answered' = Heard(req[c].key, Len(mem) + 1)
        /\ pc' = [pc EXCEPT ![c] = IF req[c].kind = "mcp" THEN "done" ELSE "filling"]
        /\ UNCHANGED <<phase, opened, keys, cursor, req, disk, upTo, replayed>>
    BY <1>5 DEF LiveAnswers
  <2>2. req[c] \in Requests BY <2>1 DEF CallInv
  <2>3. it \in Stored BY <2>2, RecordedType
  <2> HIDE DEF it
  <2>4. mem' \in Seq(Stored) /\ Len(mem') = Len(mem) + 1 /\ Len(mem) \in Nat
    BY <1>1, <2>1, <2>3, AppendProperties, LenProperties
  <2>5. DOMAIN mem \subseteq DOMAIN mem' BY <1>1, <2>4, LenProperties
  <2>6. keys' \in [Keys -> Seq(DOMAIN mem')]
    <3>1. \A k \in Keys : keys[k] \in Seq(DOMAIN mem') BY <1>1, <2>5, SeqMonotonic
    <3> QED BY <1>1, <2>1, <3>1
  <2>7. answered' \in Trace
    <3>1. CASE req[c].key = NoKey BY <1>1, <2>1, <3>1 DEF Heard
    <3>2. CASE req[c].key # NoKey
      <4>1. Len(mem) + 1 \in Nat \ {0} BY <2>4
      <4>2. \A k \in Keys : Append(answered[k], Len(mem) + 1) \in Seq(Nat \ {0})
        BY <1>1, <4>1, AppendProperties DEF Trace
      <4>3. answered' = [answered EXCEPT ![req[c].key] = Append(@, Len(mem) + 1)] BY <2>1, <3>2 DEF Heard
      <4> QED BY <1>1, <4>2, <4>3 DEF Trace
    <3> QED BY <3>1, <3>2
  <2>8. slot' \in [Calls -> Nat] BY <1>1, <2>1, <2>4
  <2>9. pc' \in [Calls -> {"idle", "lookup", "live", "filling", "cut", "done"}] BY <1>1, <2>1
  <2>10. seed \in 0..Len(mem') BY <1>1, <2>4
  <2> QED BY <1>1, <2>1, <2>4, <2>6, <2>7, <2>8, <2>9, <2>10 DEF TypeOK
<1>6. ASSUME NEW c \in Calls, Capture(c) PROVE TypeOK'
  <2>1. /\ mem' = [mem EXCEPT ![slot[c]].full = TRUE]
        /\ UNCHANGED <<phase, opened, keys, cursor, req, slot, disk, answered, upTo, replayed>>
    BY <1>6 DEF Capture
  <2>2. mem' \in Seq(Stored) /\ Len(mem') = Len(mem) /\ DOMAIN mem' = DOMAIN mem
    <3>1. CASE slot[c] \in 1..Len(mem)
      <4>1. mem[slot[c]] \in Stored BY <3>1, MemFacts
      <4>2. [mem[slot[c]] EXCEPT !.full = TRUE] \in Stored BY <4>1 DEF Stored
      <4>3. mem' = [mem EXCEPT ![slot[c]] = [mem[slot[c]] EXCEPT !.full = TRUE]] BY <2>1
      <4> HIDE DEF Stored
      <4>4. mem' \in Seq(Stored) /\ Len(mem') = Len(mem) BY <1>1, <3>1, <4>2, <4>3, ExceptSeq
      <4> QED BY <1>1, <4>4, LenProperties
    <3>2. CASE slot[c] \notin 1..Len(mem)
      <4>1. mem' = mem BY <2>1, <3>2, MemFacts
      <4> QED BY <1>1, <4>1
    <3> QED BY <3>1, <3>2
  <2>3. pc' \in [Calls -> {"idle", "lookup", "live", "filling", "cut", "done"}] BY <1>1, <1>6 DEF Capture, Ends
  <2> QED BY <1>1, <2>1, <2>2, <2>3 DEF TypeOK
<1>7. CASE Save
  <2>1. PICK stale \in Keys \cup {NoKey} : disk' = [i \in DOMAIN mem |-> Scrubbed(i, stale)]
    BY <1>7 DEF Save
  <2>2. \A i \in 1..Len(mem) : Scrubbed(i, stale) \in Stored BY <1>7, ScrubbedFacts DEF Save
  <2>3. disk' \in [1..Len(mem) -> Stored] /\ Len(mem) \in Nat BY <2>1, <2>2, MemFacts
  <2>4. disk' \in Seq(Stored) BY <2>3, SeqDef
  <2> QED BY <1>1, <1>7, <2>4 DEF Save, TypeOK
<1>8. CASE Reopen
  <2>1. Len(disk) \in Nat /\ DOMAIN disk = 1..Len(disk) BY MemFacts
  <2>2. Groups(disk) \in [Keys -> Seq(DOMAIN disk)] BY <2>1, GroupsTypes
  <2>3. Zero \in [Keys -> Nat] BY DEF Zero
  <2>4. seed' \in 0..Len(mem') BY <1>1, <1>8, <2>1 DEF Reopen, DiskInv
  <2> QED BY <1>1, <1>8, <2>2, <2>3, <2>4 DEF Reopen, TypeOK
<1>9. CASE ReopenFails BY <1>1, <1>9 DEF ReopenFails, TypeOK
<1>10. ASSUME NEW k \in Keys, Play(k) PROVE TypeOK'
  <2>1. CanServe(keys[k], cursor[k], policy)
        /\ cursor' = [cursor EXCEPT ![k] = NextCursor(keys[k], @, policy)]
        /\ replayed' = [replayed EXCEPT ![k] = Append(@, ServedIndex(keys[k], cursor[k], policy))]
    BY <1>10 DEF Play, Take, Next1
  <2>2. /\ keys[k] \in Seq(Nat \ {0}) /\ cursor[k] \in Nat /\ policy \in Policies
        /\ replayed[k] \in Seq(Nat \ {0})
    BY KeyFacts
  <2>3. ServedIndex(keys[k], cursor[k], policy) \in Nat \ {0} /\ NextCursor(keys[k], cursor[k], policy) \in Nat
    BY <2>1, <2>2, ServedFacts
  <2>4. Append(replayed[k], ServedIndex(keys[k], cursor[k], policy)) \in Seq(Nat \ {0})
    BY <2>2, <2>3, AppendProperties
  <2>5. replayed' \in Trace BY <1>1, <2>1, <2>4 DEF Trace
  <2>6. cursor' \in [Keys -> Nat] BY <1>1, <2>1, <2>3
  <2> QED BY <1>1, <1>10, <2>5, <2>6 DEF Play, TypeOK
<1>11. CASE UNCHANGED vars BY <1>1, <1>11 DEF vars, TypeOK
<1> QED BY <1>2, <1>3, <1>4, <1>5, <1>6, <1>7, <1>8, <1>9, <1>10, <1>11 DEF Next

-----------------------------------------------------------------------------
(* The calls and what is in memory                                         *)

\* What the steps do to the calls.
LEMMA CallSteps ==
    ASSUME TypeOK, NEW c \in Calls
    PROVE  /\ Call(c) => /\ pc[c] = "idle" /\ pc'[c] \in {"lookup", "live"} /\ req'[c] \in Requests
                         /\ pc'[c] = "live" => mode = "record"
                         /\ \A d \in Calls \ {c} : pc'[d] = pc[d] /\ req'[d] = req[d]
           /\ LookupFails(c) \/ LiveFails(c) \/ ServePrefix(c) =>
                 /\ pc[c] \in {"lookup", "live"} /\ pc'[c] = "done"
                 /\ \A d \in Calls \ {c} : pc'[d] = pc[d]
           /\ Diverge(c) =>
                 /\ pc[c] = "lookup" /\ pc'[c] \in {"live", "done"}
                 /\ pc'[c] = "live" => req[c].kind = "http" /\ req[c].key # NoKey
                 /\ pc'[c] = "live" => ~CanServe(keys[req[c].key], cursor[req[c].key], policy)
                 /\ \A d \in Calls \ {c} : pc'[d] = pc[d]
           /\ LiveAnswers(c) =>
                 /\ pc[c] = "live" /\ pc'[c] = (IF req[c].kind = "mcp" THEN "done" ELSE "filling")
                 /\ slot'[c] = Len(mem) + 1
                 /\ \A d \in Calls \ {c} : pc'[d] = pc[d] /\ slot'[d] = slot[d]
           /\ Capture(c) \/ CaptureFails(c) =>
                 /\ pc[c] = "filling"
                 /\ Capture(c) => pc'[c] = "done"
                 /\ CaptureFails(c) => pc'[c] = "cut"
                 /\ \A d \in Calls \ {c} : pc'[d] = pc[d]
<1>1. DOMAIN pc = Calls /\ DOMAIN req = Calls /\ DOMAIN slot = Calls BY DEF TypeOK
<1>2. ASSUME Call(c)
      PROVE  /\ pc[c] = "idle" /\ pc'[c] \in {"lookup", "live"} /\ req'[c] \in Requests
             /\ pc'[c] = "live" => mode = "record"
             /\ \A d \in Calls \ {c} : pc'[d] = pc[d] /\ req'[d] = req[d]
  BY <1>1, <1>2 DEF Call
<1>3. ASSUME LookupFails(c) \/ LiveFails(c) \/ ServePrefix(c)
      PROVE  /\ pc[c] \in {"lookup", "live"} /\ pc'[c] = "done"
             /\ \A d \in Calls \ {c} : pc'[d] = pc[d]
  BY <1>1, <1>3 DEF LookupFails, LiveFails, ServePrefix, Ends
<1>4. ASSUME Diverge(c)
      PROVE  /\ pc[c] = "lookup" /\ pc'[c] \in {"live", "done"}
             /\ pc'[c] = "live" => req[c].kind = "http" /\ req[c].key # NoKey
             /\ pc'[c] = "live" => ~CanServe(keys[req[c].key], cursor[req[c].key], policy)
             /\ \A d \in Calls \ {c} : pc'[d] = pc[d]
  BY <1>1, <1>4 DEF Diverge
<1>5. ASSUME LiveAnswers(c)
      PROVE  /\ pc[c] = "live" /\ pc'[c] = (IF req[c].kind = "mcp" THEN "done" ELSE "filling")
             /\ slot'[c] = Len(mem) + 1
             /\ \A d \in Calls \ {c} : pc'[d] = pc[d] /\ slot'[d] = slot[d]
  BY <1>1, <1>5 DEF LiveAnswers
<1>6. ASSUME Capture(c) \/ CaptureFails(c)
      PROVE  /\ pc[c] = "filling"
             /\ Capture(c) => pc'[c] = "done"
             /\ CaptureFails(c) => pc'[c] = "cut"
             /\ \A d \in Calls \ {c} : pc'[d] = pc[d]
  <2>1. CASE Capture(c) BY <1>1, <2>1 DEF Capture, CaptureFails, Ends
  <2>2. CASE CaptureFails(c) BY <1>1, <2>2 DEF Capture, CaptureFails, Ends
  <2> QED BY <1>6, <2>1, <2>2
<1> QED BY <1>2, <1>3, <1>4, <1>5, <1>6

\* A call has at most one record, of its own, behind the seed.
LEMMA CallStep == TypeOK /\ CallInv /\ LiveInv /\ [Next]_vars => CallInv'
<1> SUFFICES ASSUME TypeOK, CallInv, LiveInv, [Next]_vars PROVE CallInv' OBVIOUS
<1> USE DEF opened, run
<1>1. ASSUME NEW c \in Calls, Call(c) PROVE CallInv'
  <2>1. UNCHANGED <<mode, seed, slot>> BY <1>1 DEF Call
  <2>2. slot[c] = 0 BY <1>1, CallSteps DEF CallInv
  <2> QED BY <1>1, <2>1, <2>2, CallSteps DEF CallInv
<1>2. ASSUME NEW c \in Calls, LookupFails(c) \/ LiveFails(c) \/ ServePrefix(c) PROVE CallInv'
  <2>1. UNCHANGED <<mode, seed, slot, req>> BY <1>2 DEF LookupFails, LiveFails, ServePrefix
  <2> QED BY <1>2, <2>1, CallSteps DEF CallInv
<1>3. ASSUME NEW c \in Calls, Diverge(c) PROVE CallInv'
  <2>1. UNCHANGED <<mode, seed, slot, req>> BY <1>3 DEF Diverge
  <2> QED BY <1>3, <2>1, CallSteps DEF CallInv
<1>4. ASSUME NEW c \in Calls, LiveAnswers(c) PROVE CallInv'
  <2>1. UNCHANGED <<mode, seed, req>> /\ phase = "run" BY <1>4 DEF LiveAnswers
  <2>2. \A d \in Calls : slot[d] # 0 => slot[d] <= Len(mem) BY <2>1 DEF LiveInv
  <2>3. slot'[c] = Len(mem) + 1 /\ slot'[c] > seed /\ \A d \in Calls \ {c} : slot'[d] = slot[d]
    BY <1>4, CallSteps, MemFacts
  <2>4. \A d \in Calls \ {c} : slot'[d] # slot'[c]
    <3>1. \A d \in Calls : slot[d] \in Nat BY DEF TypeOK
    <3> QED BY <2>2, <2>3, <3>1, MemFacts
  <2>5. slot'[c] # 0 BY <2>3, MemFacts
  <2>6. \A d, e \in Calls : slot'[d] = slot'[e] /\ slot'[d] # 0 => d = e BY <2>3, <2>4 DEF CallInv
  <2>7. ASSUME NEW d \in Calls
        PROVE  /\ pc'[d] \in {"idle", "lookup", "live"} => slot'[d] = 0
               /\ pc'[d] \in {"filling", "cut"} => slot'[d] # 0
               /\ pc'[d] # "idle" => req'[d] \in Requests
               /\ pc'[d] = "live" /\ mode' = "branch" =>
                    req'[d].kind = "http" /\ req'[d].key # NoKey
               /\ slot'[d] # 0 => /\ slot'[d] > seed'
                                  /\ req'[d] \in Requests
                                  /\ mode' = "branch" => req'[d].key # NoKey
    BY <1>4, <2>1, <2>3, <2>5, CallSteps DEF CallInv
  <2> QED BY <2>6, <2>7 DEF CallInv
<1>5. ASSUME NEW c \in Calls, Capture(c) \/ CaptureFails(c) PROVE CallInv'
  <2>1. UNCHANGED <<mode, seed, slot, req>> BY <1>5 DEF Capture, CaptureFails
  <2> QED BY <1>5, <2>1, CallSteps DEF CallInv
<1>6. CASE Save \/ Reopen \/ ReopenFails \/ (\E k \in Keys : Play(k)) \/ UNCHANGED vars
  <2>1. UNCHANGED <<mode, seed, pc, req, slot>> BY <1>6 DEF Save, Reopen, ReopenFails, Play, vars
  <2> QED BY <2>1 DEF CallInv
<1> QED BY <1>1, <1>2, <1>3, <1>4, <1>5, <1>6 DEF Next

\* A body that arrives changes no key.
LEMMA CaptureFacts ==
    ASSUME TypeOK, CallInv, LiveInv, NEW c \in Calls, Capture(c)
    PROVE  /\ slot[c] \in 1..Len(mem) /\ mem'[slot[c]].full
           /\ Len(mem') = Len(mem)
           /\ \A i \in 1..Len(mem) :
                /\ mem'[i].kind = mem[i].kind /\ mem'[i].saved = mem[i].saved /\ mem'[i].derived = mem[i].derived
                /\ i # slot[c] => mem'[i] = mem[i]
                /\ IndexKey(mem'[i]) = IndexKey(mem[i]) /\ Unindexable(mem'[i]) = Unindexable(mem[i])
           /\ \A n \in 0..Len(mem) : Filed(mem')[n] = Filed(mem)[n]
           /\ Groups(mem') = Groups(mem)
<1>1. pc[c] = "filling" /\ phase = "run" /\ mem' = [mem EXCEPT ![slot[c]].full = TRUE] BY DEF Capture
<1>2. slot[c] \in 1..Len(mem)
  <2>1. slot[c] \in Nat BY DEF TypeOK
  <2>2. slot[c] # 0 BY <1>1 DEF CallInv
  <2>3. slot[c] <= Len(mem) BY <1>1, <2>2 DEF LiveInv
  <2> QED BY <2>1, <2>2, <2>3, MemFacts
<1>3. mem \in Seq(Stored) /\ Len(mem) \in Nat /\ DOMAIN mem = 1..Len(mem) /\ mem[slot[c]] \in Stored
  BY <1>2, MemFacts
<1> DEFINE it == [mem[slot[c]] EXCEPT !.full = TRUE]
<1>4. it \in Stored /\ it.full /\ it.kind = mem[slot[c]].kind /\ it.saved = mem[slot[c]].saved
      /\ it.derived = mem[slot[c]].derived
  BY <1>3 DEF Stored
<1>5. mem' = [mem EXCEPT ![slot[c]] = it] BY <1>1
<1> HIDE DEF it
<1>6. Len(mem') = Len(mem) /\ \A i \in 1..Len(mem) : mem'[i] = IF i = slot[c] THEN it ELSE mem[i]
  BY <1>2, <1>3, <1>4, <1>5, ExceptSeq
<1>7. \A i \in 1..Len(mem) :
        /\ mem'[i].kind = mem[i].kind /\ mem'[i].saved = mem[i].saved /\ mem'[i].derived = mem[i].derived
        /\ i # slot[c] => mem'[i] = mem[i]
  BY <1>4, <1>6
<1>8. \A i \in 1..Len(mem) : IndexKey(mem'[i]) = IndexKey(mem[i]) /\ Unindexable(mem'[i]) = Unindexable(mem[i])
  BY <1>7 DEF IndexKey, Unindexable, Matchable
<1>9. ASSUME NEW n \in 0..Len(mem) PROVE Filed(mem')[n] = Filed(mem)[n]
  <2>1. n \in Nat /\ n <= Len(mem) /\ n <= Len(mem') /\ Len(mem') \in Nat /\ Len(mem) \in Nat BY <1>3, <1>6
  <2>2. \A i \in 1..n : IndexKey(mem'[i]) = IndexKey(mem[i]) BY <1>8, <2>1
  <2> QED BY <2>1, <2>2, FiledSame
<1>10. Groups(mem') = Groups(mem) BY <1>3, <1>6, <1>9 DEF Groups
<1> QED BY <1>2, <1>4, <1>6, <1>7, <1>8, <1>9, <1>10

\* A response that arrives is recorded behind the rest, under the key of its request.
LEMMA AnswerFacts ==
    ASSUME TypeOK, CallInv, LiveInv, NEW c \in Calls, LiveAnswers(c)
    PROVE  /\ req[c] \in Requests /\ slot[c] = 0 /\ phase = "run"
           /\ mem' \in Seq(Stored) /\ Len(mem') = Len(mem) + 1
           /\ \A i \in 1..Len(mem) : mem'[i] = mem[i]
           /\ mem'[Len(mem) + 1] = Recorded(req[c], req[c].kind = "mcp")
           /\ IndexKey(mem'[Len(mem) + 1]) = req[c].key
           /\ \A n \in 0..Len(mem) : Filed(mem')[n] = Filed(mem)[n]
           /\ \A k \in Keys :
                /\ req[c].key = k =>
                     /\ Len(Groups(mem')[k]) = Len(Groups(mem)[k]) + 1
                     /\ \A i \in 1..Len(Groups(mem)[k]) : Groups(mem')[k][i] = Groups(mem)[k][i]
                     /\ Groups(mem')[k][Len(Groups(mem)[k]) + 1] = Len(mem) + 1
                /\ req[c].key # k => Groups(mem')[k] = Groups(mem)[k]
<1> DEFINE it == Recorded(req[c], req[c].kind = "mcp")
<1>1. pc[c] = "live" /\ phase = "run" /\ mem' = Append(mem, it) BY DEF LiveAnswers
<1>2. req[c] \in Requests /\ slot[c] = 0 BY <1>1 DEF CallInv
<1>3. it \in Stored /\ IndexKey(it) = req[c].key BY <1>2, RecordedType
<1> HIDE DEF it
<1>4. mem \in Seq(Stored) BY MemFacts
<1>5. /\ mem' \in Seq(Stored) /\ Len(mem') = Len(mem) + 1 /\ mem'[Len(mem) + 1] = it
      /\ \A i \in 1..Len(mem) : mem'[i] = mem[i]
  BY <1>1, <1>3, <1>4, AppendProperties
<1>6. /\ \A n \in 0..Len(mem) : Filed(mem')[n] = Filed(mem)[n]
      /\ \A k \in Keys :
           /\ req[c].key = k =>
                /\ Len(Groups(mem')[k]) = Len(Groups(mem)[k]) + 1
                /\ \A i \in 1..Len(Groups(mem)[k]) : Groups(mem')[k][i] = Groups(mem)[k][i]
                /\ Groups(mem')[k][Len(Groups(mem)[k]) + 1] = Len(mem) + 1
           /\ req[c].key # k => Groups(mem')[k] = Groups(mem)[k]
  BY <1>1, <1>3, <1>4, GroupsAppend
<1> QED BY <1>1, <1>2, <1>3, <1>5, <1>6 DEF it

\* A call that goes live is not answered by the seed, and its body is there when it returns.
LEMMA LiveStep == TypeOK /\ CallInv /\ LiveInv /\ [Next]_vars => LiveInv'
<1> SUFFICES ASSUME TypeOK, CallInv, LiveInv, [Next]_vars PROVE LiveInv' OBVIOUS
<1> USE DEF opened, run
<1>1. ASSUME NEW c \in Calls, Call(c) PROVE LiveInv'
  <2>1. UNCHANGED <<mode, policy, mem, keys, cursor, slot>> /\ phase = "run" BY <1>1 DEF Call
  <2>2. slot[c] = 0 BY <1>1, CallSteps DEF CallInv
  <2> QED BY <1>1, <2>1, <2>2, CallSteps DEF LiveInv
<1>2. ASSUME NEW c \in Calls, LookupFails(c) \/ LiveFails(c) PROVE LiveInv'
  <2>1. UNCHANGED <<mode, policy, mem, keys, cursor, slot, req>> /\ phase = "run"
    BY <1>2 DEF LookupFails, LiveFails
  <2>2. slot[c] = 0 BY <1>2, CallSteps DEF CallInv
  <2> QED BY <1>2, <2>1, <2>2, CallSteps DEF LiveInv
<1>3. ASSUME NEW c \in Calls, ServePrefix(c) PROVE LiveInv'
  <2>1. /\ UNCHANGED <<mode, policy, mem, keys, slot, req>> /\ phase = "run"
        /\ CanServe(keys[req[c].key], cursor[req[c].key], policy)
        /\ cursor' = [cursor EXCEPT ![req[c].key] = NextCursor(keys[req[c].key], @, policy)]
    BY <1>3 DEF ServePrefix, Take
  <2>2. slot[c] = 0 BY <1>3, CallSteps DEF CallInv
  <2>3. \A k : k # req[c].key => cursor'[k] = cursor[k]
    <3>1. \E S : cursor \in [Keys -> S] BY DEF TypeOK
    <3> QED BY <2>1, <3>1
  <2>4. \A d \in Calls : pc[d] = "live" /\ mode = "branch" => req[d].key # req[c].key
    BY <2>1 DEF LiveInv
  <2>5. \A d \in Calls : pc'[d] = "live" /\ mode' = "branch" =>
           ~CanServe(keys'[req'[d].key], cursor'[req'[d].key], policy')
    BY <1>3, <2>1, <2>3, <2>4, CallSteps DEF LiveInv
  <2> QED BY <1>3, <2>1, <2>2, <2>5, CallSteps DEF LiveInv
<1>4. ASSUME NEW c \in Calls, Diverge(c) PROVE LiveInv'
  <2>1. UNCHANGED <<mode, policy, mem, keys, cursor, slot, req>> /\ phase = "run" BY <1>4 DEF Diverge
  <2>2. slot[c] = 0 BY <1>4, CallSteps DEF CallInv
  <2> QED BY <1>4, <2>1, <2>2, CallSteps DEF LiveInv
<1>5. ASSUME NEW c \in Calls, LiveAnswers(c) PROVE LiveInv'
  <2>1. UNCHANGED <<mode, policy, keys, cursor, req>> /\ phase = "run" BY <1>5 DEF LiveAnswers
  <2>2. /\ Len(mem') = Len(mem) + 1 /\ Len(mem) \in Nat
        /\ \A i \in 1..Len(mem) : mem'[i] = mem[i]
        /\ req[c].kind = "mcp" => mem'[Len(mem) + 1].full
        /\ req[c].kind # "mcp" => ~mem'[Len(mem) + 1].full
    <3>1. /\ Len(mem') = Len(mem) + 1 /\ \A i \in 1..Len(mem) : mem'[i] = mem[i]
          /\ mem'[Len(mem) + 1] = Recorded(req[c], req[c].kind = "mcp")
      BY <1>5, AnswerFacts
    <3>2. mem'[Len(mem) + 1].full <=> (req[c].kind = "mcp")
      <4>1. Recorded(req[c], req[c].kind = "mcp").full = (req[c].kind = "mcp") BY Zenon DEF Recorded
      <4> QED BY <3>1, <4>1, Zenon
    <3> QED BY <3>1, <3>2, MemFacts
  <2>3. \A d \in Calls : slot[d] # 0 => slot[d] \in 1..Len(mem)
    <3>1. \A d \in Calls : slot[d] \in Nat BY DEF TypeOK
    <3> QED BY <2>1, <2>2, <3>1 DEF LiveInv
  <2>4. ASSUME NEW d \in Calls, slot'[d] # 0
        PROVE  /\ slot'[d] <= Len(mem')
               /\ pc'[d] = "done" => mem'[slot'[d]].full
               /\ pc'[d] \in {"filling", "cut"} => ~mem'[slot'[d]].full
    <3>1. CASE d = c
      <4>1. slot'[d] = Len(mem) + 1 /\ pc'[d] = (IF req[c].kind = "mcp" THEN "done" ELSE "filling")
        BY <1>5, <3>1, CallSteps
      <4>2. CASE req[c].kind = "mcp" BY <2>2, <4>1, <4>2
      <4>3. CASE req[c].kind # "mcp" BY <2>2, <4>1, <4>3
      <4> QED BY <4>2, <4>3
    <3>2. CASE d # c
      <4>1. slot'[d] = slot[d] /\ pc'[d] = pc[d] BY <1>5, <3>2, CallSteps
      <4>2. mem'[slot'[d]] = mem[slot[d]] /\ slot'[d] <= Len(mem') BY <2>2, <2>3, <2>4, <4>1
      <4> QED BY <2>1, <2>4, <4>1, <4>2 DEF LiveInv
    <3> QED BY <3>1, <3>2
  <2>5. \A d \in Calls : pc'[d] = "live" => pc[d] = "live" BY <1>5, CallSteps
  <2> QED BY <2>1, <2>4, <2>5 DEF LiveInv
<1>6. ASSUME NEW c \in Calls, Capture(c) PROVE LiveInv'
  <2>1. UNCHANGED <<mode, policy, keys, cursor, req, slot>> /\ phase = "run" BY <1>6 DEF Capture
  <2>2. \A d \in Calls \ {c} : slot[d] # 0 => slot[d] # slot[c] BY DEF CallInv
  <2>3. \A d \in Calls \ {c} : slot[d] # 0 => mem'[slot[d]] = mem[slot[d]]
    <3>1. \A d \in Calls : slot[d] # 0 => slot[d] \in 1..Len(mem)
      <4>1. \A d \in Calls : slot[d] \in Nat BY DEF TypeOK
      <4> QED BY <2>1, <4>1, MemFacts DEF LiveInv
    <3> QED BY <1>6, <2>2, <3>1, CaptureFacts
  <2>4. pc'[c] = "done" /\ mem'[slot[c]].full /\ Len(mem') = Len(mem) BY <1>6, CallSteps, CaptureFacts
  <2>5. \A d \in Calls \ {c} : pc'[d] = pc[d] BY <1>6, CallSteps
  <2> QED BY <2>1, <2>3, <2>4, <2>5 DEF LiveInv
<1>7. ASSUME NEW c \in Calls, CaptureFails(c) PROVE LiveInv'
  <2>1. UNCHANGED <<mode, policy, mem, keys, cursor, req, slot>> /\ phase = "run" BY <1>7 DEF CaptureFails
  <2> QED BY <1>7, <2>1, CallSteps DEF LiveInv
<1>8. CASE Save \/ UNCHANGED vars
  <2>1. UNCHANGED <<phase, mode, policy, mem, keys, cursor, pc, req, slot>> BY <1>8 DEF Save, vars
  <2> QED BY <2>1 DEF LiveInv
<1>9. CASE Reopen \/ ReopenFails \/ \E k \in Keys : Play(k)
  <2>1. phase' # "run" BY <1>9 DEF Reopen, ReopenFails, Play
  <2> QED BY <2>1 DEF LiveInv
<1> QED BY <1>1, <1>2, <1>3, <1>4, <1>5, <1>6, <1>7, <1>8, <1>9 DEF Next

\* Behind the seed there is a record of each call that was answered live, under its key.
LEMMA MemStep == TypeOK /\ CallInv /\ LiveInv /\ MemInv /\ [Next]_vars => MemInv'
<1> SUFFICES ASSUME TypeOK, CallInv, LiveInv, MemInv, [Next]_vars PROVE MemInv' OBVIOUS
<1> USE DEF opened, run
<1>1. ASSUME NEW c \in Calls, Call(c) PROVE MemInv'
  <2>1. UNCHANGED <<mode, seed, mem, keys, slot>> /\ phase = "run" BY <1>1 DEF Call
  <2>2. slot[c] = 0 BY <1>1, CallSteps DEF CallInv
  <2>3. \A d \in Calls : slot[d] # 0 => req'[d] = req[d] BY <1>1, <2>2, CallSteps
  <2>4. \A i \in (seed + 1)..Len(mem) : i # 0 BY MemFacts
  <2> QED BY <2>1, <2>3, <2>4 DEF MemInv
<1>2. CASE \/ \E c \in Calls : LookupFails(c) \/ LiveFails(c) \/ ServePrefix(c) \/ Diverge(c) \/ CaptureFails(c)
           \/ Save \/ UNCHANGED vars
  <2>1. UNCHANGED <<phase, mode, seed, mem, keys, slot, req>>
    BY <1>2 DEF LookupFails, LiveFails, ServePrefix, Diverge, CaptureFails, Save, vars
  <2> QED BY <2>1 DEF MemInv
<1>3. ASSUME NEW c \in Calls, LiveAnswers(c) PROVE MemInv'
  <2>1. UNCHANGED <<mode, seed, keys, req>> /\ phase = "run" BY <1>3 DEF LiveAnswers
  <2>2. /\ req[c] \in Requests /\ slot[c] = 0 /\ Len(mem') = Len(mem) + 1
        /\ \A i \in 1..Len(mem) : mem'[i] = mem[i]
        /\ mem'[Len(mem) + 1] = Recorded(req[c], req[c].kind = "mcp")
        /\ \A n \in 0..Len(mem) : Filed(mem')[n] = Filed(mem)[n]
    BY <1>3, AnswerFacts
  <2>3. slot'[c] = Len(mem) + 1 /\ \A d \in Calls \ {c} : slot'[d] = slot[d] BY <1>3, CallSteps
  <2>4. Len(mem) \in Nat /\ seed \in 0..Len(mem) BY MemFacts
  <2>5. keys' = Filed(mem')[seed] BY <2>1, <2>2, <2>4 DEF MemInv
  <2>6. \A i \in 1..seed : ~Unindexable(mem'[i]) BY <2>1, <2>2, <2>4 DEF MemInv
  <2>7. ASSUME NEW i \in (seed + 1)..Len(mem')
        PROVE  /\ mem'[i].saved = mem'[i].derived
               /\ \E d \in Calls : slot'[d] = i /\ mem'[i].kind = req[d].kind /\ mem'[i].saved = req[d].key
    <3>1. CASE i = Len(mem) + 1 BY <2>2, <2>3, <3>1 DEF Recorded
    <3>2. CASE i \in (seed + 1)..Len(mem)
      <4>1. mem'[i] = mem[i] /\ i # 0 BY <2>2, <2>4, <3>2
      <4>2. /\ mem[i].saved = mem[i].derived
            /\ \E d \in Calls : slot[d] = i /\ mem[i].kind = req[d].kind /\ mem[i].saved = req[d].key
        BY <2>1, <3>2 DEF MemInv
      <4> QED BY <2>2, <2>3, <4>1, <4>2
    <3> QED BY <2>2, <2>4, <3>1, <3>2
  <2> QED BY <2>1, <2>5, <2>6, <2>7 DEF MemInv
<1>4. ASSUME NEW c \in Calls, Capture(c) PROVE MemInv'
  <2>1. UNCHANGED <<mode, seed, keys, req, slot>> /\ phase = "run" BY <1>4 DEF Capture
  <2>2. /\ Len(mem') = Len(mem)
        /\ \A i \in 1..Len(mem) :
             /\ mem'[i].kind = mem[i].kind /\ mem'[i].saved = mem[i].saved /\ mem'[i].derived = mem[i].derived
             /\ Unindexable(mem'[i]) = Unindexable(mem[i])
        /\ \A n \in 0..Len(mem) : Filed(mem')[n] = Filed(mem)[n]
    BY <1>4, CaptureFacts
  <2>3. Len(mem) \in Nat /\ seed \in 0..Len(mem) BY MemFacts
  <2>4. keys' = Filed(mem')[seed'] BY <2>1, <2>2, <2>3 DEF MemInv
  <2>5. \A i \in 1..seed : i \in 1..Len(mem) BY <2>3
  <2>6. \A i \in (seed + 1)..Len(mem) : i \in 1..Len(mem) BY <2>3
  <2> QED BY <2>1, <2>2, <2>4, <2>5, <2>6 DEF MemInv
<1>5. CASE Reopen \/ ReopenFails \/ \E k \in Keys : Play(k)
  <2>1. phase' # "run" BY <1>5 DEF Reopen, ReopenFails, Play
  <2> QED BY <2>1 DEF MemInv
<1> QED BY <1>1, <1>2, <1>3, <1>4, <1>5 DEF Next
-----------------------------------------------------------------------------
(* The answers                                                             *)

\* The next play of a group that has been played n times.
LEMMA PlayFacts ==
    ASSUME NEW g \in Seq(Nat \ {0}), NEW n \in Nat, policy \in Policies,
           CanServe(g, After(Len(g), n, policy), policy)
    PROVE  /\ ServedIndex(g, After(Len(g), n, policy), policy) = Nth(g, n + 1, policy)
           /\ NextCursor(g, After(Len(g), n, policy), policy) = After(Len(g), n + 1, policy)
           /\ policy = "Error" => n + 1 <= Len(g)
<1>1. Len(g) \in Nat \ {0} BY EmptySeq DEF CanServe
<1>2. (n + 1) - 1 = n OBVIOUS
<1>3. CASE policy = "RepeatLast" /\ n > Len(g)
  <2>1. After(Len(g), n, policy) = Len(g) /\ After(Len(g), n + 1, policy) = Len(g) BY <1>1, <1>3 DEF After
  <2>2. Exhausted(g, n) /\ Exhausted(g, Len(g)) BY <1>1, <1>3 DEF Exhausted
  <2> QED BY <1>2, <1>3, <2>1, <2>2 DEF ServedIndex, Nth, NextCursor
<1>4. CASE ~(policy = "RepeatLast" /\ n > Len(g))
  <2>1. After(Len(g), n, policy) = n BY <1>4 DEF After
  <2>2. ServedIndex(g, n, policy) = Nth(g, n + 1, policy) BY <1>2 DEF Nth
  <2>3. NextCursor(g, n, policy) = After(Len(g), n + 1, policy) BY <1>1, <1>4 DEF NextCursor, Exhausted, After
  <2>4. policy = "Error" => n + 1 <= Len(g) BY <1>1, <2>1 DEF CanServe, Exhausted
  <2> QED BY <2>1, <2>2, <2>3, <2>4
<1> QED BY <1>3, <1>4

\* A request that the seed can serve gets the next of its group.
LEMMA ServeFacts ==
    ASSUME TypeOK, MemInv, AnswerInv, phase = "run", NEW k \in Keys, CanServe(keys[k], cursor[k], policy)
    PROVE  /\ Groups(mem)[k] = keys[k]
           /\ cursor[k] = After(Len(keys[k]), Len(answered[k]), policy)
           /\ policy = "Error" => Len(answered[k]) < Len(keys[k])
<1>1. /\ GoesLive(k) =>
             IF cursor[k] < Len(keys[k]) THEN Groups(mem)[k] = keys[k] /\ Len(answered[k]) = cursor[k]
             ELSE cursor[k] = Len(keys[k]) /\ Len(answered[k]) = Len(Groups(mem)[k])
      /\ ~GoesLive(k) =>
             Groups(mem)[k] = keys[k] /\ cursor[k] = After(Len(keys[k]), Len(answered[k]), policy)
  BY DEF AnswerInv, Answers
<1>2. CASE GoesLive(k)
  <2>1. policy = "Error" /\ cursor[k] < Len(keys[k])
    BY <1>2, KeyFacts DEF CanServe, Exhausted, GoesLive
  <2> QED BY <1>1, <1>2, <2>1 DEF After
<1>3. CASE ~GoesLive(k) BY <1>1, <1>3 DEF GoesLive
<1> QED BY <1>2, <1>3

\* The n-th request of a key is answered by the n-th of its group, the seed's or the run's own.
LEMMA AnswerStep == TypeOK /\ CallInv /\ LiveInv /\ MemInv /\ AnswerInv /\ [Next]_vars => AnswerInv'
<1> SUFFICES ASSUME TypeOK, CallInv, LiveInv, MemInv, AnswerInv, [Next]_vars, phase' = "run", NEW k \in Keys
             PROVE  Answers(k)'
  BY DEF AnswerInv
<1> USE DEF opened, run
<1>1. phase = "run" BY DEF Next, Call, LookupFails, ServePrefix, Diverge, LiveFails, LiveAnswers, Capture,
                           CaptureFails, Save, Reopen, ReopenFails, Play, vars
<1>2. /\ \A n \in DOMAIN answered[k] : answered[k][n] = Nth(Groups(mem)[k], n, policy)
      /\ GoesLive(k) =>
           IF cursor[k] < Len(keys[k]) THEN Groups(mem)[k] = keys[k] /\ Len(answered[k]) = cursor[k]
           ELSE cursor[k] = Len(keys[k]) /\ Len(answered[k]) = Len(Groups(mem)[k])
      /\ ~GoesLive(k) =>
           Groups(mem)[k] = keys[k] /\ cursor[k] = After(Len(keys[k]), Len(answered[k]), policy)
  BY <1>1 DEF AnswerInv, Answers
<1>3. ASSUME UNCHANGED <<policy, keys>>, cursor'[k] = cursor[k], answered'[k] = answered[k],
             Groups(mem')[k] = Groups(mem)[k]
      PROVE  Answers(k)'
  BY <1>2, <1>3 DEF Answers, GoesLive
<1>4. CASE \/ \E c \in Calls : Call(c) \/ LookupFails(c) \/ LiveFails(c) \/ Diverge(c) \/ CaptureFails(c)
           \/ Save \/ UNCHANGED vars
  <2>1. UNCHANGED <<policy, mem, keys, cursor, answered>>
    BY <1>4 DEF Call, LookupFails, LiveFails, Diverge, CaptureFails, Save, vars
  <2> QED BY <1>3, <2>1
<1>5. ASSUME NEW c \in Calls, Capture(c) PROVE UNCHANGED <<policy, keys, cursor, answered>> /\ Groups(mem') = Groups(mem)
  BY <1>5, CaptureFacts DEF Capture
<1>6. ASSUME NEW c \in Calls, ServePrefix(c), req[c].key # k
      PROVE  UNCHANGED <<policy, mem, keys>> /\ cursor'[k] = cursor[k] /\ answered'[k] = answered[k]
  <2>1. /\ UNCHANGED <<policy, mem, keys>>
        /\ cursor' = [cursor EXCEPT ![req[c].key] = NextCursor(keys[req[c].key], @, policy)]
        /\ answered' = [answered EXCEPT ![req[c].key] = Append(@, Next1(req[c].key))]
    BY <1>6 DEF ServePrefix, Take
  <2>2. cursor \in [Keys -> Nat] /\ answered \in [Keys -> Seq(Nat \ {0})] BY DEF TypeOK, Trace
  <2> QED BY <1>6, <2>1, <2>2
<1>7. ASSUME NEW c \in Calls, ServePrefix(c), req[c].key = k
      PROVE  Answers(k)'
  <2> DEFINE g == keys[k]
             n == Len(answered[k])
             i == ServedIndex(g, cursor[k], policy)
  <2>1. /\ UNCHANGED <<policy, mem, keys>> /\ CanServe(g, cursor[k], policy)
        /\ cursor' = [cursor EXCEPT ![k] = NextCursor(keys[k], @, policy)]
        /\ answered' = [answered EXCEPT ![k] = Append(@, i)]
    BY <1>7 DEF ServePrefix, Take, Next1
  <2>2. cursor \in [Keys -> Nat] /\ answered \in [Keys -> Seq(Nat \ {0})] BY DEF TypeOK, Trace
  <2>3. cursor'[k] = NextCursor(g, cursor[k], policy) /\ answered'[k] = Append(answered[k], i) BY <2>1, <2>2
  <2>4. /\ g \in Seq(Nat \ {0}) /\ n \in Nat /\ policy \in Policies /\ answered[k] \in Seq(Nat \ {0})
        /\ DOMAIN answered[k] = 1..n /\ cursor[k] \in Nat /\ Len(g) \in Nat
    BY KeyFacts
  <2>5. Groups(mem)[k] = g /\ cursor[k] = After(Len(g), n, policy) /\ (policy = "Error" => n < Len(g))
    BY <1>1, <2>1, ServeFacts
  <2>6. i = Nth(g, n + 1, policy) /\ cursor'[k] = After(Len(g), n + 1, policy)
    BY <2>1, <2>3, <2>4, <2>5, PlayFacts
  <2>7. i \in Nat \ {0} BY <2>1, <2>4, ServedFacts
  <2>8. /\ Len(answered'[k]) = n + 1 /\ answered'[k][n + 1] = i
        /\ \A j \in 1..n : answered'[k][j] = answered[k][j]
        /\ answered'[k] \in Seq(Nat \ {0})
    BY <2>3, <2>4, <2>7, AppendProperties
  <2>9. DOMAIN answered'[k] = 1..(n + 1) BY <2>8, LenProperties
  <2>10. Groups(mem')[k] = g /\ keys'[k] = g BY <2>1, <2>5
  <2> HIDE DEF g, n, i
  <2>11. \A j \in 1..(n + 1) : answered'[k][j] = Nth(g, j, policy)
    <3>1. \A j \in 1..n : answered'[k][j] = Nth(g, j, policy) BY <1>2, <2>4, <2>5, <2>8
    <3> QED BY <2>4, <2>6, <2>8, <3>1
  <2>12. \A j \in 1..(n + 1) : answered'[k][j] = Nth(Groups(mem')[k], j, policy') BY <2>1, <2>10, <2>11 DEF Nth
  <2>13. ~GoesLive(k)' => Groups(mem')[k] = keys'[k] /\ cursor'[k] = After(Len(keys'[k]), Len(answered'[k]), policy')
    BY <2>1, <2>6, <2>8, <2>10 DEF After
  <2>14. GoesLive(k)' => policy = "Error"
    BY <2>1, <2>10 DEF GoesLive, CanServe
  <2>15. policy = "Error" => cursor'[k] = n + 1 /\ n + 1 <= Len(g) BY <2>4, <2>5, <2>6 DEF After
  <2> QED BY <2>4, <2>8, <2>9, <2>10, <2>12, <2>13, <2>14, <2>15 DEF Answers
<1>8. ASSUME NEW c \in Calls, LiveAnswers(c), req[c].key # k
      PROVE  UNCHANGED <<policy, keys, cursor>> /\ answered'[k] = answered[k] /\ Groups(mem')[k] = Groups(mem)[k]
  <2>1. UNCHANGED <<policy, keys, cursor>> /\ answered' = Heard(req[c].key, Len(mem) + 1)
    BY <1>8 DEF LiveAnswers
  <2>2. answered \in [Keys -> Seq(Nat \ {0})] BY DEF TypeOK, Trace
  <2>3. answered'[k] = answered[k] BY <1>8, <2>1, <2>2 DEF Heard
  <2>4. Groups(mem')[k] = Groups(mem)[k] BY <1>8, AnswerFacts
  <2> QED BY <2>1, <2>3, <2>4
<1>9. ASSUME NEW c \in Calls, LiveAnswers(c), req[c].key = k
      PROVE  Answers(k)'
  <2> DEFINE old == Groups(mem)[k]
             new == Groups(mem')[k]
             n == Len(answered[k])
  <2>1. /\ UNCHANGED <<policy, keys, cursor>> /\ pc[c] = "live"
        /\ answered' = [answered EXCEPT ![k] = Append(@, Len(mem) + 1)]
    BY <1>9, NoKeyAssumption DEF LiveAnswers, Heard
  <2>2. answered \in [Keys -> Seq(Nat \ {0})] BY DEF TypeOK, Trace
  <2>3. answered'[k] = Append(answered[k], Len(mem) + 1) BY <2>1, <2>2
  <2>4. /\ n \in Nat /\ answered[k] \in Seq(Nat \ {0}) /\ DOMAIN answered[k] = 1..n
        /\ cursor[k] \in Nat /\ Len(keys[k]) \in Nat /\ Len(mem) + 1 \in Nat \ {0}
        /\ keys[k] \in Seq(Nat \ {0})
    BY KeyFacts, MemFacts
  <2>5. GoesLive(k) /\ ~(cursor[k] < Len(keys[k]))
    <3>1. CASE mode = "record"
      <4>1. keys[k] = <<>>
        <5>1. keys = Filed(mem)[0] BY <1>1, <3>1 DEF MemInv
        <5>2. Filed(mem)[0] = Nowhere BY FiledSteps, MemFacts
        <5> QED BY <5>1, <5>2 DEF Nowhere
      <4> QED BY <2>4, <4>1 DEF GoesLive
    <3>2. CASE mode = "branch"
      <4>1. ~CanServe(keys[k], cursor[k], policy) BY <1>1, <1>9, <2>1, <3>2 DEF LiveInv
      <4>2. keys[k] = <<>> => Len(keys[k]) = 0 OBVIOUS
      <4> QED BY <2>4, <4>1, <4>2 DEF CanServe, Exhausted, GoesLive
    <3> QED BY <3>1, <3>2 DEF TypeOK
  <2>6. cursor[k] = Len(keys[k]) /\ n = Len(old) BY <1>2, <2>5
  <2>7. /\ Len(answered'[k]) = n + 1 /\ answered'[k][n + 1] = Len(mem) + 1
        /\ \A j \in 1..n : answered'[k][j] = answered[k][j]
        /\ answered'[k] \in Seq(Nat \ {0})
    BY <2>3, <2>4, AppendProperties
  <2>8. DOMAIN answered'[k] = 1..(n + 1) BY <2>7, LenProperties
  <2>9. /\ Len(new) = Len(old) + 1 /\ new[Len(old) + 1] = Len(mem) + 1
        /\ \A i \in 1..Len(old) : new[i] = old[i]
    BY <1>9, AnswerFacts
  <2>10. GoesLive(k)' /\ ~(cursor'[k] < Len(keys'[k])) /\ cursor'[k] = Len(keys'[k])
    BY <2>1, <2>5, <2>6 DEF GoesLive
  <2> HIDE DEF old, new, n
  <2>11. \A j \in 1..n : answered[k][j] = old[j]
    <3>1. \A j \in 1..n : answered[k][j] = Nth(old, j, policy) BY <1>2, <2>4 DEF old
    <3>2. \A j \in 1..n : Nth(old, j, policy) = old[j] BY <2>4, <2>6 DEF Nth, ServedIndex, Exhausted
    <3> QED BY <3>1, <3>2
  <2>12. \A j \in 1..(n + 1) : answered'[k][j] = new[j] BY <2>4, <2>6, <2>7, <2>9, <2>11
  <2>13. \A j \in 1..(n + 1) : Nth(new, j, policy') = new[j]
    BY <2>4, <2>6, <2>9 DEF Nth, ServedIndex, Exhausted, new
  <2>14. \A j \in 1..(n + 1) : answered'[k][j] = Nth(Groups(mem')[k], j, policy') BY <2>12, <2>13 DEF new
  <2> QED BY <2>6, <2>7, <2>8, <2>9, <2>10, <2>14 DEF new, Answers
<1>10. CASE Reopen \/ ReopenFails \/ \E kk \in Keys : Play(kk)
  BY <1>10, <1>1 DEF Reopen, ReopenFails, Play
<1> QED BY <1>3, <1>4, <1>5, <1>6, <1>7, <1>8, <1>9, <1>10 DEF Next

-----------------------------------------------------------------------------
(* The file                                                                *)

\* What Save puts there.
LEMMA SaveFacts ==
    ASSUME TypeOK, CallInv, MemInv, AnswerInv, Save
    PROVE  /\ phase = "run" /\ UNCHANGED <<phase, mode, policy, seed, mem, slot, req>> /\ upTo' = answered
           /\ Len(disk') = Len(mem) /\ DOMAIN disk' = 1..Len(mem)
           /\ \A i \in 1..Len(mem) : /\ IndexKey(disk'[i]) = IndexKey(mem[i])
                                     /\ disk'[i].kind = mem[i].kind
                                     /\ disk'[i].full = mem[i].full
           /\ Groups(disk') = Groups(mem)
<1>1. /\ phase = "run" /\ UNCHANGED <<phase, mode, policy, seed, mem, slot, req>> /\ upTo' = answered
  BY DEF Save, opened, run
<1>2. PICK stale \in Keys \cup {NoKey} : disk' = [i \in DOMAIN mem |-> Scrubbed(i, stale)] BY DEF Save
<1>3. Len(mem) \in Nat /\ DOMAIN mem = 1..Len(mem) BY MemFacts
<1>4. disk' = [i \in 1..Len(mem) |-> Scrubbed(i, stale)] BY <1>2, <1>3
<1>5. \A i \in 1..Len(mem) : /\ Scrubbed(i, stale) \in Stored
                             /\ IndexKey(Scrubbed(i, stale)) = IndexKey(mem[i])
                             /\ Scrubbed(i, stale).kind = mem[i].kind
                             /\ Scrubbed(i, stale).full = mem[i].full
  BY <1>1, ScrubbedFacts
<1>6. disk' \in [1..Len(mem) -> Stored] BY <1>4, <1>5
<1>7. disk' \in Seq(Stored) BY <1>3, <1>6, SeqDef
<1>8. DOMAIN disk' = 1..Len(mem) /\ DOMAIN disk' = 1..Len(disk') /\ Len(disk') \in Nat
  BY <1>6, <1>7, LenProperties
<1>9. Len(disk') = Len(mem) BY <1>3, <1>8
<1>10. \A i \in 1..Len(mem) : /\ IndexKey(disk'[i]) = IndexKey(mem[i])
                              /\ disk'[i].kind = mem[i].kind
                              /\ disk'[i].full = mem[i].full
  BY <1>4, <1>5
<1>11. Filed(disk')[Len(mem)] = Filed(mem)[Len(mem)] BY <1>3, <1>8, <1>9, <1>10, FiledSame
<1>12. Groups(disk') = Groups(mem) BY <1>9, <1>11 DEF Groups
<1> QED BY <1>1, <1>8, <1>9, <1>10, <1>12

\* An interaction without a key was recorded for a keyless HTTP request of a record run.
LEMMA KeylessFacts ==
    ASSUME TypeOK, CallInv, MemInv, phase = "run", NEW i \in 1..Len(mem), Unindexable(mem[i])
    PROVE  mode = "record" /\ \E c \in Calls : slot[c] = i /\ req[c].key = NoKey /\ req[c].kind = "http"
<1>1. i \in (seed + 1)..Len(mem)
  <2>1. i \notin 1..seed BY DEF MemInv
  <2> QED BY <2>1, MemFacts
<1>2. PICK c \in Calls : slot[c] = i /\ mem[i].kind = req[c].kind /\ mem[i].saved = req[c].key
  BY <1>1 DEF MemInv
<1>3. mem[i].saved = NoKey
  <2>1. mem[i].saved = mem[i].derived /\ IndexKey(mem[i]) = NoKey BY <1>1 DEF MemInv, Unindexable
  <2> QED BY <2>1 DEF IndexKey
<1>4. slot[c] # 0 BY <1>2, MemFacts
<1>5. req[c] \in Requests /\ (mode = "branch" => req[c].key # NoKey) BY <1>4 DEF CallInv
<1>6. req[c].kind = "http" BY <1>2, <1>3, <1>5, RequestsAssumption
<1>7. mode = "record" BY <1>2, <1>3, <1>5 DEF TypeOK
<1> QED BY <1>2, <1>3, <1>6, <1>7

\* The file keeps the keys of the seed and the groups of the last Save.
LEMMA DiskStep == TypeOK /\ CallInv /\ LiveInv /\ MemInv /\ AnswerInv /\ DiskInv /\ [Next]_vars => DiskInv'
<1> SUFFICES ASSUME TypeOK, CallInv, LiveInv, MemInv, AnswerInv, DiskInv, [Next]_vars PROVE DiskInv' OBVIOUS
<1> USE DEF opened, run
<1>1. /\ seed <= Len(disk) /\ DOMAIN disk = 1..Len(disk) /\ Len(disk) \in Nat
      /\ phase = "run" => \A i \in 1..seed : IndexKey(disk[i]) = IndexKey(mem[i])
      /\ \A i \in DOMAIN disk : Unindexable(disk[i]) =>
           mode = "record" /\ \E c \in Calls : slot[c] = i /\ req[c].key = NoKey /\ req[c].kind = "http"
  BY MemFacts DEF DiskInv
<1>2. ASSUME UNCHANGED <<phase, mode, policy, seed, disk, upTo>>,
             \A i \in 1..seed : IndexKey(mem'[i]) = IndexKey(mem[i]),
             \A c \in Calls : slot[c] # 0 => slot'[c] = slot[c] /\ req'[c] = req[c]
      PROVE  DiskInv'
  <2>1. ASSUME NEW i \in DOMAIN disk', Unindexable(disk'[i])
        PROVE  mode' = "record" /\ \E c \in Calls : slot'[c] = i /\ req'[c].key = NoKey /\ req'[c].kind = "http"
    <3>1. mode = "record" /\ \E c \in Calls : slot[c] = i /\ req[c].key = NoKey /\ req[c].kind = "http"
      BY <1>1, <1>2, <2>1
    <3>2. i # 0 BY <1>1, <1>2
    <3> QED BY <1>2, <3>1, <3>2
  <2> QED BY <1>2, <2>1 DEF DiskInv
<1>3. ASSUME NEW c \in Calls, Call(c) PROVE DiskInv'
  <2>1. UNCHANGED <<phase, mode, policy, seed, mem, slot, disk, upTo>> BY <1>3 DEF Call
  <2>2. slot[c] = 0 /\ \A d \in Calls \ {c} : req'[d] = req[d] BY <1>3, CallSteps DEF CallInv
  <2> QED BY <1>2, <2>1, <2>2
<1>4. CASE \/ \E c \in Calls : LookupFails(c) \/ LiveFails(c) \/ ServePrefix(c) \/ Diverge(c) \/ CaptureFails(c)
           \/ (\E k \in Keys : Play(k)) \/ UNCHANGED vars
  <2>1. UNCHANGED <<phase, mode, policy, seed, mem, slot, req, disk, upTo>>
    BY <1>4 DEF LookupFails, LiveFails, ServePrefix, Diverge, CaptureFails, Play, vars
  <2> QED BY <1>2, <2>1
<1>5. ASSUME NEW c \in Calls, LiveAnswers(c) PROVE DiskInv'
  <2>1. UNCHANGED <<phase, mode, policy, seed, req, disk, upTo>> BY <1>5 DEF LiveAnswers
  <2>2. slot[c] = 0 /\ \A i \in 1..Len(mem) : mem'[i] = mem[i] BY <1>5, AnswerFacts
  <2>3. \A d \in Calls \ {c} : slot'[d] = slot[d] BY <1>5, CallSteps
  <2>4. \A i \in 1..seed : i \in 1..Len(mem) BY MemFacts
  <2> QED BY <1>2, <2>1, <2>2, <2>3, <2>4
<1>6. ASSUME NEW c \in Calls, Capture(c) PROVE DiskInv'
  <2>1. UNCHANGED <<phase, mode, policy, seed, slot, req, disk, upTo>> BY <1>6 DEF Capture
  <2>2. \A i \in 1..Len(mem) : IndexKey(mem'[i]) = IndexKey(mem[i]) BY <1>6, CaptureFacts
  <2>3. \A i \in 1..seed : i \in 1..Len(mem) BY MemFacts
  <2> QED BY <1>2, <2>1, <2>2, <2>3
<1>7. CASE Save
  <2>1. /\ phase = "run" /\ UNCHANGED <<phase, mode, policy, seed, mem, slot, req>> /\ upTo' = answered
        /\ Len(disk') = Len(mem) /\ DOMAIN disk' = 1..Len(mem)
        /\ \A i \in 1..Len(mem) : IndexKey(disk'[i]) = IndexKey(mem[i]) /\ disk'[i].kind = mem[i].kind
        /\ Groups(disk') = Groups(mem)
    BY <1>7, SaveFacts
  <2>2. seed <= Len(mem) /\ seed \in Nat /\ Len(mem) \in Nat BY MemFacts
  <2>3. ASSUME NEW i \in DOMAIN disk', Unindexable(disk'[i])
        PROVE  mode' = "record" /\ \E c \in Calls : slot'[c] = i /\ req'[c].key = NoKey /\ req'[c].kind = "http"
    <3>1. i \in 1..Len(mem) /\ Unindexable(mem[i]) BY <2>1, <2>3 DEF Unindexable, Matchable
    <3> QED BY <2>1, <3>1, KeylessFacts
  <2>4. ASSUME NEW k \in Keys
        PROVE  /\ \A n \in DOMAIN upTo'[k] : upTo'[k][n] = Nth(Groups(disk')[k], n, policy')
               /\ Len(upTo'[k]) > Len(Groups(disk')[k]) => policy' # "Error" /\ Groups(disk')[k] # <<>>
    <3>1. Answers(k) BY <2>1 DEF AnswerInv
    <3>2. cursor[k] \in Nat /\ Len(keys[k]) \in Nat /\ Len(answered[k]) \in Nat BY KeyFacts
    <3>3. Len(answered[k]) > Len(Groups(mem)[k]) => policy # "Error" /\ Groups(mem)[k] # <<>>
      BY <3>1, <3>2 DEF Answers, GoesLive
    <3> QED BY <2>1, <3>1, <3>3 DEF Answers
  <2>5. \A i \in 1..seed' : IndexKey(disk'[i]) = IndexKey(mem'[i]) BY <2>1, <2>2
  <2> QED BY <2>1, <2>2, <2>3, <2>4, <2>5 DEF DiskInv
<1>8. CASE Reopen \/ ReopenFails
  <2>1. /\ UNCHANGED <<mode, policy, seed, slot, req, disk, upTo>> /\ phase' # "run"
        /\ phase' = "failed" => ~Opens(disk)
    BY <1>8 DEF Reopen, ReopenFails
  <2> QED BY <1>1, <2>1 DEF DiskInv, Opens
<1> QED BY <1>3, <1>4, <1>5, <1>6, <1>7, <1>8 DEF Next
-----------------------------------------------------------------------------
(* The replay                                                              *)

LEMMA ReplayStep == TypeOK /\ ReplayInv /\ [Next]_vars => ReplayInv'
<1> SUFFICES ASSUME TypeOK, ReplayInv, [Next]_vars PROVE ReplayInv' OBVIOUS
<1> USE DEF opened, run
<1>1. CASE (\E c \in Calls : \/ Call(c) \/ LookupFails(c) \/ ServePrefix(c) \/ Diverge(c)
                             \/ LiveFails(c) \/ LiveAnswers(c) \/ Capture(c) \/ CaptureFails(c)) \/ Save
  <2>1. phase = "run" /\ UNCHANGED <<phase, replayed>>
    BY <1>1 DEF Call, LookupFails, ServePrefix, Diverge, LiveFails, LiveAnswers, Capture, CaptureFails, Save
  <2> QED BY <2>1 DEF ReplayInv
<1>2. CASE Reopen
  <2>1. /\ phase = "run" /\ phase' = "replay" /\ keys' = Groups(disk) /\ cursor' = Zero
        /\ UNCHANGED <<disk, policy, replayed>>
    BY <1>2 DEF Reopen
  <2>2. replayed = Nowhere BY <2>1 DEF ReplayInv
  <2>3. ASSUME NEW k \in Keys
        PROVE  /\ \A n \in DOMAIN replayed'[k] : replayed'[k][n] = Nth(keys'[k], n, policy')
               /\ cursor'[k] = After(Len(keys'[k]), Len(replayed'[k]), policy')
               /\ policy' = "Error" => Len(replayed'[k]) <= Len(keys'[k])
    <3>1. replayed'[k] = <<>> /\ cursor'[k] = 0 BY <2>1, <2>2 DEF Nowhere, Zero
    <3>2. Len(keys'[k]) \in Nat
      <4>1. Groups(disk) \in [Keys -> Seq(Nat \ {0})] BY GroupsTypes, MemFacts
      <4> QED BY <2>1, <4>1, LenProperties
    <3>3. Len(replayed'[k]) = 0 /\ DOMAIN replayed'[k] = {} BY <3>1
    <3> QED BY <3>1, <3>2, <3>3 DEF After
  <2> QED BY <2>1, <2>3 DEF ReplayInv
<1>3. CASE ReopenFails BY <1>3 DEF ReopenFails, ReplayInv
<1>4. ASSUME NEW k \in Keys, Play(k) PROVE ReplayInv'
  <2> DEFINE g == keys[k]
             n == Len(replayed[k])
             i == ServedIndex(g, cursor[k], policy)
  <2>1. /\ phase = "replay" /\ UNCHANGED <<phase, policy, keys, disk>> /\ CanServe(g, cursor[k], policy)
        /\ cursor' = [cursor EXCEPT ![k] = NextCursor(keys[k], @, policy)]
        /\ replayed' = [replayed EXCEPT ![k] = Append(@, i)]
    BY <1>4 DEF Play, Take, Next1
  <2>2. cursor \in [Keys -> Nat] /\ replayed \in [Keys -> Seq(Nat \ {0})] BY DEF TypeOK, Trace
  <2>3. /\ cursor'[k] = NextCursor(g, cursor[k], policy) /\ replayed'[k] = Append(replayed[k], i)
        /\ \A j \in Keys \ {k} : cursor'[j] = cursor[j] /\ replayed'[j] = replayed[j]
    BY <2>1, <2>2
  <2>4. /\ g \in Seq(Nat \ {0}) /\ n \in Nat /\ policy \in Policies /\ replayed[k] \in Seq(Nat \ {0})
        /\ DOMAIN replayed[k] = 1..n /\ cursor[k] \in Nat
    BY KeyFacts
  <2>5. cursor[k] = After(Len(g), n, policy) BY <2>1 DEF ReplayInv
  <2>6. /\ i = Nth(g, n + 1, policy) /\ cursor'[k] = After(Len(g), n + 1, policy)
        /\ policy = "Error" => n + 1 <= Len(g)
    BY <2>1, <2>3, <2>4, <2>5, PlayFacts
  <2>7. i \in Nat \ {0} BY <2>1, <2>4, ServedFacts
  <2>8. /\ Len(replayed'[k]) = n + 1 /\ replayed'[k][n + 1] = i
        /\ \A j \in 1..n : replayed'[k][j] = replayed[k][j]
        /\ replayed'[k] \in Seq(Nat \ {0})
    BY <2>3, <2>4, <2>7, AppendProperties
  <2>9. DOMAIN replayed'[k] = 1..(n + 1) BY <2>8, LenProperties
  <2>10. \A j \in 1..n : replayed[k][j] = Nth(g, j, policy) BY <2>1, <2>4 DEF ReplayInv
  <2> HIDE DEF g, n, i
  <2>11. ASSUME NEW j \in DOMAIN replayed'[k] PROVE replayed'[k][j] = Nth(g, j, policy)
    <3>1. CASE j \in 1..n BY <2>8, <2>10, <3>1
    <3>2. CASE j = n + 1 BY <2>6, <2>8, <3>2
    <3> QED BY <2>4, <2>9, <3>1, <3>2
  <2>12. ASSUME NEW j \in Keys
         PROVE  /\ \A m \in DOMAIN replayed'[j] : replayed'[j][m] = Nth(keys'[j], m, policy')
                /\ cursor'[j] = After(Len(keys'[j]), Len(replayed'[j]), policy')
                /\ policy' = "Error" => Len(replayed'[j]) <= Len(keys'[j])
    <3>1. CASE j = k BY <2>1, <2>6, <2>8, <2>11, <3>1 DEF g
    <3>2. CASE j # k BY <2>1, <2>3, <3>2 DEF ReplayInv
    <3> QED BY <3>1, <3>2
  <2>13. phase' = "replay" /\ keys' = Groups(disk') BY <2>1 DEF ReplayInv
  <2> QED BY <2>12, <2>13 DEF ReplayInv
<1>5. CASE UNCHANGED vars BY <1>5 DEF vars, ReplayInv
<1> QED BY <1>1, <1>2, <1>3, <1>4, <1>5 DEF Next

\* During the run the suffix of a key is behind its prefix.
LEMMA RunShadow ==
    ASSUME TypeOK, MemInv, AnswerInv, phase = "run"
    PROVE  SuffixAfterPrefix
<1> SUFFICES ASSUME NEW k \in Keys, NEW n \in DOMAIN answered[k], answered[k][n] > seed
             PROVE  /\ \A i \in {i \in 1..seed : IndexKey(mem[i]) = k} :
                         \E m \in 1..(n - 1) : answered[k][m] = i
                    /\ \A m \in n..Len(answered[k]) : answered[k][m] > seed
  BY DEF SuffixAfterPrefix
<1> DEFINE G == Groups(mem)[k]
           P == keys[k]
<1>1. Answers(k) BY DEF AnswerInv
<1>2. /\ P \in Seq(Nat \ {0}) /\ Len(P) \in Nat /\ cursor[k] \in Nat /\ policy \in Policies
      /\ Len(answered[k]) \in Nat /\ DOMAIN answered[k] = 1..Len(answered[k])
  BY KeyFacts
<1>3. seed \in 0..Len(mem) /\ Len(mem) \in Nat /\ seed \in Nat BY MemFacts
<1>4. P = Filed(mem)[seed][k] BY DEF MemInv
<1>5. P \in Seq(1..seed)
  <2>1. Filed(mem)[seed] \in [Keys -> Seq(1..seed)] BY <1>3, FiledIn
  <2> QED BY <1>4, <2>1
<1>6. GoesLive(k) /\ ~(cursor[k] < Len(P))
  <2> SUFFICES ASSUME ~(GoesLive(k) /\ ~(cursor[k] < Len(P))) PROVE FALSE OBVIOUS
  <2>1. G = P BY <1>1 DEF Answers
  <2>2. n - 1 \in Nat /\ n <= Len(answered[k]) BY <1>2
  <2>3. CanServe(P, n - 1, policy)
    <3>1. CASE ~GoesLive(k) BY <3>1 DEF GoesLive, CanServe
    <3>2. CASE GoesLive(k)
      <4>1. cursor[k] < Len(P) /\ Len(answered[k]) = cursor[k] BY <1>1, <3>2 DEF Answers
      <4>2. n - 1 < Len(P) BY <1>2, <2>2, <4>1
      <4>3. P # <<>>
        <5>1. Len(P) # 0 BY <1>2, <2>2, <4>2
        <5> QED BY <5>1
      <4> QED BY <1>2, <2>2, <4>2, <4>3 DEF CanServe, Exhausted
    <3> QED BY <3>1, <3>2
  <2>4. answered[k][n] = ServedIndex(P, n - 1, policy) BY <1>1, <2>1 DEF Answers, Nth
  <2>5. answered[k][n] \in 1..seed BY <1>2, <1>5, <2>2, <2>3, <2>4, ServedFacts
  <2> QED BY <1>3, <2>5
<1>7. Len(answered[k]) = Len(G) BY <1>1, <1>6 DEF Answers
<1>8. \A m \in 1..Len(G) : answered[k][m] = G[m]
  <2>1. \A m \in 1..Len(G) : answered[k][m] = Nth(G, m, policy) BY <1>1, <1>2, <1>7 DEF Answers
  <2>2. \A m \in 1..Len(G) : Nth(G, m, policy) = G[m] BY <1>2, <1>7 DEF Nth, ServedIndex, Exhausted
  <2> QED BY <2>1, <2>2
<1>9. /\ Len(G) >= Len(P)
      /\ \A i \in 1..Len(P) : G[i] = P[i]
      /\ \A i \in (Len(P) + 1)..Len(G) : G[i] > seed
  BY <1>3, <1>4, FiledExtends
<1>10. \A i \in 1..Len(P) : P[i] \in 1..seed BY <1>5, ElementOfSeq
<1>11. \A j \in 1..seed : IndexKey(mem[j]) = k => \E i \in 1..Len(P) : P[i] = j
  <2>1. ASSUME NEW j \in 1..seed, IndexKey(mem[j]) = k
        PROVE  \E i \in 1..Len(Filed(mem)[seed][k]) : Filed(mem)[seed][k][i] = j
    BY <1>3, <2>1, FiledAll
  <2> QED BY <1>4, <2>1
<1> HIDE DEF G, P
<1>12. n \in 1..Len(G) /\ n > Len(P)
  <2>1. n \in 1..Len(G) BY <1>2, <1>7
  <2>2. n \in 1..Len(P) => answered[k][n] \in 1..seed BY <1>8, <1>9, <1>10, <2>1
  <2> QED BY <1>2, <1>3, <2>1, <2>2
<1>13. ASSUME NEW i \in 1..seed, IndexKey(mem[i]) = k PROVE \E m \in 1..(n - 1) : answered[k][m] = i
  <2>1. PICK m \in 1..Len(P) : P[m] = i BY <1>11, <1>13
  <2>2. m \in 1..(n - 1) /\ m \in 1..Len(G) BY <1>2, <1>12, <2>1
  <2>3. answered[k][m] = i BY <1>8, <1>9, <2>1, <2>2
  <2> QED BY <2>2, <2>3
<1>14. ASSUME NEW m \in n..Len(answered[k]) PROVE answered[k][m] > seed
  <2>1. m \in (Len(P) + 1)..Len(G) /\ m \in 1..Len(G) BY <1>2, <1>7, <1>12
  <2> QED BY <1>8, <1>9, <2>1
<1> QED BY <1>13, <1>14

LEMMA ShadowStep ==
    ASSUME Inv, [Next]_vars, phase' # "run"
    PROVE  SuffixAfterPrefix'
<1> USE DEF opened, run
<1>1. TypeOK /\ MemInv /\ AnswerInv /\ DiskInv /\ SuffixAfterPrefix
  BY RunShadow DEF Inv
<1>2. UNCHANGED <<seed, answered>> /\ \A i \in 1..seed : IndexKey(mem'[i]) = IndexKey(mem[i])
  <2>1. CASE Reopen
    <3>1. phase = "run" /\ mem' = disk /\ UNCHANGED <<seed, answered>> BY <2>1 DEF Reopen
    <3> QED BY <1>1, <3>1 DEF DiskInv
  <2>2. CASE ReopenFails \/ (\E k \in Keys : Play(k)) \/ UNCHANGED vars
    BY <2>2 DEF ReopenFails, Play, vars
  <2>3. ~\E c \in Calls : \/ Call(c) \/ LookupFails(c) \/ ServePrefix(c) \/ Diverge(c)
                          \/ LiveFails(c) \/ LiveAnswers(c) \/ Capture(c) \/ CaptureFails(c)
    BY DEF Call, LookupFails, ServePrefix, Diverge, LiveFails, LiveAnswers, Capture, CaptureFails
  <2>4. ~Save BY DEF Save
  <2> QED BY <2>1, <2>2, <2>3, <2>4 DEF Next
<1>3. \A k : {i \in 1..seed' : IndexKey(mem'[i]) = k} = {i \in 1..seed : IndexKey(mem[i]) = k} BY <1>2
<1> QED BY <1>1, <1>2, <1>3 DEF SuffixAfterPrefix
-----------------------------------------------------------------------------
(* The invariant                                                           *)

LEMMA InitInv == Init => Inv
<1> SUFFICES ASSUME Init PROVE Inv OBVIOUS
<1>1. TypeOK BY TypeInit
<1>2. CallInv BY DEF Init, CallInv
<1>3. LiveInv BY DEF Init, LiveInv
<1>4. Len(mem) \in Nat /\ DOMAIN mem = 1..Len(mem) BY <1>1, MemFacts
<1>5. MemInv
  <2>1. mode = "record" => seed = 0 BY DEF Init
  <2>2. keys = Filed(mem)[seed] BY DEF Init, Groups
  <2>3. \A i \in 1..seed : ~Unindexable(mem[i])
    <3>1. CASE mem = <<>> BY <3>1 DEF Init
    <3>2. CASE Opens(mem) BY <1>4, <3>2 DEF Init, Opens
    <3> QED BY <3>1, <3>2 DEF Init
  <2>4. (seed + 1)..Len(mem) = {} BY <1>4 DEF Init
  <2> QED BY <2>1, <2>2, <2>3, <2>4 DEF MemInv
<1>6. AnswerInv
  <2> SUFFICES ASSUME NEW k \in Keys PROVE Answers(k) BY DEF AnswerInv
  <2>1. answered[k] = <<>> /\ cursor[k] = 0 /\ keys[k] = Groups(mem)[k] BY DEF Init, Nowhere, Zero
  <2>2. Len(keys[k]) \in Nat BY <1>1, KeyFacts
  <2>3. Len(answered[k]) = 0 /\ DOMAIN answered[k] = {} BY <2>1
  <2> QED BY <2>1, <2>2, <2>3 DEF Answers, After
<1>7. DiskInv
  <2>1. disk = mem /\ seed = Len(mem) /\ phase = "run" BY DEF Init
  <2>2. \A i \in DOMAIN disk : ~Unindexable(disk[i]) BY <1>4, <1>5, <2>1 DEF MemInv
  <2>3. ASSUME NEW k \in Keys
        PROVE  DOMAIN upTo[k] = {} /\ ~(Len(upTo[k]) > Len(Groups(disk)[k]))
    <3>1. upTo[k] = <<>> BY DEF Init, Nowhere
    <3>2. Len(Groups(disk)[k]) \in Nat
      <4>1. Groups(disk) \in [Keys -> Seq(Nat \ {0})] BY <1>4, <2>1, GroupsTypes
      <4> QED BY <4>1, LenProperties
    <3> QED BY <3>1, <3>2
  <2> QED BY <1>4, <2>1, <2>2, <2>3 DEF DiskInv
<1>8. ReplayInv BY DEF Init, ReplayInv
<1>9. phase = "run" BY DEF Init
<1> QED BY <1>1, <1>2, <1>3, <1>5, <1>6, <1>7, <1>8, <1>9 DEF Inv

LEMMA InvHolds == Spec => []Inv
<1>1. Inv /\ [Next]_vars => Inv'
  BY TypeStep, CallStep, LiveStep, MemStep, AnswerStep, DiskStep, ReplayStep, ShadowStep DEF Inv
<1> QED BY InitInv, <1>1, PTL DEF Spec
-----------------------------------------------------------------------------
(* The theorems                                                            *)

\* The cassette in memory and on the disk, the calls, and what both processes answered have their types
\* (cassette.go, transport.go, mcp.go).
THEOREM TypeCorrect == Spec => []TypeOK
<1>1. Inv => TypeOK BY DEF Inv
<1> QED BY InvHolds, <1>1, PTL

\* Whatever is interleaved in a run and however often it is saved: the second process answers the n-th
\* request of a key with the interaction that had answered the n-th one when the file was saved, and
\* misses none of them (transport.go, branch and record; cassette.go, index).
THEOREM RunReplaysCorrect == Spec => []RunReplays
<1>1. ASSUME Inv PROVE RunReplays
  <2> SUFFICES ASSUME phase = "replay", NEW k \in Keys
               PROVE  /\ \A n \in DOMAIN upTo[k] : n \in DOMAIN replayed[k] => replayed[k][n] = upTo[k][n]
                      /\ Len(replayed[k]) < Len(upTo[k]) => CanServe(keys[k], cursor[k], policy)
    BY DEF RunReplays
  <2>1. /\ keys[k] = Groups(disk)[k] /\ Len(keys[k]) \in Nat /\ Len(replayed[k]) \in Nat /\ Len(upTo[k]) \in Nat
        /\ \A n \in DOMAIN replayed[k] : replayed[k][n] = Nth(keys[k], n, policy)
        /\ cursor[k] = After(Len(keys[k]), Len(replayed[k]), policy)
        /\ policy = "Error" => Len(replayed[k]) <= Len(keys[k])
    BY <1>1, KeyFacts DEF Inv, ReplayInv
  <2>2. /\ \A n \in DOMAIN upTo[k] : upTo[k][n] = Nth(keys[k], n, policy)
        /\ Len(upTo[k]) > Len(keys[k]) => policy # "Error" /\ keys[k] # <<>>
    BY <1>1, <2>1 DEF Inv, DiskInv
  <2>3. ASSUME Len(replayed[k]) < Len(upTo[k]) PROVE CanServe(keys[k], cursor[k], policy)
    <3>1. keys[k] # <<>>
      <4>1. keys[k] = <<>> => Len(keys[k]) = 0 OBVIOUS
      <4> QED BY <2>1, <2>2, <2>3, <4>1
    <3>2. policy = "Error" => cursor[k] < Len(keys[k]) BY <2>1, <2>2, <2>3 DEF After
    <3>3. cursor[k] \in Nat BY <1>1, KeyFacts DEF Inv
    <3> QED BY <2>1, <3>1, <3>2, <3>3 DEF CanServe, Exhausted
  <2> QED BY <2>1, <2>2, <2>3
<1> QED BY InvHolds, <1>1, PTL

\* The seed's entries of a key are used up before a request of that key goes live, and once it has, the
\* seed is not gone back to (transport.go, branch).
THEOREM SuffixAfterPrefixCorrect == Spec => []SuffixAfterPrefix
<1>1. Inv => SuffixAfterPrefix BY RunShadow DEF Inv
<1> QED BY InvHolds, <1>1, PTL

\* A file that does not open was recorded, not branched, and holds a keyless HTTP request of the run
\* (cassette.go, index; transport.go, record and branch).
THEOREM UnopenableOnlyIfKeylessCorrect == Spec => []UnopenableOnlyIfKeyless
<1>1. ASSUME Inv PROVE UnopenableOnlyIfKeyless
  <2> SUFFICES ASSUME phase = "failed"
               PROVE  /\ mode = "record"
                      /\ \E c \in Calls : slot[c] # 0 /\ req[c].key = NoKey /\ req[c].kind = "http"
    BY DEF UnopenableOnlyIfKeyless
  <2>1. PICK i \in DOMAIN disk : Unindexable(disk[i]) BY <1>1 DEF Inv, DiskInv, Opens
  <2>2. mode = "record" /\ \E c \in Calls : slot[c] = i /\ req[c].key = NoKey /\ req[c].kind = "http"
    BY <1>1, <2>1 DEF Inv, DiskInv
  <2>3. i # 0 BY <1>1, <2>1, MemFacts DEF Inv
  <2> QED BY <2>2, <2>3
<1> QED BY InvHolds, <1>1, PTL

\* A Save writes the whole body of every call that has returned it, and none of a body that failed to
\* arrive (transport.go, record; cassette.go, Save).
THEOREM HeardIsSavedCorrect == Spec => HeardIsSaved
<1>1. ASSUME Inv, [Next]_vars, NEW c \in Calls, disk' # disk, slot[c] # 0
      PROVE  /\ slot[c] \in DOMAIN disk'
             /\ pc[c] = "done" => disk'[slot[c]].full
             /\ pc[c] = "cut" => ~disk'[slot[c]].full
  <2>1. TypeOK /\ CallInv /\ LiveInv /\ MemInv /\ AnswerInv BY <1>1 DEF Inv
  <2>2. Save
    BY <1>1 DEF Next, vars, Call, LookupFails, ServePrefix, Diverge, LiveFails, LiveAnswers, Capture,
                CaptureFails, Reopen, ReopenFails, Play
  <2>3. /\ phase = "run" /\ DOMAIN disk' = 1..Len(mem)
        /\ \A i \in 1..Len(mem) : disk'[i].full = mem[i].full
    BY <2>1, <2>2, SaveFacts
  <2>4. slot[c] \in Nat BY <2>1 DEF TypeOK
  <2>5. /\ slot[c] \in 1..Len(mem)
        /\ pc[c] = "done" => mem[slot[c]].full
        /\ pc[c] = "cut" => ~mem[slot[c]].full
    BY <1>1, <2>1, <2>3, <2>4, MemFacts DEF LiveInv
  <2> QED BY <2>3, <2>5
<1>2. Inv /\ [Next]_vars => [\A c \in Calls :
        (disk' # disk /\ slot[c] # 0) =>
            /\ slot[c] \in DOMAIN disk'
            /\ pc[c] = "done" => disk'[slot[c]].full
            /\ pc[c] = "cut" => ~disk'[slot[c]].full]_vars
  BY <1>1
<1> QED BY InvHolds, <1>2, PTL DEF Spec, HeardIsSaved
===============================================================================
