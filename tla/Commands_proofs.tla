--------------------------- MODULE Commands_proofs ---------------------------
(***************************************************************************)
(* The theorems of the modules of the commands that work on recordings:    *)
(* Upkeep, for every set of fields, values, recordings and edits, and      *)
(* Derive, for every corpus of recordings and any number of commands.      *)
(*                                                                         *)
(* Of Derive: each command is shown to derive a file whose turns, keys and *)
(* lineage follow those of its source (Derived); that the sources are what *)
(* the ghost variables remember is the invariant.  Shrink is shown to      *)
(* leave no signal out, round by round.  The events of every stream of     *)
(* every file come in an order a decoder reads back (AnswersInv); so a     *)
(* turn that is written anew is read back as it was (Transcripts_proofs).  *)
(***************************************************************************)
EXTENDS Upkeep, Derive, Transcripts_proofs

(***************************************************************************)
(* One interaction                                                         *)
(***************************************************************************)

(* A typed interaction whose stored body hides only what was redacted.     *)
Good(e) == e \in Interactions /\ Shows(e)

(* The key of a body is a key over decoded bytes, and not the empty one.   *)
LEMMA KeyOfFacts ==
  ASSUME NEW e \in Interactions, NEW body \in Bodies, NEW drop \in SUBSET Fields
  PROVE  /\ KeyOf(e, body, drop) \in Key
         /\ KeyOf(e, body, drop).raw = FALSE
         /\ KeyOf(e, body, drop) # NoKey
<1>1. e.kind \in {"http", "mcp"}
  BY DEF Interactions
<1>2. [f \in Fields \ drop |-> body[f]] \in [Fields \ drop -> Values]
  BY DEF Bodies
<1>3. (IF e.kind = "http" /\ e.json THEN [f \in Fields \ drop |-> body[f]] ELSE body)
        \in UNION {[S -> Values] : S \in SUBSET Fields}
  <2>1. body \in [Fields -> Values]
    BY DEF Bodies
  <2> QED  BY <1>2, <2>1
<1>4. KeyOf(e, body, drop) \in Key
  BY <1>1, <1>3 DEF KeyOf, Key
<1> QED  BY <1>4, NoKeyAssumption DEF KeyOf

(* The live and the stored body of an interaction are bodies.              *)
LEMMA LiveBody ==
  ASSUME NEW e \in Interactions
  PROVE  e.live \in Bodies /\ e.stored \in Bodies
BY DEF Interactions, Bodies, Values

(* Every key that is computed is a key.                                    *)
LEMMA KeyFacts ==
  ASSUME NEW e \in Interactions, NEW drop \in SUBSET Fields
  PROVE  /\ LiveKey(e, drop) \in Key /\ LiveKey(e, drop) # NoKey
         /\ DerivedKey(e, drop) \in Key /\ DerivedKey(e, drop) # NoKey
         /\ DerivedKey(e, drop).raw = FALSE
BY KeyOfFacts, LiveBody DEF LiveKey, DerivedKey

(* An interaction is filed under its saved key, and derived again without. *)
LEMMA IndexKeyIs ==
  ASSUME NEW e \in Interactions, NEW drop
  PROVE  IndexKey(e, drop) = IF e.saved # NoKey THEN e.saved ELSE DerivedKey(e, drop)
BY DEF IndexKey, MT!IndexKey, MT!Matchable, Interactions

(* Where no hidden field enters the key, it can be derived again.          *)
LEMMA RederivableKey ==
  ASSUME NEW e \in Interactions, NEW drop \in SUBSET Fields, Rederivable(e, drop)
  PROVE  DerivedKey(e, drop) = LiveKey(e, drop)
<1>1. CASE e.kind = "http" /\ e.json
  <2>1. \A f \in Fields \ drop : e.stored[f] = e.live[f]
    BY <1>1 DEF Rederivable, Hidden
  <2>2. [f \in Fields \ drop |-> e.stored[f]] = [f \in Fields \ drop |-> e.live[f]]
    BY <2>1
  <2> QED  BY <1>1, <2>2 DEF DerivedKey, LiveKey, KeyOf
<1>2. CASE ~(e.kind = "http" /\ e.json)
  <2>1. \A f \in Fields : e.stored[f] = e.live[f]
    BY <1>2 DEF Rederivable, Hidden
  <2>2. e.stored = e.live
    BY <2>1, LiveBody DEF Bodies
  <2> QED  BY <2>2 DEF DerivedKey, LiveKey
<1> QED  BY <1>1, <1>2

(* Scrubbing leaves everything but the stored body as it was.              *)
LEMMA ScrubOneFacts ==
  ASSUME NEW e, Good(e)
  PROVE  /\ Good(ScrubOne(e))
         /\ ScrubOne(e).saved = e.saved
         /\ ScrubOne(e).answer = e.answer
         /\ \A drop : LiveKey(ScrubOne(e), drop) = LiveKey(e, drop)
<1> DEFINE body == [f \in Fields |-> IF e.stored[f] = Secret THEN "REDACTED" ELSE e.stored[f]]
<1>0. e \in Interactions /\ Shows(e)
  BY DEF Good
<1>1. CASE e.gzip
  BY <1>0, <1>1 DEF ScrubOne, Good
<1>2. CASE ~e.gzip
  <2>1. ScrubOne(e) = [e EXCEPT !.stored = body]
    BY <1>2 DEF ScrubOne
  <2>2. body \in Bodies
    BY <1>0, LiveBody DEF Bodies, Values, Sentinels
  <2>3. ScrubOne(e) \in Interactions
    BY <1>0, <2>1, <2>2 DEF Interactions
  <2>4. /\ ScrubOne(e).saved = e.saved /\ ScrubOne(e).answer = e.answer
        /\ ScrubOne(e).live = e.live /\ ScrubOne(e).kind = e.kind
        /\ ScrubOne(e).json = e.json /\ ScrubOne(e).gzip = e.gzip
        /\ ScrubOne(e).stored = body
    BY <1>0, <2>1 DEF Interactions
  <2>5. Shows(ScrubOne(e))
    BY <1>0, <1>2, <2>4 DEF Shows, Hidden, Sentinels
  <2>6. \A drop : LiveKey(ScrubOne(e), drop) = LiveKey(e, drop)
    BY <2>4 DEF LiveKey, KeyOf
  <2> QED  BY <2>3, <2>4, <2>5, <2>6 DEF Good
<1> QED  BY <1>0, <1>1, <1>2 DEF Interactions

(* Rekeying changes the saved key only.                                    *)
LEMMA RekeyOneFacts ==
  ASSUME NEW e, Good(e), NEW drop \in SUBSET Fields
  PROVE  /\ Good(RekeyOne(e, drop))
         /\ RekeyOne(e, drop).saved = DerivedKey(e, drop)
         /\ RekeyOne(e, drop).saved # NoKey
         /\ \A d : LiveKey(RekeyOne(e, drop), d) = LiveKey(e, d)
<1>0. e \in Interactions /\ Shows(e)
  BY DEF Good
<1>1. DerivedKey(e, drop) \in Key /\ DerivedKey(e, drop) # NoKey
  BY <1>0, KeyFacts
<1>2. RekeyOne(e, drop) \in Interactions
  BY <1>0, <1>1 DEF RekeyOne, Interactions
<1>3. LET r == RekeyOne(e, drop) IN
        /\ r.saved = DerivedKey(e, drop) /\ r.answer = e.answer
        /\ r.live = e.live /\ r.kind = e.kind /\ r.json = e.json
        /\ r.gzip = e.gzip /\ r.stored = e.stored
  BY <1>0 DEF RekeyOne, Interactions
<1>4. Shows(RekeyOne(e, drop))
  BY <1>0, <1>3 DEF Shows, Hidden
<1>5. \A d : LiveKey(RekeyOne(e, drop), d) = LiveKey(e, d)
  BY <1>3 DEF LiveKey, KeyOf
<1> QED  BY <1>1, <1>2, <1>3, <1>4, <1>5 DEF Good

(* Redaction hides the field.                                              *)
LEMMA RedactOneFacts ==
  ASSUME NEW e, Good(e), NEW f \in Fields
  PROVE  /\ Good(RedactOne(e, f))
         /\ \A d : LiveKey(RedactOne(e, f), d) = LiveKey(e, d)
<1>0. e \in Interactions /\ Shows(e)
  BY DEF Good
<1>1. CASE e.json /\ ~e.gzip
  <2> DEFINE r == RedactOne(e, f)
  <2>1. r = [e EXCEPT !.stored = [e.stored EXCEPT ![f] = "[REDACTED]"]]
    BY <1>1 DEF RedactOne
  <2>2. [e.stored EXCEPT ![f] = "[REDACTED]"] \in Bodies
    BY <1>0, LiveBody DEF Bodies, Values, Sentinels
  <2>3. r \in Interactions
    BY <1>0, <2>1, <2>2 DEF Interactions
  <2>4. /\ r.live = e.live /\ r.kind = e.kind /\ r.json = e.json /\ r.gzip = e.gzip
        /\ r.stored = [e.stored EXCEPT ![f] = "[REDACTED]"]
    BY <1>0, <2>1 DEF Interactions
  <2>5. \A h \in Fields : r.stored[h] = IF h = f THEN "[REDACTED]" ELSE e.stored[h]
    BY <1>0, <2>4, LiveBody DEF Bodies
  <2>6. Shows(r)
    BY <1>0, <1>1, <2>4, <2>5 DEF Shows, Hidden, Sentinels
  <2>7. \A d : LiveKey(r, d) = LiveKey(e, d)
    BY <2>4 DEF LiveKey, KeyOf
  <2> QED  BY <2>3, <2>6, <2>7 DEF Good
<1>2. CASE ~(e.json /\ ~e.gzip)
  BY <1>0, <1>2 DEF RedactOne, Good
<1> QED  BY <1>1, <1>2

(* A hand edit changes what the client sends along with the body.          *)
LEMMA EditOneGood ==
  ASSUME NEW e, Good(e), NEW edit \in Edits, ~e.gzip
  PROVE  Good(EditOne(e, edit))
<1> DEFINE r == EditOne(e, edit)
<1>0. e \in Interactions /\ Shows(e)
  BY DEF Good
<1>1. PICK f \in Fields, v \in Plain : edit = <<f, v>>
  BY EditsAssumption
<1>2. edit[1] = f /\ edit[2] = v
  BY <1>1
<1>3. r = [e EXCEPT !.stored = [e.stored EXCEPT ![f] = v], !.live = [e.live EXCEPT ![f] = v]]
  BY <1>2 DEF EditOne
<1>4. [e.stored EXCEPT ![f] = v] \in Bodies
  BY <1>0, LiveBody DEF Bodies, Values
<1>5. [e.live EXCEPT ![f] = v] \in [Fields -> Plain \cup {Secret}]
  BY <1>0 DEF Interactions
<1>6. r \in Interactions
  BY <1>0, <1>3, <1>4, <1>5 DEF Interactions
<1>7. /\ r.gzip = e.gzip /\ r.stored = [e.stored EXCEPT ![f] = v]
      /\ r.live = [e.live EXCEPT ![f] = v]
  BY <1>0, <1>3 DEF Interactions
<1>8. \A h \in Fields : /\ r.stored[h] = IF h = f THEN v ELSE e.stored[h]
                        /\ r.live[h] = IF h = f THEN v ELSE e.live[h]
  BY <1>0, <1>7, LiveBody DEF Bodies
<1>9. Shows(r)
  BY <1>0, <1>7, <1>8 DEF Shows, Hidden
<1> QED  BY <1>6, <1>9 DEF Good

(***************************************************************************)
(* Files                                                                   *)
(***************************************************************************)

(* Good interactions only.                                                 *)
GoodFile(its) == its \in Seq(Interactions) /\ \A n \in DOMAIN its : Good(its[n])

(* Together with its type, goodness is what TypeOK says of the file.       *)
LEMMA GoodFileIs ==
  ASSUME NEW its
  PROVE  GoodFile(its) <=> its \in Seq(Interactions) /\ \A n \in DOMAIN its : Shows(its[n])
<1>1. ASSUME its \in Seq(Interactions), NEW n \in DOMAIN its  PROVE its[n] \in Interactions
  BY <1>1
<1> QED  BY <1>1 DEF GoodFile, Good

(* Counting the chosen positions before each of them numbers them from 0.  *)
LEMMA RankOnto ==
  ASSUME NEW N \in Nat, NEW keep \in SUBSET (1 .. N)
  PROVE  /\ IsFiniteSet(keep) /\ Cardinality(keep) \in Nat /\ Cardinality(keep) <= N
         /\ \A i \in 1 .. Cardinality(keep) :
               \E n \in keep : Cardinality({m \in keep : m < n}) = i - 1
         /\ \A n \in keep : Cardinality({m \in keep : m < n}) + 1 \in 1 .. Cardinality(keep)
         /\ \A n, k \in keep : n < k =>
               Cardinality({m \in keep : m < n}) < Cardinality({m \in keep : m < k})
<1> DEFINE before(n) == {m \in keep : m < n}
           rank == [n \in keep |-> Cardinality(before(n))]
           K == Cardinality(keep)
<1>1. IsFiniteSet(keep) /\ K \in Nat /\ K <= N
  <2>1. IsFiniteSet(1 .. N) /\ Cardinality(1 .. N) = N
    <3>1. IsFiniteSet(1 .. N) /\ Cardinality(1 .. N) = IF 1 > N THEN 0 ELSE N - 1 + 1
      BY FS_Interval
    <3> QED  BY <3>1
  <2> QED  BY <2>1, FS_Subset, FS_CardinalityType
<1>2. ASSUME NEW n \in keep, NEW k \in keep, n < k
      PROVE  Cardinality(before(n)) < Cardinality(before(k))
  <2>1. IsFiniteSet(before(k)) /\ IsFiniteSet(before(n))
    BY <1>1, FS_Subset
  <2>2. before(n) \in SUBSET before(k) /\ n \in before(k) /\ n \notin before(n)
    <3>1. n \in Int /\ k \in Int /\ \A m \in keep : m \in Int
      OBVIOUS
    <3>2. ~(n < n) /\ \A m \in keep : m < n => m < k
      BY <1>2, <3>1
    <3>3. before(n) \subseteq before(k)
      BY <3>2
    <3>4. n \in before(k) /\ n \notin before(n)
      BY <1>2, <3>2
    <3> QED  BY <3>3, <3>4
  <2>3. Cardinality(before(n)) <= Cardinality(before(k))
        /\ Cardinality(before(n)) # Cardinality(before(k))
    BY <2>1, <2>2, FS_Subset
  <2> QED  BY <2>1, <2>3, FS_CardinalityType
<1>3. ASSUME NEW n \in keep  PROVE Cardinality(before(n)) \in 0 .. (K - 1)
  <2>1. before(n) \in SUBSET keep /\ before(n) # keep
    OBVIOUS
  <2>2. IsFiniteSet(before(n)) /\ Cardinality(before(n)) <= K /\ Cardinality(before(n)) # K
    BY <1>1, <2>1, FS_Subset
  <2> QED  BY <1>1, <2>2, FS_CardinalityType
<1>4. rank \in [keep -> 0 .. (K - 1)]
  BY <1>3
<1>5. ASSUME NEW n \in keep, NEW k \in keep, n # k  PROVE rank[n] # rank[k]
  <2>1. n < k \/ k < n
    BY <1>5
  <2>2. rank[n] < rank[k] \/ rank[k] < rank[n]
    BY <1>2, <2>1
  <2>3. rank[n] \in Int /\ rank[k] \in Int
    BY <1>4
  <2> QED  BY <2>2, <2>3
<1>6. rank \in Injection(keep, 0 .. (K - 1))
  BY <1>4, <1>5 DEF Injection, IsInjective
<1>7. IsFiniteSet(0 .. (K - 1)) /\ Cardinality(0 .. (K - 1)) = K
  <2>1. /\ IsFiniteSet(0 .. (K - 1))
        /\ Cardinality(0 .. (K - 1)) = IF 0 > K - 1 THEN 0 ELSE (K - 1) - 0 + 1
    <3>1. 0 \in Int /\ K - 1 \in Int
      BY <1>1
    <3> HIDE DEF K
    <3> QED  BY <3>1, FS_Interval
  <2> QED  BY <1>1, <2>1
<1>8. rank \in Surjection(keep, 0 .. (K - 1))
  BY <1>6, <1>7, FS_Injection
<1>9. \A j \in 0 .. (K - 1) : \E n \in keep : rank[n] = j
  BY <1>8 DEF Surjection
<1>10. \A i \in 1 .. K : \E n \in keep : Cardinality(before(n)) = i - 1
  <2> SUFFICES ASSUME NEW i \in 1 .. K  PROVE \E n \in keep : rank[n] = i - 1
    OBVIOUS
  <2>1. i - 1 \in 0 .. (K - 1)
    BY <1>1
  <2> QED  BY <1>9, <2>1
<1>11. \A n \in keep : Cardinality(before(n)) + 1 \in 1 .. K
  BY <1>1, <1>3
<1> QED  BY <1>1, <1>2, <1>10, <1>11

(* Select takes the chosen interactions, and all of them.                  *)
LEMMA SelectFacts ==
  ASSUME NEW its, GoodFile(its), NEW keep \in SUBSET DOMAIN its
  PROVE  /\ GoodFile(Select(its, keep))
         /\ Len(Select(its, keep)) <= Len(its)
         /\ \A i \in DOMAIN Select(its, keep) : \E n \in keep : Select(its, keep)[i] = its[n]
         /\ \A n \in keep : \E i \in DOMAIN Select(its, keep) : Select(its, keep)[i] = its[n]
<1> DEFINE K == Cardinality(keep)
           before(n) == {m \in keep : m < n}
           pick(i) == CHOOSE n \in keep : Cardinality(before(n)) = i - 1
           sel == Select(its, keep)
<1>0. its \in Seq(Interactions) /\ DOMAIN its = 1 .. Len(its) /\ Len(its) \in Nat
  BY LenProperties DEF GoodFile
<1>1. K \in Nat /\ K <= Len(its)
  BY <1>0, RankOnto
<1>2. ASSUME NEW i \in 1 .. K  PROVE pick(i) \in keep /\ Cardinality(before(pick(i))) = i - 1
  BY <1>0, <1>2, RankOnto
<1>3. sel = [i \in 1 .. K |-> its[pick(i)]]
  BY DEF Select
<1>4. \A i \in 1 .. K : sel[i] \in Interactions /\ Good(sel[i])
  BY <1>2, <1>3 DEF GoodFile, Good
<1>5. sel \in Seq(Interactions) /\ Len(sel) = K /\ DOMAIN sel = 1 .. K
  <2>1. sel \in [1 .. K -> Interactions]
    BY <1>3, <1>4
  <2> HIDE DEF sel, K
  <2>2. sel \in Seq(Interactions)
    BY <1>1, <2>1
  <2> QED  BY <1>1, <2>1, <2>2, LenProperties
<1>6. ASSUME NEW n \in keep  PROVE \E i \in 1 .. K : sel[i] = its[n]
  <2> DEFINE i == Cardinality(before(n)) + 1
  <2>1. i \in 1 .. K
    BY <1>0, RankOnto
  <2>2. pick(i) \in keep /\ Cardinality(before(pick(i))) = i - 1
    BY <1>2, <2>1
  <2>3. pick(i) \in 1 .. Len(its) /\ n \in 1 .. Len(its)
    BY <1>0, <2>2
  <2>4. ~(pick(i) < n) /\ ~(n < pick(i))
    <3>1. \A k, l \in keep : k < l => Cardinality(before(k)) < Cardinality(before(l))
      BY <1>0, RankOnto
    <3>2. Cardinality(before(pick(i))) = Cardinality(before(n)) /\ Cardinality(before(n)) \in Int
      <4>1. Cardinality(before(n)) \in Nat
        BY <1>0, RankOnto, FS_Subset, FS_CardinalityType
      <4> QED  BY <2>2, <4>1
    <3>3. ~(Cardinality(before(n)) < Cardinality(before(n)))
      BY <3>2
    <3> QED  BY <2>2, <3>1, <3>2, <3>3
  <2>5. pick(i) = n
    <3> HIDE DEF pick, i
    <3> QED  BY <2>3, <2>4
  <2> QED  BY <1>3, <2>1, <2>5
<1> QED  BY <1>1, <1>2, <1>3, <1>4, <1>5, <1>6 DEF GoodFile

(* Scrubbing and rekeying work on each interaction alone.                  *)
LEMMA ScrubAllFacts ==
  ASSUME NEW its, GoodFile(its)
  PROVE  /\ GoodFile(ScrubAll(its))
         /\ Len(ScrubAll(its)) = Len(its)
         /\ DOMAIN ScrubAll(its) = DOMAIN its
         /\ \A n \in DOMAIN its : ScrubAll(its)[n] = ScrubOne(its[n])
<1>0. its \in Seq(Interactions) /\ DOMAIN its = 1 .. Len(its) /\ Len(its) \in Nat
  BY LenProperties DEF GoodFile
<1>1. \A n \in 1 .. Len(its) : ScrubOne(its[n]) \in Interactions /\ Good(ScrubOne(its[n]))
  BY <1>0, ScrubOneFacts DEF GoodFile, Good
<1>2. ScrubAll(its) = [n \in 1 .. Len(its) |-> ScrubOne(its[n])]
  BY <1>0 DEF ScrubAll
<1>3. ScrubAll(its) \in Seq(Interactions) /\ Len(ScrubAll(its)) = Len(its)
  BY <1>0, <1>1, <1>2, IsASeq, LenProperties
<1> QED  BY <1>0, <1>1, <1>2, <1>3 DEF GoodFile

(* As scrubbing, rekeying works on each interaction alone.                 *)
LEMMA RekeyAllFacts ==
  ASSUME NEW its, GoodFile(its), NEW drop \in SUBSET Fields
  PROVE  /\ GoodFile(RekeyAll(its, drop))
         /\ Len(RekeyAll(its, drop)) = Len(its)
         /\ DOMAIN RekeyAll(its, drop) = DOMAIN its
         /\ \A n \in DOMAIN its : RekeyAll(its, drop)[n] = RekeyOne(its[n], drop)
<1>0. its \in Seq(Interactions) /\ DOMAIN its = 1 .. Len(its) /\ Len(its) \in Nat
  BY LenProperties DEF GoodFile
<1>1. \A n \in 1 .. Len(its) : RekeyOne(its[n], drop) \in Interactions /\ Good(RekeyOne(its[n], drop))
  BY <1>0, RekeyOneFacts DEF GoodFile, Good
<1>2. RekeyAll(its, drop) = [n \in 1 .. Len(its) |-> RekeyOne(its[n], drop)]
  BY <1>0 DEF RekeyAll
<1>3. RekeyAll(its, drop) \in Seq(Interactions) /\ Len(RekeyAll(its, drop)) = Len(its)
  BY <1>0, <1>1, <1>2, IsASeq, LenProperties
<1> QED  BY <1>0, <1>1, <1>2, <1>3 DEF GoodFile

(* So does redaction.                                                      *)
LEMMA RedactAllFacts ==
  ASSUME NEW its, GoodFile(its), NEW f \in Fields
  PROVE  /\ GoodFile(RedactAll(its, f))
         /\ Len(RedactAll(its, f)) = Len(its)
         /\ DOMAIN RedactAll(its, f) = DOMAIN its
         /\ \A n \in DOMAIN its : RedactAll(its, f)[n] = RedactOne(its[n], f)
<1>0. its \in Seq(Interactions) /\ DOMAIN its = 1 .. Len(its) /\ Len(its) \in Nat
  BY LenProperties DEF GoodFile
<1>1. \A n \in 1 .. Len(its) : RedactOne(its[n], f) \in Interactions /\ Good(RedactOne(its[n], f))
  BY <1>0, RedactOneFacts DEF GoodFile, Good
<1>2. RedactAll(its, f) = [n \in 1 .. Len(its) |-> RedactOne(its[n], f)]
  BY <1>0 DEF RedactAll
<1>3. RedactAll(its, f) \in Seq(Interactions) /\ Len(RedactAll(its, f)) = Len(its)
  BY <1>0, <1>1, <1>2, IsASeq, LenProperties
<1> QED  BY <1>0, <1>1, <1>2, <1>3 DEF GoodFile

(* The cassettes at hand are good, and so is what is composed of them.     *)
LEMMA RecordedGood ==
  ASSUME NEW g \in Recorded
  PROVE  GoodFile(g.its) /\ g.volatile \in SUBSET Fields
<1>1. g \in [its : Seq(Interactions), volatile : SUBSET Fields]
      /\ \A n \in DOMAIN g.its : Shows(g.its[n])
  BY RecordedAssumption
<1> QED  BY <1>1, GoodFileIs

(* What is in a composed file comes from one of its parts.                 *)
LEMMA ConcatFacts ==
  ASSUME NEW s, NEW t, GoodFile(s), GoodFile(t)
  PROVE  /\ GoodFile(s \o t)
         /\ Len(s \o t) = Len(s) + Len(t)
         /\ \A n \in DOMAIN (s \o t) :
               \/ \E m \in DOMAIN s : (s \o t)[n] = s[m]
               \/ \E m \in DOMAIN t : (s \o t)[n] = t[m]
         /\ \A m \in DOMAIN s : m \in DOMAIN (s \o t) /\ (s \o t)[m] = s[m]
<1>0. /\ s \in Seq(Interactions) /\ DOMAIN s = 1 .. Len(s) /\ Len(s) \in Nat
      /\ t \in Seq(Interactions) /\ DOMAIN t = 1 .. Len(t) /\ Len(t) \in Nat
  BY LenProperties DEF GoodFile
<1>1. /\ s \o t \in Seq(Interactions)
      /\ Len(s \o t) = Len(s) + Len(t)
      /\ \A i \in 1 .. Len(s) + Len(t) :
            (s \o t)[i] = IF i <= Len(s) THEN s[i] ELSE t[i - Len(s)]
  BY <1>0, ConcatProperties
<1>2. DOMAIN (s \o t) = 1 .. (Len(s) + Len(t))
  BY <1>1, LenProperties
<1>3. ASSUME NEW n \in DOMAIN (s \o t)
      PROVE  \/ \E m \in DOMAIN s : (s \o t)[n] = s[m]
             \/ \E m \in DOMAIN t : (s \o t)[n] = t[m]
  <2>1. n \in 1 .. (Len(s) + Len(t))
    BY <1>2
  <2>2. CASE n <= Len(s)
    BY <1>0, <1>1, <2>1, <2>2
  <2>3. CASE ~(n <= Len(s))
    <3>1. n - Len(s) \in 1 .. Len(t)
      BY <1>0, <2>1, <2>3
    <3> QED  BY <1>0, <1>1, <2>1, <2>3, <3>1
  <2> QED  BY <2>2, <2>3
<1>4. ASSUME NEW m \in DOMAIN s  PROVE m \in DOMAIN (s \o t) /\ (s \o t)[m] = s[m]
  <2>1. m \in 1 .. Len(s) /\ m \in 1 .. (Len(s) + Len(t)) /\ m <= Len(s)
    BY <1>0
  <2> QED  BY <1>1, <1>2, <2>1
<1>5. \A n \in DOMAIN (s \o t) : Good((s \o t)[n])
  BY <1>3 DEF GoodFile
<1> QED  BY <1>1, <1>3, <1>4, <1>5 DEF GoodFile

(* its is s followed by t.                                                 *)
Catenated(its, s, t) == its = s \o t

(* What was appended is in the composed file.                              *)
LEMMA ConcatTail ==
  ASSUME NEW s, NEW t, GoodFile(s), GoodFile(t), NEW its, Catenated(its, s, t)
  PROVE  \A m \in DOMAIN t : \E n \in DOMAIN its : its[n] = t[m]
<1>0. /\ s \in Seq(Interactions) /\ DOMAIN s = 1 .. Len(s) /\ Len(s) \in Nat
      /\ t \in Seq(Interactions) /\ DOMAIN t = 1 .. Len(t) /\ Len(t) \in Nat
  BY LenProperties DEF GoodFile
<1>1. /\ its \in Seq(Interactions)
      /\ Len(its) = Len(s) + Len(t)
      /\ \A i \in 1 .. Len(s) + Len(t) :
            its[i] = IF i <= Len(s) THEN s[i] ELSE t[i - Len(s)]
  BY <1>0, ConcatProperties DEF Catenated
<1>2. DOMAIN its = 1 .. (Len(s) + Len(t))
  BY <1>1, LenProperties
<1>3. ASSUME NEW m \in DOMAIN t  PROVE \E n \in DOMAIN its : its[n] = t[m]
  <2>1. /\ m + Len(s) \in 1 .. (Len(s) + Len(t)) /\ ~(m + Len(s) <= Len(s))
        /\ (m + Len(s)) - Len(s) = m
    BY <1>0
  <2>2. its[m + Len(s)] = t[m]
    BY <1>1, <2>1
  <2> QED  BY <1>2, <2>1, <2>2
<1> QED  BY <1>3

(***************************************************************************)
(* Type correctness                                                        *)
(***************************************************************************)

(* TypeOK in the terms of the lemmas.                                      *)
LEMMA TypeIs ==
  TypeOK <=> GoodFile(file) /\ Len(file) <= MaxLength /\ volatile \in SUBSET Fields
BY GoodFileIs DEF TypeOK

(* Every command keeps a well-formed file well formed.                     *)
LEMMA TypeStep ==
  TypeOK /\ [Next]_vars => TypeOK'
<1> SUFFICES ASSUME TypeOK, [Next]_vars  PROVE TypeOK'
  OBVIOUS
<1>0. GoodFile(file) /\ Len(file) <= MaxLength /\ volatile \in SUBSET Fields
  BY TypeIs
<1>00. Len(file) \in Nat /\ DOMAIN file = 1 .. Len(file) /\ MaxLength \in Nat
  BY <1>0, MaxLengthAssumption, LenProperties DEF GoodFile
<1> SUFFICES GoodFile(file') /\ Len(file') <= MaxLength /\ volatile' \in SUBSET Fields
  BY TypeIs, GoodFileIs DEF TypeOK
<1>1. CASE Scrub
  BY <1>0, <1>1, ScrubAllFacts DEF Scrub
<1>2. ASSUME NEW keep \in SUBSET DOMAIN file, file' = ScrubAll(Select(file, keep)),
             volatile' = volatile
      PROVE  GoodFile(file') /\ Len(file') <= MaxLength /\ volatile' \in SUBSET Fields
  <2>1. GoodFile(Select(file, keep)) /\ Len(Select(file, keep)) <= Len(file)
    BY <1>0, SelectFacts
  <2>2. GoodFile(file') /\ Len(file') = Len(Select(file, keep))
    BY <1>2, <2>1, ScrubAllFacts
  <2>3. Len(file') \in Nat
    BY <2>2, LenProperties DEF GoodFile
  <2> QED  BY <1>0, <1>00, <1>2, <2>1, <2>2, <2>3
<1>3. CASE Prune
  <2>1. PICK pruned \in SUBSET DOMAIN file :
          file' = ScrubAll(Select(file, DOMAIN file \ pruned)) /\ volatile' = volatile
    BY <1>3 DEF Prune
  <2> QED  BY <1>2, <2>1
<1>4. CASE \E force \in BOOLEAN : Rekey(force)
  <2>1. file' = ScrubAll(RekeyAll(file, volatile)) /\ volatile' = volatile
    BY <1>4 DEF Rekey
  <2>2. GoodFile(RekeyAll(file, volatile)) /\ Len(RekeyAll(file, volatile)) = Len(file)
    BY <1>0, RekeyAllFacts
  <2> QED  BY <1>0, <2>1, <2>2, ScrubAllFacts
<1>5. CASE RekeyPath
  BY <1>0, <1>5, RekeyAllFacts DEF RekeyPath
<1>6. CASE \E f \in Fields : RedactField(f)
  <2>1. PICK f \in Fields : RedactField(f)
    BY <1>6
  <2>2. PICK drop \in SUBSET Fields : drop = AddVolatile(volatile, f)
    BY <1>0 DEF AddVolatile
  <2>3. file' = ScrubAll(RekeyAll(RedactAll(file, f), drop)) /\ volatile' = drop
    BY <2>1, <2>2 DEF RedactField
  <2>4. GoodFile(RedactAll(file, f)) /\ Len(RedactAll(file, f)) = Len(file)
    BY <1>0, RedactAllFacts
  <2>5. /\ GoodFile(RekeyAll(RedactAll(file, f), drop))
        /\ Len(RekeyAll(RedactAll(file, f), drop)) = Len(file)
    BY <2>4, RekeyAllFacts
  <2> QED  BY <1>0, <2>3, <2>5, ScrubAllFacts
<1>7. ASSUME NEW g \in Recorded, Stitch(g) \/ Merge(g)
      PROVE  GoodFile(file') /\ Len(file') <= MaxLength /\ volatile' \in SUBSET Fields
  <2>1. GoodFile(g.its) /\ g.volatile \in SUBSET Fields
    BY RecordedGood
  <2>2. /\ GoodFile(file \o g.its) /\ Len(file \o g.its) = Len(file) + Len(g.its)
        /\ Len(file \o g.its) <= MaxLength /\ Len(file \o g.its) \in Nat
    <3>1. GoodFile(file \o g.its) /\ Len(file \o g.its) = Len(file) + Len(g.its)
      BY <1>0, <2>1, ConcatFacts
    <3>2. Len(file \o g.its) \in Nat
      BY <3>1, LenProperties DEF GoodFile
    <3> QED  BY <1>7, <3>1, <3>2 DEF Stitch, Merge
  <2>3. volatile' \in SUBSET Fields
    BY <1>0, <1>7, <2>1 DEF Stitch, Merge
  <2>4. CASE Stitch(g)
    BY <2>2, <2>3, <2>4, ScrubAllFacts DEF Stitch
  <2>5. CASE Merge(g)
    <3> DEFINE its == file \o g.its
    <3>1. PICK keep \in SUBSET DOMAIN its : file' = ScrubAll(Select(its, keep))
      BY <2>5 DEF Merge, Distinct
    <3>2. GoodFile(Select(its, keep)) /\ Len(Select(its, keep)) <= Len(its)
      BY <2>2, SelectFacts
    <3>3. GoodFile(file') /\ Len(file') = Len(Select(its, keep))
      BY <3>1, <3>2, ScrubAllFacts
    <3>4. Len(file') \in Nat
      BY <3>3, LenProperties DEF GoodFile
    <3> QED  BY <1>00, <2>2, <2>3, <3>2, <3>3, <3>4
  <2> QED  BY <1>7, <2>4, <2>5
<1>8. CASE SplitByProvider \/ SplitByTool
  <2>1. PICK keep \in SUBSET DOMAIN file : Split(keep)
    BY <1>8 DEF SplitByProvider, SplitByTool
  <2> QED  BY <1>2, <2>1 DEF Split
<1>9. ASSUME NEW n \in DOMAIN file, NEW edit \in Edits, HandEdit(n, edit)
      PROVE  GoodFile(file') /\ Len(file') <= MaxLength /\ volatile' \in SUBSET Fields
  <2>1. Good(EditOne(file[n], edit))
    BY <1>0, <1>9, EditOneGood DEF GoodFile, HandEdit
  <2>2. PICK e : e = EditOne(file[n], edit)
    OBVIOUS
  <2>3. file' = [file EXCEPT ![n] = e] /\ volatile' = volatile
    BY <1>9, <2>2 DEF HandEdit
  <2>4. e \in Interactions /\ Good(e) /\ n \in 1 .. Len(file) /\ file \in Seq(Interactions)
    BY <1>0, <1>00, <2>1, <2>2 DEF Good, GoodFile
  <2>5. /\ [file EXCEPT ![n] = e] \in Seq(Interactions)
        /\ Len([file EXCEPT ![n] = e]) = Len(file)
        /\ \A j \in 1 .. Len(file) : [file EXCEPT ![n] = e][j] = IF j = n THEN e ELSE file[j]
    BY <2>4, ExceptSeq
  <2>6. \A j \in 1 .. Len(file) : Good(file'[j])
    BY <1>0, <1>00, <2>3, <2>4, <2>5 DEF GoodFile
  <2>7. file' \in Seq(Interactions) /\ Len(file') = Len(file) /\ DOMAIN file' = 1 .. Len(file)
    BY <2>3, <2>5, LenProperties
  <2> QED  BY <1>0, <2>3, <2>6, <2>7 DEF GoodFile
<1>10. CASE UNCHANGED vars
  BY <1>0, <1>10 DEF vars
<1> QED
  BY <1>1, <1>3, <1>4, <1>5, <1>6, <1>7, <1>8, <1>9, <1>10 DEF Next

(* The file stays well formed, and what a command hides of a body is no    *)
(* more than what was redacted, for every recording (wirefmt.go, scrub.go).*)
THEOREM TypeCorrect == Spec => []TypeOK
<1>1. Init => TypeOK
  <2> SUFFICES ASSUME Init  PROVE TypeOK
    OBVIOUS
  <2>1. PICK g \in Recorded : Len(g.its) <= MaxLength /\ file = g.its /\ volatile = g.volatile
    BY DEF Init
  <2> QED  BY <2>1, RecordedGood, TypeIs
<1> QED  BY <1>1, TypeStep, PTL DEF Spec

(***************************************************************************)
(* Replay after an edit                                                    *)
(***************************************************************************)

(* If everything is filed as it is asked, the n-th request takes the n-th  *)
(* interaction.                                                            *)
LEMMA FaithfulReplays ==
  ASSUME NEW its, NEW drop, Faithful(its, drop)
  PROVE  Replays(its, drop)
<1> DEFINE asked == [n \in DOMAIN its |-> LiveKey(its[n], drop)]
<1>1. Filed(its, drop) = asked
  BY DEF Faithful, Found, Filed
<1>2. \A n \in DOMAIN its : n \in Takes(asked, asked, n)
  BY DEF Takes
<1> QED  BY <1>1, <1>2 DEF Replays

(* An interaction filed by a saved key is found iff that is the live key.  *)
LEMMA KeyedFound ==
  ASSUME NEW e \in Interactions, NEW drop, e.saved # NoKey
  PROVE  Found(e, drop) <=> e.saved = LiveKey(e, drop)
BY IndexKeyIs DEF Found

(* Scrubbing leaves keyed interactions where they are filed.               *)
LEMMA ScrubFaithful ==
  ASSUME NEW its, GoodFile(its), Keyed(its), NEW drop, Faithful(its, drop)
  PROVE  Faithful(ScrubAll(its), drop) /\ Replays(ScrubAll(its), drop)
<1>1. ASSUME NEW n \in DOMAIN its  PROVE Found(ScrubOne(its[n]), drop)
  <2>1. Good(its[n]) /\ its[n] \in Interactions /\ its[n].saved # NoKey /\ Found(its[n], drop)
    BY DEF GoodFile, Good, Keyed, Faithful
  <2>2. /\ ScrubOne(its[n]) \in Interactions
        /\ ScrubOne(its[n]).saved = its[n].saved
        /\ LiveKey(ScrubOne(its[n]), drop) = LiveKey(its[n], drop)
    BY <2>1, ScrubOneFacts DEF Good
  <2> QED  BY <2>1, <2>2, KeyedFound
<1>2. Faithful(ScrubAll(its), drop)
  BY <1>1, ScrubAllFacts DEF Faithful
<1> QED  BY <1>2, FaithfulReplays

(* A choice of keyed interactions is keyed and filed as they were.         *)
LEMMA SelectFaithful ==
  ASSUME NEW its, GoodFile(its), Keyed(its), NEW drop, Faithful(its, drop),
         NEW keep \in SUBSET DOMAIN its
  PROVE  Keyed(Select(its, keep)) /\ Faithful(Select(its, keep), drop)
<1>1. \A i \in DOMAIN Select(its, keep) : \E n \in DOMAIN its : Select(its, keep)[i] = its[n]
  BY SelectFacts
<1> QED  BY <1>1 DEF Keyed, Faithful

(* Rekeyed interactions are found if their keys could be derived again.    *)
LEMMA RekeyFaithful ==
  ASSUME NEW its, GoodFile(its), NEW drop \in SUBSET Fields,
         \A n \in DOMAIN its : DerivedKey(its[n], drop) = LiveKey(its[n], drop)
  PROVE  /\ GoodFile(RekeyAll(its, drop))
         /\ Keyed(RekeyAll(its, drop))
         /\ Faithful(RekeyAll(its, drop), drop)
<1>1. ASSUME NEW n \in DOMAIN its
      PROVE  RekeyOne(its[n], drop).saved # NoKey /\ Found(RekeyOne(its[n], drop), drop)
  <2>1. Good(its[n])
    BY DEF GoodFile
  <2>2. /\ RekeyOne(its[n], drop) \in Interactions
        /\ RekeyOne(its[n], drop).saved = DerivedKey(its[n], drop)
        /\ RekeyOne(its[n], drop).saved # NoKey
        /\ LiveKey(RekeyOne(its[n], drop), drop) = LiveKey(its[n], drop)
    BY <2>1, RekeyOneFacts DEF Good
  <2> QED  BY <2>2, KeyedFound
<1> QED  BY <1>1, RekeyAllFacts DEF Keyed, Faithful

(* What the guard of rekey lets through can be derived again: an HTTP body *)
(* that hides something contains the placeholder, and then the saved key   *)
(* is compared.                                                            *)
LEMMA GuardSuffices ==
  ASSUME NEW e, Good(e), NEW drop \in SUBSET Fields, ~Corrupts(e, drop),
         e.saved # NoKey, Found(e, drop), e.kind = "mcp" => Rederivable(e, drop)
  PROVE  DerivedKey(e, drop) = LiveKey(e, drop)
<1>0. e \in Interactions /\ Shows(e) /\ e.kind \in {"http", "mcp"}
  BY DEF Good, Interactions
<1>1. CASE e.kind = "mcp"
  BY <1>0, <1>1, RederivableKey
<1>2. CASE e.kind = "http" /\ Scrubbed(e)
  BY <1>0, <1>2, KeyedFound DEF Corrupts, Trusted
<1>3. CASE e.kind = "http" /\ ~Scrubbed(e)
  <2>1. Hidden(e) = {}
    BY <1>0, <1>3 DEF Shows, Scrubbed, Hidden
  <2>2. Rederivable(e, drop)
    BY <2>1 DEF Rederivable
  <2> QED  BY <1>0, <2>2, RederivableKey
<1> QED  BY <1>0, <1>1, <1>2, <1>3

(* The safe edits, one case each.                                          *)
LEMMA KeepsReplayStep ==
  ASSUME TypeOK, Keyed(file), Faithful(file, volatile), SafeEdit
  PROVE  Faithful(file', volatile') /\ Replays(file', volatile')
<1>0. GoodFile(file) /\ volatile \in SUBSET Fields
  BY TypeIs
<1>1. CASE Scrub
  BY <1>0, <1>1, ScrubFaithful DEF Scrub
<1>2. CASE Prune \/ SplitByProvider \/ SplitByTool
  <2>1. PICK keep \in SUBSET DOMAIN file :
          file' = ScrubAll(Select(file, keep)) /\ volatile' = volatile
    BY <1>2 DEF Prune, SplitByProvider, SplitByTool, Split
  <2>2. GoodFile(Select(file, keep))
    BY <1>0, SelectFacts
  <2>3. Keyed(Select(file, keep)) /\ Faithful(Select(file, keep), volatile)
    BY <1>0, SelectFaithful
  <2> QED  BY <2>1, <2>2, <2>3, ScrubFaithful
<1>3. CASE /\ Rekey(FALSE)
           /\ \A n \in DOMAIN file : file[n].kind = "mcp" => Rederivable(file[n], volatile)
  <2>1. \A n \in DOMAIN file : ~Corrupts(file[n], volatile)
    BY <1>3 DEF Rekey
  <2>2. \A n \in DOMAIN file : DerivedKey(file[n], volatile) = LiveKey(file[n], volatile)
    BY <1>0, <1>3, <2>1, GuardSuffices DEF GoodFile, Keyed, Faithful
  <2>3. /\ GoodFile(RekeyAll(file, volatile)) /\ Keyed(RekeyAll(file, volatile))
        /\ Faithful(RekeyAll(file, volatile), volatile)
    BY <1>0, <2>2, RekeyFaithful
  <2> QED  BY <1>3, <2>3, ScrubFaithful DEF Rekey
<1>4. CASE \E f \in Fields :
              /\ RedactField(f)
              /\ \A n \in DOMAIN file :
                    Rederivable(RedactOne(file[n], f), volatile \cup {f})
  <2>1. PICK f \in Fields : /\ RedactField(f)
                            /\ \A n \in DOMAIN file :
                                  Rederivable(RedactOne(file[n], f), volatile \cup {f})
    BY <1>4
  <2>2. PICK drop \in SUBSET Fields : drop = volatile \cup {f}
    BY <1>0
  <2>3. PICK its : its = RedactAll(file, f)
    OBVIOUS
  <2>4. file' = ScrubAll(RekeyAll(its, drop)) /\ volatile' = drop
    BY <2>1, <2>2, <2>3 DEF RedactField, AddVolatile
  <2>5. GoodFile(its) /\ \A n \in DOMAIN its : Rederivable(its[n], drop)
    BY <1>0, <2>1, <2>2, <2>3, RedactAllFacts
  <2>6. \A n \in DOMAIN its : DerivedKey(its[n], drop) = LiveKey(its[n], drop)
    BY <2>5, RederivableKey DEF GoodFile, Good
  <2>7. /\ GoodFile(RekeyAll(its, drop)) /\ Keyed(RekeyAll(its, drop))
        /\ Faithful(RekeyAll(its, drop), drop)
    BY <2>5, <2>6, RekeyFaithful
  <2> QED  BY <2>4, <2>7, ScrubFaithful
<1>5. CASE \E g \in Recorded :
              /\ Stitch(g)
              /\ g.volatile = volatile
              /\ Keyed(g.its) /\ Faithful(g.its, volatile)
  <2>1. PICK g \in Recorded : /\ Stitch(g) /\ g.volatile = volatile
                              /\ Keyed(g.its) /\ Faithful(g.its, volatile)
    BY <1>5
  <2>2. PICK its : its = file \o g.its
    OBVIOUS
  <2>3. file' = ScrubAll(its) /\ volatile' = volatile
    BY <2>1, <2>2 DEF Stitch
  <2>4. /\ GoodFile(its)
        /\ \A n \in DOMAIN its : \/ \E m \in DOMAIN file : its[n] = file[m]
                                 \/ \E m \in DOMAIN g.its : its[n] = g.its[m]
    BY <1>0, <2>2, RecordedGood, ConcatFacts
  <2>5. Keyed(its) /\ Faithful(its, volatile)
    BY <2>1, <2>4 DEF Keyed, Faithful
  <2> QED  BY <2>3, <2>4, <2>5, ScrubFaithful
<1> QED  BY <1>1, <1>2, <1>3, <1>4, <1>5 DEF SafeEdit

(* For every set of recordings: a cassette filed under the keys its        *)
(* clients derive stays so, and replays, through the safe edits            *)
(* (maintain.go, compose.go).                                              *)
THEOREM KeepsReplayCorrect == Spec => KeepsReplay
<1>1. TypeOK /\ [Next]_vars =>
        [Keyed(file) /\ Faithful(file, volatile) /\ SafeEdit
         => Faithful(file', volatile') /\ Replays(file', volatile')]_vars
  BY KeepsReplayStep
<1> QED  BY <1>1, TypeCorrect, PTL DEF Spec, KeepsReplay

(* A rekey that is not refused.                                            *)
LEMMA RekeyRepairsStep ==
  ASSUME TypeOK, Rekey(FALSE), \A n \in DOMAIN file : Rederivable(file[n], volatile)
  PROVE  Faithful(file', volatile') /\ Replays(file', volatile')
<1>0. GoodFile(file) /\ volatile \in SUBSET Fields
  BY TypeIs
<1>1. \A n \in DOMAIN file : DerivedKey(file[n], volatile) = LiveKey(file[n], volatile)
  BY <1>0, RederivableKey DEF GoodFile, Good
<1>2. /\ GoodFile(RekeyAll(file, volatile)) /\ Keyed(RekeyAll(file, volatile))
      /\ Faithful(RekeyAll(file, volatile), volatile)
  BY <1>0, <1>1, RekeyFaithful
<1> QED  BY <1>2, ScrubFaithful DEF Rekey

(* For every history of edits: a rekey that is not refused makes the       *)
(* cassette replay, if no redacted field enters a key (cmdRekey).          *)
THEOREM RekeyRepairsCorrect == Spec => RekeyRepairs
<1>1. TypeOK /\ [Next]_vars =>
        [Rekey(FALSE) /\ (\A n \in DOMAIN file : Rederivable(file[n], volatile))
         => Faithful(file', volatile') /\ Replays(file', volatile')]_vars
  BY RekeyRepairsStep
<1> QED  BY <1>1, TypeCorrect, PTL DEF Spec, RekeyRepairs

(***************************************************************************)
(* Conformance                                                             *)
(***************************************************************************)

(* What hides nothing can be derived again, and is not taken for scrubbed. *)
LEMMA IntactKey ==
  ASSUME NEW e \in Interactions, NEW drop \in SUBSET Fields, Hidden(e) = {}
  PROVE  DerivedKey(e, drop) = LiveKey(e, drop) /\ ~Scrubbed(e)
<1>1. Rederivable(e, drop)
  BY DEF Rederivable
<1>2. \A f \in Fields : e.stored[f] = e.live[f] /\ e.live[f] \in Plain \cup {Secret}
  BY DEF Hidden, Interactions
<1>3. \A v \in Plain \cup {Secret} : v \notin Sentinels
  BY PlainAssumption DEF Secret, Sentinels
<1> QED  BY <1>1, <1>2, <1>3, RederivableKey DEF Scrubbed

(* A cassette with nothing redacted that passes conformance replays, for   *)
(* every history of edits (conformance.go).                                *)
THEOREM ConformanceSoundCorrect == Spec => []ConformanceSound
<1>1. TypeOK => ConformanceSound
  <2> SUFFICES ASSUME TypeOK, \A n \in DOMAIN file : Hidden(file[n]) = {},
                      Conforms(file, volatile)
               PROVE  Replays(file, volatile)
    BY DEF ConformanceSound
  <2>0. GoodFile(file) /\ volatile \in SUBSET Fields
    BY TypeIs
  <2>1. \A n \in DOMAIN file : KeyOK(file[n], volatile)
    BY DEF Conforms
  <2>2. ASSUME NEW n \in DOMAIN file  PROVE Found(file[n], volatile)
    <3>1. file[n] \in Interactions
      BY <2>0 DEF GoodFile, Good
    <3>2. DerivedKey(file[n], volatile) = LiveKey(file[n], volatile) /\ ~Scrubbed(file[n])
      BY <2>0, <3>1, IntactKey
    <3>3. file[n].saved = NoKey \/ file[n].saved = DerivedKey(file[n], volatile)
      BY <2>1, <3>2 DEF KeyOK, Trusted
    <3> QED  BY <3>1, <3>2, <3>3, IndexKeyIs DEF Found
  <2> QED  BY <2>2, FaithfulReplays DEF Faithful
<1> QED  BY <1>1, TypeCorrect, PTL

(* Requests of one key are of one kind.                                    *)
LEMMA SameKeySameKind ==
  ASSUME NEW d, NEW e, NEW drop, LiveKey(d, drop) = LiveKey(e, drop)
  PROVE  d.kind = e.kind
<1>1. LiveKey(d, drop).kind = d.kind /\ LiveKey(e, drop).kind = e.kind
  BY DEF LiveKey, KeyOf
<1> QED  BY <1>1

(* Conformance accepts every cassette filed as its clients ask, if nothing *)
(* is compressed, no MCP body is redacted, and the interactions of a key   *)
(* are all redacted or all intact (conformance.go).                        *)
THEOREM ConformanceAcceptsCorrect == Spec => []ConformanceAccepts
<1>1. TypeOK => ConformanceAccepts
  <2> SUFFICES ASSUME TypeOK, Faithful(file, volatile),
                      \A n \in DOMAIN file :
                         /\ ~file[n].gzip
                         /\ file[n].kind = "mcp" => Hidden(file[n]) = {},
                      \A m, n \in DOMAIN file :
                         LiveKey(file[m], volatile) = LiveKey(file[n], volatile)
                         => (Trusted(file[m]) <=> Trusted(file[n]))
               PROVE  Conforms(file, volatile)
    BY DEF ConformanceAccepts
  <2> DEFINE filed == Filed(file, volatile)
             asked == [n \in Driven(file) |-> RebuiltKey(file[n], volatile)]
  <2>0. GoodFile(file) /\ volatile \in SUBSET Fields
    BY TypeIs
  <2>1. ASSUME NEW n \in DOMAIN file
        PROVE  /\ file[n] \in Interactions /\ Shows(file[n])
               /\ IndexKey(file[n], volatile) = LiveKey(file[n], volatile)
               /\ filed[n] = LiveKey(file[n], volatile)
    BY <2>0 DEF GoodFile, Good, Faithful, Found, Filed
  <2>2. ASSUME NEW n \in DOMAIN file, ~Trusted(file[n])
        PROVE  DerivedKey(file[n], volatile) = LiveKey(file[n], volatile)
    <3>1. CASE file[n].saved = NoKey
      BY <2>1, <3>1, IndexKeyIs
    <3>2. CASE file[n].kind = "mcp"
      BY <2>0, <2>1, <3>2, IntactKey
    <3>3. CASE file[n].kind # "mcp" /\ file[n].saved # NoKey
      <4>1. file[n].kind = "http"
        BY <2>1, <3>3 DEF Interactions
      <4>2. ~Scrubbed(file[n])
        BY <2>2, <3>3, <4>1 DEF Trusted
      <4>3. Hidden(file[n]) = {}
        BY <2>1, <4>2 DEF Shows, Scrubbed, Hidden
      <4> QED  BY <2>0, <2>1, <4>3, IntactKey
    <3> QED  BY <3>1, <3>2, <3>3
  <2>3. \A n \in DOMAIN file : KeyOK(file[n], volatile)
    <3> SUFFICES ASSUME NEW n \in DOMAIN file, ~Trusted(file[n]), file[n].saved # NoKey
                 PROVE  file[n].saved = DerivedKey(file[n], volatile)
      BY DEF KeyOK
    <3> QED  BY <2>1, <2>2, IndexKeyIs
  <2>4. ASSUME NEW n \in Driven(file)
        PROVE  n \in DOMAIN file /\ ~Trusted(file[n]) /\ asked[n] = LiveKey(file[n], volatile)
    <3>1. n \in DOMAIN file /\ ~Trusted(file[n]) /\ ~file[n].gzip
      BY DEF Driven
    <3>2. DerivedKey(file[n], volatile) = LiveKey(file[n], volatile)
      BY <2>2, <3>1
    <3>3. file[n].gzip = FALSE
      BY <2>1, <3>1 DEF Interactions
    <3>4. RebuiltKey(file[n], volatile) = DerivedKey(file[n], volatile)
      <4>1. DerivedKey(file[n], volatile) \in Key /\ DerivedKey(file[n], volatile).raw = FALSE
        BY <2>0, <2>1, <3>1, KeyFacts
      <4>2. \A k \in Key : k.raw = FALSE => [k EXCEPT !.raw = FALSE] = k
        BY DEF Key
      <4> QED  BY <3>3, <4>1, <4>2 DEF RebuiltKey
    <3> QED  BY <3>1, <3>2, <3>4
  <2>5. ASSUME NEW n \in Driven(file)  PROVE n \in Takes(filed, asked, n)
    <3>1. n \in DOMAIN file /\ filed[n] = asked[n] /\ file[n].kind = "http"
      BY <2>1, <2>4 DEF Driven
    <3>2. ASSUME NEW m \in DOMAIN file, filed[m] = filed[n]  PROVE m \in Driven(file)
      <4>1. LiveKey(file[m], volatile) = LiveKey(file[n], volatile)
        BY <2>1, <3>1, <3>2
      <4>2. file[m].kind = "http"
        BY <3>1, <4>1, SameKeySameKind
      <4>3. ~Trusted(file[m])
        BY <2>4, <3>1, <4>1
      <4> QED  BY <4>2, <4>3 DEF Driven
    <3>3. \A m \in Driven(file) : m \in DOMAIN file /\ filed[m] = asked[m]
      BY <2>1, <2>4
    <3>4. DOMAIN filed = DOMAIN file /\ DOMAIN asked = Driven(file)
      BY DEF Filed
    <3>5. {m \in DOMAIN filed : m < n /\ filed[m] = filed[n]}
            = {m \in DOMAIN asked : m < n /\ asked[m] = asked[n]}
      BY <3>1, <3>2, <3>3, <3>4
    <3> QED  BY <3>1, <3>4, <3>5 DEF Takes, Turn
  <2> QED  BY <2>3, <2>4, <2>5 DEF Conforms
<1> QED  BY <1>1, TypeCorrect, PTL

(***************************************************************************)
(* Merge                                                                   *)
(***************************************************************************)

(* A set of positions has a first one.                                     *)
LEMMA FirstPosition ==
  ASSUME NEW T \in SUBSET Nat, T # {}
  PROVE  \E m \in T : \A k \in T : m <= k
<1>1. PICK m \in T : \A k \in T : ~(<<k, m>> \in OpToRel(<, Nat))
  BY NatLessThanWellFounded, WFMin
<1>2. \A k \in T : ~(k < m)
  BY <1>1 DEF OpToRel
<1> QED  BY <1>2

(* Of the interactions of one identity the first is kept.                  *)
LEMMA DistinctKeeps ==
  ASSUME NEW its, GoodFile(its), NEW n \in DOMAIN its
  PROVE  \E m \in DOMAIN its : ~Duplicate(its, m) /\ Identity(its[m]) = Identity(its[n])
<1> DEFINE same == {m \in DOMAIN its : Identity(its[m]) = Identity(its[n])}
<1>0. DOMAIN its = 1 .. Len(its) /\ Len(its) \in Nat
  BY LenProperties DEF GoodFile
<1>1. same \in SUBSET Nat /\ n \in same
  BY <1>0
<1>2. PICK m \in same : \A k \in same : m <= k
  BY <1>1, FirstPosition
<1>3. ~Duplicate(its, m)
  <2> SUFFICES ASSUME NEW k \in 1 .. m - 1, Identity(its[k]) = Identity(its[m])
               PROVE  FALSE
    BY DEF Duplicate
  <2>1. m \in 1 .. Len(its)
    BY <1>0
  <2>2. k \in DOMAIN its /\ ~(m <= k)
    BY <1>0, <2>1
  <2>3. k \in same
    BY <2>2
  <2> QED  BY <1>2, <2>2, <2>3
<1> QED  BY <1>2, <1>3

(* A merge of keyed cassettes.                                             *)
LEMMA MergeStep ==
  ASSUME TypeOK, NEW g \in Recorded, Keyed(file), Keyed(g.its), Merge(g)
  PROVE  Recordings(file') = Recordings(file) \cup Recordings(g.its)
<1>0. GoodFile(file) /\ GoodFile(g.its)
  BY TypeIs, RecordedGood
<1>1. PICK its : its = file \o g.its
  OBVIOUS
<1>2. /\ GoodFile(its)
      /\ \A n \in DOMAIN its : \/ \E m \in DOMAIN file : its[n] = file[m]
                               \/ \E m \in DOMAIN g.its : its[n] = g.its[m]
      /\ \A m \in DOMAIN file : m \in DOMAIN its /\ its[m] = file[m]
      /\ \A m \in DOMAIN g.its : \E n \in DOMAIN its : its[n] = g.its[m]
  <2>1. PICK t : t = g.its
    OBVIOUS
  <2>2. GoodFile(file) /\ GoodFile(t) /\ its = file \o t
    BY <1>0, <1>1, <2>1
  <2>3. GoodFile(its)
    BY <2>2, ConcatFacts
  <2>4. \A n \in DOMAIN its : \/ \E m \in DOMAIN file : its[n] = file[m]
                              \/ \E m \in DOMAIN t : its[n] = t[m]
    BY <2>2, ConcatFacts
  <2>5. \A m \in DOMAIN file : m \in DOMAIN its /\ its[m] = file[m]
    BY <2>2, ConcatFacts
  <2>6. \A m \in DOMAIN t : \E n \in DOMAIN its : its[n] = t[m]
    <3>1. GoodFile(file) /\ GoodFile(t) /\ Catenated(its, file, t)
      BY <2>2 DEF Catenated
    <3> QED  BY <3>1, ConcatTail
  <2> QED  BY <2>1, <2>3, <2>4, <2>5, <2>6
<1>3. PICK keep \in SUBSET DOMAIN its : keep = {n \in DOMAIN its : ~Duplicate(its, n)}
  OBVIOUS
<1>4. PICK sel : sel = Select(its, keep)
  OBVIOUS
<1>5. file' = ScrubAll(sel)
  BY <1>1, <1>3, <1>4 DEF Merge, Distinct
<1>6. /\ GoodFile(sel)
      /\ \A i \in DOMAIN sel : \E n \in keep : sel[i] = its[n]
      /\ \A n \in keep : \E i \in DOMAIN sel : sel[i] = its[n]
  BY <1>2, <1>4, SelectFacts
<1>7. /\ DOMAIN file' = DOMAIN sel
      /\ \A i \in DOMAIN sel : file'[i].saved = sel[i].saved /\ file'[i].answer = sel[i].answer
  BY <1>5, <1>6, ScrubAllFacts, ScrubOneFacts DEF GoodFile
<1>8. Keyed(its)
  BY <1>2 DEF Keyed
<1>9. ASSUME NEW n \in DOMAIN its
      PROVE  \E i \in DOMAIN sel : sel[i].saved = its[n].saved
                                   /\ sel[i].answer.body = its[n].answer.body
  <2>1. PICK m \in DOMAIN its : ~Duplicate(its, m) /\ Identity(its[m]) = Identity(its[n])
    BY <1>2, DistinctKeeps
  <2>2. its[m].saved = its[n].saved /\ its[m].answer.body = its[n].answer.body
    BY <1>8, <2>1 DEF Identity, LogicalKey, Keyed
  <2>3. m \in keep
    BY <1>3, <2>1
  <2> QED  BY <1>6, <2>2, <2>3
<1>10. ASSUME NEW r \in Recordings(file')  PROVE r \in Recordings(file) \cup Recordings(g.its)
  <2>1. PICK i \in DOMAIN sel : r = <<sel[i].saved, sel[i].answer.body>>
    BY <1>7 DEF Recordings
  <2>2. PICK n \in DOMAIN its : sel[i] = its[n]
    BY <1>6
  <2> QED  BY <1>2, <2>1, <2>2 DEF Recordings
<1>11. ASSUME NEW r \in Recordings(file) \cup Recordings(g.its)  PROVE r \in Recordings(file')
  <2>1. PICK n \in DOMAIN its : r = <<its[n].saved, its[n].answer.body>>
    BY <1>2 DEF Recordings
  <2>2. PICK i \in DOMAIN sel : sel[i].saved = its[n].saved
                                /\ sel[i].answer.body = its[n].answer.body
    BY <1>9
  <2> QED  BY <1>7, <2>1, <2>2 DEF Recordings
<1> QED  BY <1>10, <1>11

(* Merge drops copies and nothing else, for all recordings (merge.go).     *)
THEOREM MergeKeepsBodiesCorrect == Spec => MergeKeepsBodies
<1>1. TypeOK /\ [Next]_vars =>
        [\A g \in Recorded :
            Keyed(file) /\ Keyed(g.its) /\ Merge(g)
            => Recordings(file') = Recordings(file) \cup Recordings(g.its)]_vars
  BY MergeStep
<1> QED  BY <1>1, TypeCorrect, PTL DEF Spec, MergeKeepsBodies

-----------------------------------------------------------------------------
(* Derive *)

(***************************************************************************)
(* What one file keeps of another                                          *)
(***************************************************************************)

\* A turn that is asked for by the same key.
AskedSame(it, jt) ==
  IsTurn(jt) /\ jt.kind = it.kind /\ jt.dialect = it.dialect /\ jt.request = it.request /\ jt.key = it.key

\* A turn whose key was derived without a match config.
Rekeyed(jt) == IsTurn(jt) /\ jt.key = KeyFor("none", jt)

TurnsFollow(f, g) ==
  /\ g.turns \in Seq(Range(g.turns)) /\ DOMAIN g.turns \subseteq DOMAIN f.turns
  /\ \/ g.match = "none" /\ \A i \in DOMAIN g.turns : AskedSame(f.turns[i], g.turns[i]) \/ Rekeyed(g.turns[i])
     \/ g.match = f.match /\ \A i \in DOMAIN g.turns : AskedSame(f.turns[i], g.turns[i])

Stamps == {"graft", "graft-more", "distill", "port", "migrate"}

LineageFollows(op, f, g) ==
  \/ g.provenance \in {<<>>, f.provenance} /\ op \notin Stamps
  \/ \E name : g.provenance = Append(f.provenance, [op |-> name, from |-> BehaviorDigest(f)])

KeysFollow(f, g) ==
  /\ MCPKeysHold(f) => MCPKeysHold(g)
  /\ f.match = "none" /\ KeysHold(f) => KeysHold(g)

Derived(op, f, g) == IsFile(g) /\ KeysFollow(f, g) /\ LineageFollows(op, f, g)

LEMMA KeyForSame ==
  ASSUME NEW m, NEW it, NEW jt, AskedSame(it, jt)
  PROVE  /\ KeyFor(m, jt) = KeyFor(m, it)
         /\ it.kind = "mcp" => \A k : KeyFor(k, jt) = KeyFor(m, it)
BY DEF AskedSame, KeyFor

LEMMA KeyForMCP ==
  ASSUME NEW m, NEW it, it.kind = "mcp"
  PROVE  KeyFor(m, it) = KeyFor("none", it)
BY DEF KeyFor

LEMMA KeysFollowTurns ==
  ASSUME NEW f, NEW g, IsFile(f), TurnsFollow(f, g)
  PROVE  KeysFollow(f, g)
<1>1. ASSUME MCPKeysHold(f), NEW i \in DOMAIN g.turns, g.turns[i].kind = "mcp"
      PROVE  g.turns[i].key = KeyFor(g.match, g.turns[i])
  <2>1. i \in DOMAIN f.turns BY DEF TurnsFollow
  <2>2. CASE AskedSame(f.turns[i], g.turns[i])
    <3>1. f.turns[i].kind = "mcp" /\ f.turns[i].key = g.turns[i].key BY <1>1, <2>2 DEF AskedSame
    <3>2. f.turns[i].key = KeyFor(f.match, f.turns[i]) BY <1>1, <2>1, <3>1 DEF MCPKeysHold
    <3>3. KeyFor(g.match, g.turns[i]) = KeyFor(f.match, f.turns[i]) BY <2>2, <3>1, KeyForSame
    <3> QED BY <3>1, <3>2, <3>3
  <2>3. CASE Rekeyed(g.turns[i])
    BY <1>1, <2>3, KeyForMCP DEF Rekeyed
  <2> QED BY <1>1, <2>2, <2>3 DEF TurnsFollow
<1>2. ASSUME f.match = "none", KeysHold(f), NEW i \in DOMAIN g.turns
      PROVE  g.turns[i].key = KeyFor(g.match, g.turns[i])
  <2>1. i \in DOMAIN f.turns /\ g.match = "none" BY <1>2 DEF TurnsFollow
  <2>2. CASE AskedSame(f.turns[i], g.turns[i])
    <3>1. f.turns[i].key = KeyFor("none", f.turns[i]) BY <1>2, <2>1 DEF KeysHold
    <3> QED BY <2>1, <2>2, <3>1, KeyForSame DEF AskedSame
  <2>3. CASE Rekeyed(g.turns[i])
    BY <2>1, <2>3 DEF Rekeyed
  <2> QED BY <1>2, <2>2, <2>3 DEF TurnsFollow
<1> QED BY <1>1, <1>2 DEF KeysFollow, MCPKeysHold, KeysHold

\* A turn of the shape is asked for as it is.
LEMMA AskedSelf ==
  ASSUME NEW it, IsTurn(it)
  PROVE  /\ AskedSame(it, it)
         /\ \A streaming, body : AskedSame(it, Answered(it, streaming, body))
         /\ \A body : AskedSame(it, [it EXCEPT !.body = body])
BY DEF AskedSame, IsTurn, Answered

LEMMA PortedAsked ==
  ASSUME NEW it, IsTurn(it), NEW to
  PROVE  AskedSame(it, PortedTurn(it, to)) \/ Rekeyed(PortedTurn(it, to))
<1> DEFINE New(request) == HTTP(to, request, TRUE, Encode(to, TurnOf(it)), HTTPKey("none", to, request))
<1>1. ASSUME NEW request PROVE Rekeyed(New(request))
  <2>1. New(request).key = KeyFor("none", New(request))
    BY DEF HTTP, KeyFor
  <2>2. IsTurn(New(request)) BY DEF IsTurn, HTTP
  <2> QED BY <2>1, <2>2 DEF Rekeyed
<1>2. \/ PortedTurn(it, to) = it
      \/ PortedTurn(it, to) = New(EncodeRequest(to, DecodeRequest(it.dialect, it.request)))
  BY DEF PortedTurn
<1> HIDE DEF New
<1> QED BY <1>1, <1>2, AskedSelf

LEMMA CanonicalAsked ==
  ASSUME NEW it, IsTurn(it)
  PROVE  AskedSame(it, CanonicalTurn(it))
<1>1. CanonicalTurn(it) = it \/ \E body : CanonicalTurn(it) = Answered(it, it.streaming, body)
  BY DEF CanonicalTurn
<1> QED BY <1>1, AskedSelf

LEMMA MutatedAsked ==
  ASSUME NEW it, IsTurn(it), NEW op, NEW n
  PROVE  AskedSame(it, MutatedTurn(it, op, n))
<1>1. MutatedTurn(it, op, n) = it \/ \E body : MutatedTurn(it, op, n) = [it EXCEPT !.body = body]
  BY DEF MutatedTurn
<1> QED BY <1>1, AskedSelf

\* One turn, or every turn, with another answer.
LEMMA TurnsReplaced ==
  ASSUME NEW f, IsFile(f), NEW i, NEW jt, i \in DOMAIN f.turns => AskedSame(f.turns[i], jt)
  PROVE  LET turns == [f.turns EXCEPT ![i] = jt]
         IN  /\ turns \in Seq(Range(turns)) /\ DOMAIN turns = DOMAIN f.turns
             /\ \A k \in DOMAIN turns : AskedSame(f.turns[k], turns[k])
<1> DEFINE turns == [f.turns EXCEPT ![i] = jt]
<1>1. Len(f.turns) \in Nat /\ DOMAIN f.turns = 1 .. Len(f.turns) BY LenProperties DEF IsFile
<1>2. DOMAIN turns = DOMAIN f.turns /\ turns = [k \in DOMAIN turns |-> turns[k]]
  BY DEF IsFile
<1>3. \A k \in DOMAIN turns : turns[k] = IF k = i THEN jt ELSE f.turns[k]
  BY <1>2
<1>4. \A k \in DOMAIN f.turns : AskedSame(f.turns[k], f.turns[k]) BY AskedSelf DEF IsFile
<1> HIDE DEF turns
<1>5. turns \in Seq(Range(turns)) BY <1>1, <1>2, ListOf
<1>6. \A k \in DOMAIN turns : AskedSame(f.turns[k], turns[k]) BY <1>2, <1>3, <1>4
<1> QED BY <1>2, <1>5, <1>6 DEF turns

LEMMA TurnsMapped ==
  ASSUME NEW f, IsFile(f), NEW turns, turns = [i \in DOMAIN f.turns |-> turns[i]]
  PROVE  turns \in Seq(Range(turns)) /\ DOMAIN turns = DOMAIN f.turns
<1>1. Len(f.turns) \in Nat /\ DOMAIN f.turns = 1 .. Len(f.turns) BY LenProperties DEF IsFile
<1>2. DOMAIN turns = DOMAIN f.turns /\ turns = [k \in DOMAIN turns |-> turns[k]] OBVIOUS
<1> QED BY <1>1, <1>2, ListOf

(***************************************************************************)
(* What each command keeps of the file it reads                            *)
(***************************************************************************)

\* A file with its turns, notice or lineage changed.
LEMMA FileChanged ==
  ASSUME NEW f, IsFile(f), NEW x
  PROVE  /\ [f EXCEPT !.notice = x] = [notice |-> x, expect |-> f.expect, match |-> f.match,
                                       provenance |-> f.provenance, turns |-> f.turns]
         /\ [f EXCEPT !.turns = x] = [notice |-> f.notice, expect |-> f.expect, match |-> f.match,
                                      provenance |-> f.provenance, turns |-> x]
         /\ [f EXCEPT !.provenance = x] = [notice |-> f.notice, expect |-> f.expect, match |-> f.match,
                                           provenance |-> x, turns |-> f.turns]
BY DEF IsFile

\* g is f with another notice, fewer turns and other answers.
Follows(f, g) ==
  /\ IsFile(g) /\ g.match = f.match /\ g.provenance = f.provenance /\ DOMAIN g.turns \subseteq DOMAIN f.turns
  /\ \A i \in DOMAIN g.turns : AskedSame(f.turns[i], g.turns[i])

LEMMA FollowsTurns ==
  ASSUME NEW f, NEW turns, IsFile(f), turns \in Seq(Range(turns)), DOMAIN turns \subseteq DOMAIN f.turns,
         \A i \in DOMAIN turns : AskedSame(f.turns[i], turns[i])
  PROVE  Follows(f, [f EXCEPT !.turns = turns])
<1> DEFINE g == [f EXCEPT !.turns = turns]
<1>1. g = [notice |-> f.notice, expect |-> f.expect, match |-> f.match, provenance |-> f.provenance, turns |-> turns]
  BY FileChanged
<1>2. IsFile(g)
  <2>1. \A i \in DOMAIN turns : IsTurn(turns[i]) BY DEF AskedSame
  <2> HIDE DEF g
  <2> QED BY <1>1, <2>1 DEF IsFile
<1> HIDE DEF g
<1>3. Follows(f, g) BY <1>1, <1>2 DEF Follows
<1> QED BY <1>3 DEF g

LEMMA FollowsNotice ==
  ASSUME NEW f, NEW g, IsFile(f), Follows(f, g), NEW x
  PROVE  Follows(f, [g EXCEPT !.notice = x])
<1> DEFINE h == [g EXCEPT !.notice = x]
<1>1. h = [notice |-> x, expect |-> g.expect, match |-> g.match, provenance |-> g.provenance, turns |-> g.turns]
  BY FileChanged DEF Follows
<1> HIDE DEF h
<1>2. IsFile(h) BY <1>1 DEF IsFile, Follows
<1>3. Follows(f, h) BY <1>1, <1>2 DEF Follows
<1> QED BY <1>3 DEF h

LEMMA FollowsShortened ==
  ASSUME NEW f, NEW g, IsFile(f), Follows(f, g), NEW n \in 0 .. Len(g.turns)
  PROVE  Follows(f, Shortened(g, n))
<1> DEFINE h == Shortened(g, n)
<1> DEFINE turns == SubSeq(g.turns, 1, n)
<1>1. h = [notice |-> g.notice, expect |-> g.expect, match |-> g.match, provenance |-> g.provenance, turns |-> turns]
  BY FileChanged DEF Follows, Shortened
<1>2. /\ turns \in Seq(Range(turns)) /\ DOMAIN turns = 1 .. n /\ 1 .. n \subseteq DOMAIN g.turns
      /\ \A i \in 1 .. n : turns[i] = g.turns[i]
  BY Beginning DEF Follows, IsFile
<1> HIDE DEF h, turns
<1>3. IsFile(h) BY <1>1, <1>2 DEF IsFile, Follows
<1>4. Follows(f, h) BY <1>1, <1>2, <1>3 DEF Follows
<1> QED BY <1>4 DEF h

LEMMA FollowsDerived ==
  ASSUME NEW f, NEW g, IsFile(f), Follows(f, g), NEW op, op \notin Stamps
  PROVE  Derived(op, f, g)
<1>1. TurnsFollow(f, g) BY DEF Follows, TurnsFollow, IsFile
<1>2. KeysFollow(f, g) BY <1>1, KeysFollowTurns
<1> QED BY <1>2 DEF Follows, Derived, LineageFollows

LEMMA LinkedDerived ==
  ASSUME NEW f, NEW g, IsFile(f), Follows(f, g), NEW op, NEW name
  PROVE  Derived(op, f, Linked(g, name, BehaviorDigest(f)))
<1> DEFINE link == [op |-> name, from |-> BehaviorDigest(f)]
<1> DEFINE h == Linked(g, name, BehaviorDigest(f))
<1>1. h = [notice |-> g.notice, expect |-> g.expect, match |-> g.match,
           provenance |-> Append(g.provenance, link), turns |-> g.turns]
  BY FileChanged DEF Follows, Linked
<1>2. g.provenance \in Seq(Range(g.provenance)) /\ g.provenance = f.provenance BY DEF Follows, IsFile
<1> HIDE DEF h
<1>3. h.provenance = Append(f.provenance, link) BY <1>1, <1>2
<1>4. LineageFollows(op, f, h) BY <1>3 DEF LineageFollows
<1> HIDE DEF link
<1>5. h.provenance \in Seq(Range(h.provenance)) BY <1>2, <1>3, AppendAny
<1>6. IsFile(h) BY <1>1, <1>5 DEF Follows, IsFile
<1>7. TurnsFollow(f, h) BY <1>1 DEF Follows, TurnsFollow, IsFile
<1>8. Derived(op, f, h) BY <1>4, <1>6, <1>7, KeysFollowTurns DEF Derived
<1> QED BY <1>8 DEF h

LEMMA SplicedFollows ==
  ASSUME NEW f, IsFile(f), NEW i, NEW t
  PROVE  Follows(f, Spliced(f, i, t)) /\ DOMAIN Spliced(f, i, t).turns = DOMAIN f.turns
<1> DEFINE jt == Answered(f.turns[i], TRUE, Encode(f.turns[i].dialect, t))
<1> DEFINE turns == [f.turns EXCEPT ![i] = jt]
<1>1. Spliced(f, i, t) = [f EXCEPT !.turns = turns] BY DEF Spliced
<1>2. i \in DOMAIN f.turns => AskedSame(f.turns[i], jt) BY AskedSelf DEF IsFile
<1> HIDE DEF jt
<1>3. turns \in Seq(Range(turns)) /\ DOMAIN turns = DOMAIN f.turns /\ \A k \in DOMAIN turns : AskedSame(f.turns[k], turns[k])
  BY <1>2, TurnsReplaced
<1> HIDE DEF turns
<1>4. Follows(f, [f EXCEPT !.turns = turns]) BY <1>3, FollowsTurns
<1>5. [f EXCEPT !.turns = turns].turns = turns BY FileChanged
<1> QED BY <1>1, <1>3, <1>4, <1>5

LEMMA SelfFollows ==
  ASSUME NEW f, IsFile(f)
  PROVE  Follows(f, f)
BY AskedSelf DEF Follows, IsFile

LEMMA GraftedDerived ==
  ASSUME NEW f, IsFile(f), NEW i, NEW t, NEW keep \in 0 .. Len(f.turns), NEW op
  PROVE  Derived(op, f, Grafted(f, i, t, keep))
<1> DEFINE g == Spliced(f, i, t)
<1> DEFINE notice == IF g.notice = "" THEN "grafted" ELSE g.notice
<1> DEFINE h == [g EXCEPT !.notice = notice]
<1>1. Grafted(f, i, t, keep) = Linked(Shortened(h, keep), "graft", BehaviorDigest(f)) BY DEF Grafted
<1>2. Follows(f, g) /\ DOMAIN g.turns = DOMAIN f.turns BY SplicedFollows
<1> HIDE DEF g
<1> HIDE DEF notice
<1>3. Follows(f, h) BY <1>2, FollowsNotice
<1>4. h.turns = g.turns BY <1>2, FileChanged DEF Follows
<1>5. Len(h.turns) = Len(f.turns)
  <2>1. DOMAIN f.turns = 1 .. Len(f.turns) /\ DOMAIN g.turns = 1 .. Len(g.turns) /\ Len(f.turns) \in Nat /\ Len(g.turns) \in Nat
    BY <1>2, LenProperties DEF IsFile, Follows
  <2> QED BY <2>1, <1>2, <1>4
<1> HIDE DEF h
<1>6. Follows(f, Shortened(h, keep)) BY <1>3, <1>5, FollowsShortened
<1> QED BY <1>1, <1>6, LinkedDerived

LEMMA BranchDerived ==
  ASSUME NEW f, NEW g, IsFile(f), Follows(f, g), NEW n \in 0 .. Len(g.turns)
  PROVE  Derived("branch", f, BranchSeed(g, n))
<1>1. Follows(f, Shortened(g, n)) BY FollowsShortened
<1>2. Follows(f, BranchSeed(g, n)) BY <1>1, FollowsNotice DEF BranchSeed
<1> QED BY <1>2, FollowsDerived DEF Stamps

LEMMA DistilledDerived ==
  ASSUME NEW f, IsFile(f), NEW i, NEW t
  PROVE  Derived("distill", f, Distilled(f, i, t))
<1>1. Follows(f, [Spliced(f, i, t) EXCEPT !.notice = "distilled"]) BY SplicedFollows, FollowsNotice
<1> QED BY <1>1, LinkedDerived DEF Distilled

LEMMA CanonicalDerived ==
  ASSUME NEW f, IsFile(f)
  PROVE  Derived("canonicalize", f, CanonicalizeFile(f))
<1> DEFINE turns == [i \in DOMAIN f.turns |-> CanonicalTurn(f.turns[i])]
<1>1. turns \in Seq(Range(turns)) /\ DOMAIN turns = DOMAIN f.turns BY TurnsMapped
<1>2. \A i \in DOMAIN turns : AskedSame(f.turns[i], turns[i]) BY CanonicalAsked DEF IsFile
<1>3. CanonicalizeFile(f) = [f EXCEPT !.turns = turns] BY DEF CanonicalizeFile
<1> HIDE DEF turns
<1>4. Follows(f, CanonicalizeFile(f)) BY <1>1, <1>2, <1>3, FollowsTurns
<1> QED BY <1>4, FollowsDerived DEF Stamps

LEMMA MutatedDerived ==
  ASSUME NEW f, IsFile(f), NEW op, NEW n
  PROVE  Derived("mutate", f, Mutated(f, op, n))
<1> DEFINE turns == [i \in DOMAIN f.turns |-> MutatedTurn(f.turns[i], op, n)]
<1>1. turns \in Seq(Range(turns)) /\ DOMAIN turns = DOMAIN f.turns BY TurnsMapped
<1>2. \A i \in DOMAIN turns : AskedSame(f.turns[i], turns[i]) BY MutatedAsked DEF IsFile
<1>3. Mutated(f, op, n) = [f EXCEPT !.turns = turns] BY DEF Mutated
<1> HIDE DEF turns
<1>4. Follows(f, Mutated(f, op, n)) BY <1>1, <1>2, <1>3, FollowsTurns
<1> QED BY <1>4, FollowsDerived DEF Stamps

LEMMA RemadeFacts ==
  ASSUME NEW f, IsFile(f), NEW turns, turns \in Seq(Range(turns)), DOMAIN turns = DOMAIN f.turns,
         \A i \in DOMAIN turns : AskedSame(f.turns[i], turns[i]) \/ Rekeyed(turns[i])
  PROVE  /\ IsFile(Remade(f, turns)) /\ TurnsFollow(f, Remade(f, turns))
         /\ Remade(f, turns).provenance = <<>>
<1>1. \A i \in DOMAIN turns : IsTurn(turns[i]) BY DEF AskedSame, Rekeyed
<1>2. IsFile(Remade(f, turns)) BY <1>1, EmptyList DEF IsFile, Remade
<1>3. TurnsFollow(f, Remade(f, turns)) BY DEF TurnsFollow, Remade
<1> QED BY <1>2, <1>3 DEF Remade

LEMMA ResponseDerived ==
  ASSUME NEW f, IsFile(f), NEW i, NEW body, NEW op, op \notin Stamps
  PROVE  Derived(op, f, WithResponse(f, i, body))
<1> DEFINE jt == Answered(f.turns[i], TRUE, body)
<1> DEFINE turns == [f.turns EXCEPT ![i] = jt]
<1>1. WithResponse(f, i, body) = Remade(f, turns) BY DEF WithResponse
<1>2. i \in DOMAIN f.turns => AskedSame(f.turns[i], jt) BY AskedSelf DEF IsFile
<1> HIDE DEF jt
<1>3. turns \in Seq(Range(turns)) /\ DOMAIN turns = DOMAIN f.turns /\ \A k \in DOMAIN turns : AskedSame(f.turns[k], turns[k])
  BY <1>2, TurnsReplaced
<1> HIDE DEF turns
<1> DEFINE g == Remade(f, turns)
<1>4. IsFile(g) /\ TurnsFollow(f, g) /\ g.provenance = <<>> BY <1>3, RemadeFacts
<1> HIDE DEF g
<1>5. Derived(op, f, g) BY <1>4, KeysFollowTurns DEF Derived, LineageFollows
<1> QED BY <1>1, <1>5 DEF g

LEMMA PortDerived ==
  ASSUME NEW f, IsFile(f), NEW to, NEW op, NEW name
  PROVE  Derived(op, f, Stamped(Port(f, to), f, name))
<1> DEFINE turns == [i \in DOMAIN f.turns |-> PortedTurn(f.turns[i], to)]
<1>1. turns \in Seq(Range(turns)) /\ DOMAIN turns = DOMAIN f.turns BY TurnsMapped
<1>2. \A i \in DOMAIN turns : AskedSame(f.turns[i], turns[i]) \/ Rekeyed(turns[i]) BY PortedAsked DEF IsFile
<1>3. Port(f, to) = Remade(f, turns) BY DEF Port
<1> HIDE DEF turns
<1> DEFINE g == Remade(f, turns)
<1>4. IsFile(g) /\ TurnsFollow(f, g) BY <1>1, <1>2, RemadeFacts
<1>5. g.match = "none" BY DEF Remade
<1> HIDE DEF g
<1> DEFINE link == [op |-> name, from |-> BehaviorDigest(f)]
<1> DEFINE lineage == Append(f.provenance, link)
<1> DEFINE s == [g EXCEPT !.provenance = f.provenance]
<1> DEFINE h == [s EXCEPT !.provenance = Append(s.provenance, link)]
<1>6. Stamped(Port(f, to), f, name) = h BY <1>3 DEF Stamped, Linked, g
<1>7. s = [notice |-> g.notice, expect |-> g.expect, match |-> g.match, provenance |-> f.provenance, turns |-> g.turns]
  BY <1>4, FileChanged
<1>8. IsFile(s) BY <1>4, <1>7 DEF IsFile
<1>9. h = [notice |-> g.notice, expect |-> g.expect, match |-> g.match, provenance |-> lineage, turns |-> g.turns]
  <2>1. s.notice = g.notice /\ s.expect = g.expect /\ s.match = g.match /\ s.provenance = f.provenance /\ s.turns = g.turns
    BY <1>7
  <2> HIDE DEF s, link
  <2>2. h = [notice |-> s.notice, expect |-> s.expect, match |-> s.match,
             provenance |-> Append(s.provenance, link), turns |-> s.turns]
    BY <1>8, FileChanged
  <2> QED BY <2>1, <2>2
<1> HIDE DEF h, s
<1>10. LineageFollows(op, f, h) BY <1>9 DEF LineageFollows
<1> HIDE DEF link
<1>11. lineage \in Seq(Range(lineage)) BY AppendAny DEF IsFile
<1> HIDE DEF lineage
<1>12. IsFile(h) BY <1>4, <1>9, <1>11 DEF IsFile
<1>13. TurnsFollow(f, h) BY <1>4, <1>9 DEF TurnsFollow
<1>14. Derived(op, f, h) BY <1>10, <1>12, <1>13, KeysFollowTurns DEF Derived
<1> QED BY <1>6, <1>14

LEMMA CompiledFacts ==
  ASSUME NEW s \in Screenplays
  PROVE  IsFile(Compile(s)) /\ Compile(s).provenance = <<>>
<1> DEFINE turns == [i \in DOMAIN s.turns |->
                       IF s.turns[i].kind = "mcp" THEN CompiledMCP(s.turns[i])
                       ELSE CompiledHTTP(s.provider, s.turns[i], Said(s.turns, i))]
<1>1. \A t : IsTurn(CompiledMCP(t)) BY DEF IsTurn, CompiledMCP, MCP
<1>2. \A p, t, msgs : IsTurn(CompiledHTTP(p, t, msgs)) BY DEF IsTurn, CompiledHTTP, HTTP
<1>3. \A i \in DOMAIN turns : IsTurn(turns[i]) BY <1>1, <1>2
<1>4. Compile(s) = File("none", turns) BY DEF Compile
<1>5. DOMAIN s.turns = 1 .. Len(s.turns) /\ Len(s.turns) \in Nat BY ScreenplaysAssumption, LenProperties
<1>6. DOMAIN turns = DOMAIN s.turns /\ turns = [i \in DOMAIN turns |-> turns[i]] OBVIOUS
<1> HIDE DEF turns
<1>7. turns \in Seq(Range(turns)) BY <1>5, <1>6, ListOf
<1>8. IsFile(File("none", turns)) BY <1>3, <1>7, EmptyList DEF IsFile, File
<1>9. File("none", turns).provenance = <<>> BY DEF File
<1> QED BY <1>4, <1>8, <1>9

(***************************************************************************)
(* The lineage                                                             *)
(***************************************************************************)

LEMMA SubsequenceEmpty ==
  ASSUME NEW s, NEW t, DOMAIN s = {}
  PROVE  Subsequence(s, t)
<1>1. [k \in DOMAIN s |-> k] \in [DOMAIN s -> DOMAIN t] OBVIOUS
<1> QED BY <1>1 DEF Subsequence

LEMMA SubsequenceSkip ==
  ASSUME NEW s, NEW t, t \in Seq(Range(t)), Subsequence(s, t), NEW x
  PROVE  Subsequence(s, Append(t, x))
<1>1. PICK at \in [DOMAIN s -> DOMAIN t] :
        /\ \A k \in DOMAIN s : s[k] = t[at[k]]
        /\ \A j, k \in DOMAIN s : j < k => at[j] < at[k]
  BY DEF Subsequence
<1> DEFINE u == Append(t, x)
<1>2. Len(t) \in Nat /\ DOMAIN t = 1 .. Len(t) /\ DOMAIN u = 1 .. (Len(t) + 1) /\ \A i \in 1 .. Len(t) : u[i] = t[i]
  BY AppendAny
<1> HIDE DEF u
<1>3. at \in [DOMAIN s -> DOMAIN u] BY <1>1, <1>2
<1>4. \A k \in DOMAIN s : s[k] = u[at[k]] BY <1>1, <1>2
<1>5. Subsequence(s, u) BY <1>1, <1>3, <1>4 DEF Subsequence
<1> QED BY <1>5 DEF u

LEMMA SubsequenceBoth ==
  ASSUME NEW s, s \in Seq(Range(s)), NEW t, t \in Seq(Range(t)), Subsequence(s, t), NEW x
  PROVE  Subsequence(Append(s, x), Append(t, x))
<1>1. PICK at \in [DOMAIN s -> DOMAIN t] :
        /\ \A k \in DOMAIN s : s[k] = t[at[k]]
        /\ \A j, k \in DOMAIN s : j < k => at[j] < at[k]
  BY DEF Subsequence
<1> DEFINE u == Append(t, x)
<1> DEFINE r == Append(s, x)
<1>2. /\ Len(t) \in Nat /\ DOMAIN t = 1 .. Len(t) /\ DOMAIN u = 1 .. (Len(t) + 1)
      /\ \A i \in 1 .. Len(t) : u[i] = t[i]
      /\ u[Len(t) + 1] = x
  BY AppendAny
<1>3. /\ Len(s) \in Nat /\ DOMAIN s = 1 .. Len(s) /\ DOMAIN r = 1 .. (Len(s) + 1)
      /\ \A i \in 1 .. Len(s) : r[i] = s[i]
      /\ r[Len(s) + 1] = x
  BY AppendAny
<1> HIDE DEF u, r
<1> DEFINE new == [k \in DOMAIN r |-> IF k = Len(s) + 1 THEN Len(t) + 1 ELSE at[k]]
<1>4. \A k \in DOMAIN r : k # Len(s) + 1 => k \in DOMAIN s BY <1>3
<1>5. new \in [DOMAIN r -> DOMAIN u] BY <1>1, <1>2, <1>4
<1>6. \A k \in DOMAIN r : r[k] = u[new[k]]
  <2> TAKE k \in DOMAIN r
  <2>1. CASE k = Len(s) + 1 BY <1>2, <1>3, <2>1
  <2>2. CASE k # Len(s) + 1
    <3>1. k \in DOMAIN s /\ r[k] = s[k] /\ new[k] = at[k] /\ at[k] \in DOMAIN t BY <1>1, <1>3, <1>4, <2>2
    <3> QED BY <1>1, <1>2, <3>1
  <2> QED BY <2>1, <2>2
<1>7. ASSUME NEW j \in DOMAIN r, NEW k \in DOMAIN r, j < k PROVE new[j] < new[k]
  <2>1. j # Len(s) + 1 /\ j \in DOMAIN s BY <1>3, <1>7
  <2>2. at[j] \in 1 .. Len(t) /\ new[j] = at[j] BY <1>1, <1>2, <2>1
  <2>3. CASE k = Len(s) + 1 BY <1>2, <2>2, <2>3
  <2>4. CASE k # Len(s) + 1
    <3>1. k \in DOMAIN s /\ new[k] = at[k] BY <1>4, <2>4
    <3> QED BY <1>1, <1>7, <2>1, <2>2, <3>1
  <2> QED BY <2>3, <2>4
<1> HIDE DEF new
<1>8. Subsequence(r, u) BY <1>5, <1>6, <1>7 DEF Subsequence
<1> QED BY <1>8 DEF u, r

LEMMA FromsAre ==
  ASSUME NEW f, IsFile(f)
  PROVE  /\ Froms(f) \in Seq(Range(Froms(f))) /\ Len(Froms(f)) = Len(f.provenance)
         /\ DOMAIN Froms(f) = DOMAIN f.provenance
<1>1. DOMAIN f.provenance = 1 .. Len(f.provenance) /\ Len(f.provenance) \in Nat BY LenProperties DEF IsFile
<1> DEFINE s == Froms(f)
<1>2. DOMAIN s = 1 .. Len(f.provenance) /\ s = [i \in DOMAIN s |-> s[i]] BY <1>1 DEF Froms
<1> HIDE DEF s
<1>3. s \in Seq(Range(s)) /\ Len(s) = Len(f.provenance) BY <1>1, <1>2, ListOf
<1> QED BY <1>1, <1>2, <1>3 DEF s

LEMMA FromsLinked ==
  ASSUME NEW f, NEW g, IsFile(f), IsFile(g), NEW name, NEW x,
         g.provenance = Append(f.provenance, [op |-> name, from |-> x])
  PROVE  Froms(g) = Append(Froms(f), x) /\ Last(Froms(g)) = x
<1> DEFINE link == [op |-> name, from |-> x]
<1> DEFINE s == Froms(f)
<1>1. link.from = x OBVIOUS
<1> HIDE DEF link
<1>2. /\ Len(f.provenance) \in Nat /\ DOMAIN f.provenance = 1 .. Len(f.provenance)
      /\ Len(g.provenance) = Len(f.provenance) + 1
      /\ DOMAIN g.provenance = 1 .. (Len(f.provenance) + 1)
      /\ \A i \in 1 .. Len(f.provenance) : g.provenance[i] = f.provenance[i]
      /\ g.provenance[Len(f.provenance) + 1] = link
  BY AppendAny DEF IsFile, link
<1>3. s \in Seq(Range(s)) /\ Len(s) = Len(f.provenance) /\ DOMAIN s = DOMAIN f.provenance BY FromsAre
<1>4. \A i \in DOMAIN s : s[i] = f.provenance[i].from BY DEF Froms
<1> HIDE DEF s
<1> DEFINE r == Append(s, x)
<1>5. /\ DOMAIN r = 1 .. (Len(s) + 1) /\ r[Len(s) + 1] = x /\ \A i \in 1 .. Len(s) : r[i] = s[i]
      /\ r \in Seq(Range(r)) /\ Len(r) = Len(s) + 1
  BY <1>3, AppendAny
<1>6. r = [i \in DOMAIN r |-> r[i]] BY <1>5, ListIs
<1> HIDE DEF r
<1>7. DOMAIN r = DOMAIN g.provenance BY <1>2, <1>3, <1>5
<1>8. \A i \in DOMAIN r : r[i] = g.provenance[i].from
  <2> TAKE i \in DOMAIN r
  <2>1. CASE i = Len(s) + 1 BY <1>1, <1>2, <1>3, <1>5, <2>1
  <2>2. CASE i # Len(s) + 1
    <3>1. i \in 1 .. Len(s) BY <1>2, <1>3, <1>5, <2>2
    <3> QED BY <1>2, <1>3, <1>4, <1>5, <3>1
  <2> QED BY <2>1, <2>2
<1>9. Froms(g) = r BY <1>6, <1>7, <1>8 DEF Froms
<1>10. Last(r) = x BY <1>5 DEF Last
<1> QED BY <1>9, <1>10 DEF r, s

LEMMA LineageStep ==
  ASSUME NEW f, NEW g, NEW t, NEW op, IsFile(f), Derived(op, f, g), t \in Seq(Range(t)), Subsequence(Froms(f), t)
  PROVE  /\ Append(t, BehaviorDigest(f)) \in Seq(Range(Append(t, BehaviorDigest(f))))
         /\ Subsequence(Froms(g), Append(t, BehaviorDigest(f)))
         /\ op \in Stamps => Last(Froms(g)) = BehaviorDigest(f)
<1> DEFINE d == BehaviorDigest(f)
<1>1. Append(t, d) \in Seq(Range(Append(t, d))) BY AppendAny
<1>2. IsFile(g) BY DEF Derived
<1>3. CASE g.provenance = <<>> /\ op \notin Stamps
  <2>1. DOMAIN Froms(g) = {} BY <1>3, EmptyList DEF Froms
  <2> QED BY <1>1, <1>3, <2>1, SubsequenceEmpty
<1>4. CASE g.provenance = f.provenance /\ op \notin Stamps
  <2>1. Froms(g) = Froms(f) BY <1>4 DEF Froms
  <2>2. Subsequence(Froms(f), Append(t, d)) BY SubsequenceSkip
  <2> QED BY <1>1, <1>4, <2>1, <2>2
<1>5. CASE \E name : g.provenance = Append(f.provenance, [op |-> name, from |-> d])
  <2>1. Froms(g) = Append(Froms(f), d) /\ Last(Froms(g)) = d BY <1>2, <1>5, FromsLinked
  <2>2. Subsequence(Append(Froms(f), d), Append(t, d)) BY FromsAre, SubsequenceBoth
  <2> QED BY <1>1, <2>1, <2>2
<1> QED BY <1>3, <1>4, <1>5 DEF Derived, LineageFollows

\* As many values as arguments at most.
LEMMA ImageFinite ==
  ASSUME NEW f, IsFiniteSet(DOMAIN f)
  PROVE  IsFiniteSet({f[x] : x \in DOMAIN f})
<1> DEFINE D == DOMAIN f
           T == {f[x] : x \in D}
           g == [x \in D |-> f[x]]
<1>1. g \in Surjection(D, T) BY DEF Surjection
<1>2. IsFiniteSet(T) BY <1>1, FS_Surjection
<1> QED BY <1>2

(***************************************************************************)
(* The commands                                                            *)
(***************************************************************************)

FilesInv ==
  /\ IsFiniteSet(DOMAIN disk)
  /\ \A p \in DOMAIN disk : IsPath(p) /\ IsFile(disk[p]) /\ MCPKeysHold(disk[p])

LineageInv ==
  /\ DOMAIN born = DOMAIN disk
  /\ \A p \in DOMAIN disk : born[p] \in Seq(Range(born[p])) /\ Subsequence(Froms(disk[p]), born[p])

LastInv ==
  /\ Written \subseteq DOMAIN disk
  /\ \A q \in Written :
       /\ last.op \in Stamps => Last(Froms(disk[q])) = BehaviorDigest(last.from[q])
       /\ last.from[q].match = "none" /\ KeysHold(last.from[q]) => KeysHold(disk[q])

DeriveInv == FilesInv /\ LineageInv /\ LastInv

LEMMA InitDerive == DeriveInit => DeriveInv
<1> SUFFICES ASSUME DeriveInit PROVE DeriveInv OBVIOUS
<1>1. DOMAIN disk = DOMAIN Goldens /\ \A p \in DOMAIN disk : disk[p] \in Goldens[p] BY DEF DeriveInit
<1>2. \A p \in DOMAIN disk : IsFile(disk[p]) /\ disk[p].provenance = <<>> /\ MCPKeysHold(disk[p])
  BY <1>1, GoldensAssumption
<1>3. \A p \in DOMAIN disk : DOMAIN Froms(disk[p]) = {} BY <1>2, EmptyList DEF Froms
<1>4. DOMAIN born = DOMAIN disk /\ \A p \in DOMAIN disk : born[p] = <<>> BY DEF DeriveInit
<1>5. LineageInv BY <1>3, <1>4, EmptyList, SubsequenceEmpty DEF LineageInv
<1>6. Written = {} BY EmptyList DEF DeriveInit, Written, Command, EditOf
<1>7. LastInv BY <1>6 DEF LastInv
<1> QED BY <1>1, <1>2, <1>5, <1>7, DeriveAssumption DEF DeriveInv, FilesInv

LEMMA SaveAllStep ==
  ASSUME DeriveInv, NEW op, NEW i, NEW edits, NEW to, NEW written, NEW from,
         SaveAll(EditOf(op, i, edits, to), written, from),
         IsFiniteSet(DOMAIN written), \A q \in DOMAIN written : IsPath(q),
         \A q \in DOMAIN written : from[q] \in DOMAIN disk /\ Derived(op, disk[from[q]], written[q])
  PROVE  DeriveInv' /\ last'.op = op
<1> DEFINE births == [q \in DOMAIN written |-> Append(born[from[q]], BehaviorDigest(disk[from[q]]))]
<1> DEFINE read == [q \in DOMAIN written |-> disk[from[q]]]
<1>1. disk' = Over(written, disk) /\ born' = Over(births, born) BY DEF SaveAll
<1>2. last'.op = op /\ last'.from = read BY DEF SaveAll, EditOf
<1>3. /\ DOMAIN births = DOMAIN written /\ DOMAIN read = DOMAIN written
      /\ \A q \in DOMAIN written : births[q] = Append(born[from[q]], BehaviorDigest(disk[from[q]])) /\ read[q] = disk[from[q]]
  OBVIOUS
<1> HIDE DEF births, read
<1>4. /\ DOMAIN disk' = DOMAIN written \cup DOMAIN disk
      /\ \A q \in DOMAIN written : disk'[q] = written[q]
      /\ \A q \in DOMAIN disk \ DOMAIN written : disk'[q] = disk[q]
  BY <1>1 DEF Over
<1>5. /\ DOMAIN born' = DOMAIN written \cup DOMAIN disk
      /\ \A q \in DOMAIN written : born'[q] = births[q]
      /\ \A q \in DOMAIN disk \ DOMAIN written : born'[q] = born[q]
  BY <1>1, <1>3 DEF Over, DeriveInv, LineageInv
<1>6. \A q \in DOMAIN written :
        /\ IsFile(disk[from[q]]) /\ MCPKeysHold(disk[from[q]])
        /\ born[from[q]] \in Seq(Range(born[from[q]])) /\ Subsequence(Froms(disk[from[q]]), born[from[q]])
  BY DEF DeriveInv, FilesInv, LineageInv
<1>7. \A q \in DOMAIN written : IsFile(written[q]) /\ KeysFollow(disk[from[q]], written[q]) BY DEF Derived
<1>8. FilesInv'
  <2>1. \A q \in DOMAIN written : MCPKeysHold(written[q]) BY <1>6, <1>7 DEF KeysFollow
  <2>2. \A p \in DOMAIN disk' : IsPath(p) /\ IsFile(disk'[p]) /\ MCPKeysHold(disk'[p])
    BY <1>4, <1>7, <2>1 DEF DeriveInv, FilesInv
  <2>3. IsFiniteSet(DOMAIN disk') BY <1>4, FS_Union DEF DeriveInv, FilesInv
  <2> QED BY <2>2, <2>3 DEF FilesInv
<1>9. ASSUME NEW q \in DOMAIN written
      PROVE  /\ births[q] \in Seq(Range(births[q])) /\ Subsequence(Froms(written[q]), births[q])
             /\ op \in Stamps => Last(Froms(written[q])) = BehaviorDigest(disk[from[q]])
  <2> DEFINE f == disk[from[q]]
  <2> DEFINE t == born[from[q]]
  <2>1. births[q] = Append(t, BehaviorDigest(f)) BY <1>3, <1>9
  <2>2. IsFile(f) /\ Derived(op, f, written[q]) BY <1>6, <1>9
  <2>3. t \in Seq(Range(t)) /\ Subsequence(Froms(f), t) BY <1>6, <1>9
  <2> HIDE DEF f, t
  <2>4. /\ births[q] \in Seq(Range(births[q])) /\ Subsequence(Froms(written[q]), births[q])
        /\ op \in Stamps => Last(Froms(written[q])) = BehaviorDigest(f)
    BY <2>1, <2>2, <2>3, LineageStep
  <2> QED BY <2>4 DEF f
<1>10. LineageInv'
  <2>1. \A p \in DOMAIN disk' : born'[p] \in Seq(Range(born'[p])) /\ Subsequence(Froms(disk'[p]), born'[p])
    BY <1>4, <1>5, <1>9 DEF DeriveInv, LineageInv
  <2>2. DOMAIN born' = DOMAIN disk' BY <1>4, <1>5
  <2> QED BY <2>1, <2>2 DEF LineageInv
<1>11. LastInv'
  <2>1. Written' = DOMAIN written BY <1>2, <1>3 DEF Written
  <2>2. ASSUME NEW q \in DOMAIN written
        PROVE  /\ last'.op \in Stamps => Last(Froms(disk'[q])) = BehaviorDigest(last'.from[q])
               /\ last'.from[q].match = "none" /\ KeysHold(last'.from[q]) => KeysHold(disk'[q])
    <3>1. disk'[q] = written[q] /\ last'.from[q] = disk[from[q]] BY <1>2, <1>3, <1>4, <2>2
    <3> QED BY <1>2, <1>7, <1>9, <2>2, <3>1 DEF KeysFollow
  <2> QED BY <1>4, <2>1, <2>2 DEF LastInv
<1> QED BY <1>2, <1>8, <1>10, <1>11 DEF DeriveInv

LEMMA SaveOneStep ==
  ASSUME DeriveInv, NEW op, NEW i, NEW edits, NEW to, NEW p \in DOMAIN disk, NEW out, NEW f,
         SaveOne(EditOf(op, i, edits, to), p, out, f), IsPath(out), Derived(op, disk[p], f)
  PROVE  DeriveInv' /\ last'.op = op
<1> DEFINE written == [q \in {out} |-> f]
<1> DEFINE from == [q \in {out} |-> p]
<1>1. SaveAll(EditOf(op, i, edits, to), written, from) BY DEF SaveOne
<1>2. \A q \in DOMAIN written : IsPath(q) /\ from[q] \in DOMAIN disk /\ Derived(op, disk[from[q]], written[q]) OBVIOUS
<1>3. IsFiniteSet(DOMAIN written) BY FS_Singleton
<1> HIDE DEF written, from
<1> QED BY <1>1, <1>2, <1>3, SaveAllStep

LEMMA PathFacts ==
  ASSUME NEW p, IsPath(p), NEW dir, NEW name
  PROVE  /\ IsPath(Into(dir, p)) /\ Into(dir, p)[1] = dir
         /\ \A q : IsPath(q) /\ q[1] = p[1] /\ Into(dir, q) = Into(dir, p) => q = p
         /\ IsPath(VariantOf(p, name))
<1>1. ASSUME NEW q, IsPath(q), NEW d
      PROVE  /\ IsPath(Into(d, q)) /\ Into(d, q)[1] = d /\ DOMAIN Into(d, q) = DOMAIN q
             /\ DOMAIN q = 1 .. Len(q) /\ Len(q) \in Nat /\ q = [k \in DOMAIN q |-> q[k]]
             /\ \A k \in 2 .. Len(q) : Into(d, q)[k] = q[k]
  <2> DEFINE S == Range(q) \cup {d}
  <2>1. q \in Seq(S) /\ q # <<>> BY <1>1, SeqDef, LenProperties DEF IsPath, Range
  <2>2. d \in S OBVIOUS
  <2> HIDE DEF S
  <2> DEFINE tail == Tail(q)
  <2>3. tail \in Seq(S) /\ Len(tail) = Len(q) - 1 /\ Len(q) \in Nat \ {0} /\ DOMAIN q = 1 .. Len(q)
    BY <2>1, EmptySeq, LenProperties, HeadTailProperties
  <2>4. \A k \in 1 .. (Len(q) - 1) : tail[k] = q[k + 1] BY <2>1, <2>3, HeadTailProperties
  <2> HIDE DEF tail
  <2> DEFINE u == <<d>> \o tail
  <2>5. u \in Seq(S) /\ Len(u) = Len(q) BY <2>2, <2>3, ConcatProperties
  <2>6. \A k \in 1 .. Len(q) : u[k] = IF k = 1 THEN d ELSE tail[k - 1] BY <2>2, <2>3, ConcatProperties
  <2>7. DOMAIN u = 1 .. Len(q) /\ u = [k \in DOMAIN u |-> u[k]] BY <2>3, <2>5, LenProperties
  <2>8. u = Into(d, q) BY DEF Into, tail
  <2> HIDE DEF u
  <2>9. u \in Seq(Range(u)) BY <2>3, <2>7, ListOf
  <2>10. u # <<>> BY <2>3, <2>7, EmptyList
  <2>11. u[1] = d /\ \A k \in 2 .. Len(q) : u[k] = q[k] BY <2>3, <2>4, <2>6
  <2>12. q = [k \in DOMAIN q |-> q[k]] BY <2>1, LenProperties
  <2> QED BY <2>3, <2>7, <2>8, <2>9, <2>10, <2>11, <2>12 DEF IsPath
<1>2. ASSUME NEW q, IsPath(q), q[1] = p[1], Into(dir, q) = Into(dir, p) PROVE q = p
  <2>1. DOMAIN q = DOMAIN p BY <1>1, <1>2
  <2>2. \A k \in DOMAIN q : q[k] = p[k]
    <3> TAKE k \in DOMAIN q
    <3>1. CASE k = 1 BY <1>2, <3>1
    <3>2. CASE k # 1
      <4>1. k \in 2 .. Len(q) /\ k \in 2 .. Len(p) BY <1>1, <1>2, <2>1, <3>2
      <4> QED BY <1>1, <1>2, <4>1
    <3> QED BY <3>1, <3>2
  <2>3. q = [k \in DOMAIN q |-> q[k]] /\ p = [k \in DOMAIN p |-> p[k]] BY <1>1, <1>2
  <2> QED BY <2>1, <2>2, <2>3
<1>3. IsPath(VariantOf(p, name))
  <2> DEFINE u == Into("out", p)
  <2>1. u \in Seq(Range(u)) BY <1>1 DEF IsPath
  <2> HIDE DEF u
  <2> DEFINE w == Append(u, name)
  <2>2. w \in Seq(Range(w)) /\ DOMAIN w = 1 .. (Len(u) + 1) /\ Len(u) \in Nat BY <2>1, AppendAny
  <2>3. w = VariantOf(p, name) BY DEF VariantOf, u
  <2> HIDE DEF w
  <2>4. w # <<>> BY <2>2, EmptyList
  <2> QED BY <2>2, <2>3, <2>4 DEF IsPath
<1> QED BY <1>1, <1>2, <1>3

LEMMA GraftStep ==
  ASSUME DeriveInv, NEW p \in DOMAIN disk, NEW out, IsPath(out), NEW i, NEW edits, NEW dropped,
         NEW keep \in 0 .. Len(disk[p].turns), Graft(p, out, i, edits, dropped, keep)
  PROVE  DeriveInv' /\ last'.op # "shrink"
<1> DEFINE f == disk[p]
<1> DEFINE t == ApplyGraftEdits(TurnOf(f.turns[i]), edits, dropped)
<1>1. IsFile(f) BY DEF DeriveInv, FilesInv
<1>2. Derived("graft", f, Grafted(f, i, t, keep)) /\ Derived("graft-more", f, Grafted(f, i, t, keep))
  BY <1>1, GraftedDerived
<1>3. \/ SaveOne(EditOf("graft", i, edits, ""), p, out, Grafted(f, i, t, keep))
      \/ SaveOne(EditOf("graft-more", 0, <<>>, ""), p, out, Grafted(f, i, t, keep))
  BY DEF Graft, Command
<1> HIDE DEF t
<1> DEFINE g == Grafted(f, i, t, keep)
<1>4. Derived("graft", f, g) /\ Derived("graft-more", f, g) BY <1>2
<1>5. SaveOne(EditOf("graft", i, edits, ""), p, out, g) \/ SaveOne(EditOf("graft-more", 0, <<>>, ""), p, out, g)
  BY <1>3
<1> HIDE DEF g
<1>6. DeriveInv' /\ (last'.op = "graft" \/ last'.op = "graft-more") BY <1>4, <1>5, SaveOneStep
<1> QED BY <1>6

LEMMA BranchStep ==
  ASSUME DeriveInv, NEW p \in DOMAIN disk, NEW out, IsPath(out), NEW i \in Turns(p), NEW edits, Branch(p, out, i, edits)
  PROVE  DeriveInv' /\ last'.op # "shrink"
<1> DEFINE f == disk[p]
<1> DEFINE t == ApplyGraftEdits(TurnOf(f.turns[i]), edits, {})
<1> DEFINE g == IF edits = <<>> THEN f ELSE Spliced(f, i, t)
<1>1. IsFile(f) BY DEF DeriveInv, FilesInv
<1>2. SaveOne(EditOf("branch", i, edits, ""), p, out, BranchSeed(g, i)) BY DEF Branch
<1> HIDE DEF t
<1>3. Follows(f, g) /\ DOMAIN g.turns = DOMAIN f.turns BY <1>1, SelfFollows, SplicedFollows
<1> HIDE DEF g
<1>4. i \in 0 .. Len(g.turns)
  <2>1. DOMAIN g.turns = 1 .. Len(g.turns) /\ Len(g.turns) \in Nat BY <1>3, LenProperties DEF Follows, IsFile
  <2> QED BY <1>3, <2>1 DEF Turns
<1>5. Derived("branch", f, BranchSeed(g, i)) BY <1>1, <1>3, <1>4, BranchDerived
<1>6. DeriveInv' /\ last'.op = "branch" BY <1>2, <1>5, SaveOneStep
<1> QED BY <1>6

LEMMA VariantsStep ==
  ASSUME DeriveInv, NEW op, NEW i, NEW edits, NEW to, NEW p \in DOMAIN disk, NEW made,
         SaveVariants(EditOf(op, i, edits, to), p, made), IsFiniteSet(made),
         \A v \in made : Derived(op, disk[p], v[2])
  PROVE  DeriveInv' /\ last'.op = op
<1> DEFINE paths == {VariantOf(p, v[1]) : v \in made}
<1> DEFINE written == [q \in paths |-> (CHOOSE v \in made : VariantOf(p, v[1]) = q)[2]]
<1> DEFINE from == [q \in paths |-> p]
<1>1. SaveAll(EditOf(op, i, edits, to), written, from) BY DEF SaveVariants
<1>2. ASSUME NEW q \in paths
      PROVE  (CHOOSE v \in made : VariantOf(p, v[1]) = q) \in made
  OBVIOUS
<1>3. \A q \in DOMAIN written : from[q] \in DOMAIN disk /\ Derived(op, disk[from[q]], written[q])
  BY <1>2
<1>4. IsFiniteSet(paths)
  <2> DEFINE g == [v \in made |-> VariantOf(p, v[1])]
  <2>1. paths = {g[v] : v \in DOMAIN g} /\ DOMAIN g = made OBVIOUS
  <2> HIDE DEF g, paths
  <2> QED BY <2>1, ImageFinite
<1>5. \A q \in paths : IsPath(q) BY PathFacts DEF DeriveInv, FilesInv
<1>6. DOMAIN written = paths OBVIOUS
<1> HIDE DEF written, from, paths
<1> QED BY <1>1, <1>3, <1>4, <1>5, <1>6, SaveAllStep

LEMMA DistillStep ==
  ASSUME DeriveInv, NEW p \in DOMAIN disk, NEW i, NEW slot \in Slots, Distill(p, i, slot)
  PROVE  DeriveInv' /\ last'.op # "shrink"
<1>1. IsFile(disk[p]) BY DEF DeriveInv, FilesInv
<1> DEFINE t == TurnOf(disk[p].turns[i])
<1> DEFINE fits == {m \in DOMAIN slot : ~\E l \in 1 .. m : EditFails(t, slot[l])}
<1> DEFINE made == {<<ToString(k), Distilled(disk[p], i, Edited(t, slot[k]))>> : k \in fits}
<1>2. SaveVariants(EditOf("distill", i, slot, ""), p, made) BY DEF Distill
<1>3. \A v \in made : \E u : v[2] = Distilled(disk[p], i, u) OBVIOUS
<1>5. IsFiniteSet(fits)
  <2>1. IsFiniteSet(DOMAIN slot)
    <3>1. DOMAIN slot = 1 .. Len(slot) /\ Len(slot) \in Nat BY DeriveAssumption, LenProperties
    <3> QED BY <3>1, FS_Interval
  <2>2. fits \subseteq DOMAIN slot OBVIOUS
  <2> HIDE DEF fits
  <2> QED BY <2>1, <2>2, FS_Subset
<1> HIDE DEF fits
<1>6. IsFiniteSet(made)
  <2> DEFINE g == [k \in fits |-> <<ToString(k), Distilled(disk[p], i, Edited(t, slot[k]))>>]
  <2>1. made = {g[k] : k \in DOMAIN g} /\ DOMAIN g = fits OBVIOUS
  <2> HIDE DEF g, made
  <2> QED BY <1>5, <2>1, ImageFinite
<1> HIDE DEF made
<1>4. \A v \in made : Derived("distill", disk[p], v[2]) BY <1>1, <1>3, DistilledDerived
<1>7. DeriveInv' /\ last'.op = "distill" BY <1>2, <1>4, <1>6, VariantsStep
<1> QED BY <1>7

LEMMA CopiesFrom ==
  ASSUME NEW paths, NEW dir
  PROVE  /\ DOMAIN Copies(paths, dir) = {Into(dir, p) : p \in paths}
         /\ \A q \in DOMAIN Copies(paths, dir) :
              Copies(paths, dir)[q] \in paths /\ Into(dir, Copies(paths, dir)[q]) = q
BY DEF Copies

LEMMA CopiesPaths ==
  ASSUME NEW paths, NEW dir, IsFiniteSet(paths), \A p \in paths : IsPath(p)
  PROVE  IsFiniteSet(DOMAIN Copies(paths, dir)) /\ \A q \in DOMAIN Copies(paths, dir) : IsPath(q) /\ q[1] = dir
<1> DEFINE D == {Into(dir, p) : p \in paths}
<1>1. D = DOMAIN Copies(paths, dir) BY CopiesFrom
<1>2. IsFiniteSet(D)
  <2> DEFINE g == [p \in paths |-> Into(dir, p)]
  <2>1. D = {g[p] : p \in DOMAIN g} /\ DOMAIN g = paths OBVIOUS
  <2> HIDE DEF g, D
  <2> QED BY <2>1, ImageFinite
<1>3. \A p \in paths : IsPath(Into(dir, p)) /\ Into(dir, p)[1] = dir
  <2> TAKE p \in paths
  <2> QED BY PathFacts
<1>4. \A q \in D : IsPath(q) /\ q[1] = dir BY <1>3
<1> HIDE DEF D
<1> QED BY <1>1, <1>2, <1>4

LEMMA MigrateStep ==
  ASSUME DeriveInv, NEW dirs, NEW to, Migrate(dirs, to)
  PROVE  DeriveInv' /\ last'.op # "shrink"
<1> DEFINE paths == {p \in Listed(dirs[1]) : ~DigestDrift(CollectTurns(disk[p]), CollectTurns(Port(disk[p], to)))}
<1> DEFINE from == Copies(paths, dirs[2])
<1> DEFINE written == [q \in DOMAIN from |-> Stamped(Port(disk[from[q]], to), disk[from[q]], "migrate")]
<1>1. SaveAll(EditOf("migrate", 0, <<>>, to), written, from) BY DEF Migrate, Toward
<1>2. paths \subseteq DOMAIN disk BY DEF Listed
<1> HIDE DEF paths
<1>6. IsFiniteSet(paths) /\ \A p \in paths : IsPath(p) BY <1>2, FS_Subset DEF DeriveInv, FilesInv
<1>7. IsFiniteSet(DOMAIN from) /\ \A q \in DOMAIN from : IsPath(q) BY <1>6, CopiesPaths
<1>3. \A q \in DOMAIN from : from[q] \in DOMAIN disk BY <1>2, CopiesFrom
<1>4. \A q \in DOMAIN from : IsFile(disk[from[q]]) BY <1>3 DEF DeriveInv, FilesInv
<1> HIDE DEF from
<1>5. \A q \in DOMAIN written : from[q] \in DOMAIN disk /\ Derived("migrate", disk[from[q]], written[q])
  BY <1>3, <1>4, PortDerived
<1>8. DOMAIN written = DOMAIN from OBVIOUS
<1> HIDE DEF written
<1>9. DeriveInv' /\ last'.op = "migrate" BY <1>1, <1>5, <1>7, <1>8, SaveAllStep
<1> QED BY <1>9

LEMMA VariantsFinite == \A base : IsFiniteSet(Variants(base))
<1> TAKE base
<1> DEFINE tool == IF base.tools = <<>> THEN "tool" ELSE base.tools[1].name
           Finish(r) == [base EXCEPT !.finish = r,
                                     !.tools = IF r = "tool_use" /\ @ = <<>> THEN <<ToolCall("tool", EmptyObject)>> ELSE @]
           half == SubSeq(base.text, 1, Len(base.text) \div 2)
           A == {<<r, Finish(r)>> : r \in FinishReasons}
           cut == <<"truncated", [base EXCEPT !.text = half, !.finish = "max_tokens"]>>
           B == {cut : x \in {y \in {1} : Len(base.text) > 1}}
           empty == <<"empty-text", [base EXCEPT !.text = <<>>, !.finish = "end_turn"]>>
           broken == <<"malformed-args", [base EXCEPT !.tools = <<ToolCall(tool, Unexpected)>>, !.finish = "tool_use"]>>
<1>1. Variants(base) = A \cup B \cup {empty, broken} BY DEF Variants
<1> HIDE DEF Finish, cut, empty, broken
<1>2. A = {<<"end_turn", Finish("end_turn")>>} \cup {<<"max_tokens", Finish("max_tokens")>>}
          \cup {<<"stop_sequence", Finish("stop_sequence")>>} \cup {<<"tool_use", Finish("tool_use")>>}
  BY DEF FinishReasons
<1>3. IsFiniteSet(A)
  <2> DEFINE a == <<"end_turn", Finish("end_turn")>>
             b == <<"max_tokens", Finish("max_tokens")>>
             c == <<"stop_sequence", Finish("stop_sequence")>>
             d == <<"tool_use", Finish("tool_use")>>
  <2>1. A = {a} \cup {b} \cup {c} \cup {d} BY <1>2
  <2> HIDE DEF a, b, c, d, A
  <2>2. IsFiniteSet({a}) /\ IsFiniteSet({b}) /\ IsFiniteSet({c}) /\ IsFiniteSet({d}) BY FS_Singleton
  <2>3. IsFiniteSet({a} \cup {b}) BY <2>2, FS_Union
  <2>4. IsFiniteSet({a} \cup {b} \cup {c}) BY <2>2, <2>3, FS_Union
  <2> QED BY <2>1, <2>2, <2>4, FS_Union
<1>4. B \subseteq {cut} OBVIOUS
<1> HIDE DEF A, B
<1>5. IsFiniteSet(B) BY <1>4, FS_Singleton, FS_Subset
<1>6. IsFiniteSet({empty, broken})
  <2>1. IsFiniteSet({empty}) /\ IsFiniteSet({broken}) BY FS_Singleton
  <2>2. {empty, broken} = {empty} \cup {broken} OBVIOUS
  <2> QED BY <2>1, <2>2, FS_Union
<1>7. IsFiniteSet(A \cup B) BY <1>3, <1>5, FS_Union
<1>8. IsFiniteSet((A \cup B) \cup {empty, broken}) BY <1>6, <1>7, FS_Union
<1> QED BY <1>1, <1>8

LEMMA ScenarioStep ==
  ASSUME DeriveInv, NEW p \in DOMAIN disk, NEW n, ScenarioOf(p, n)
  PROVE  DeriveInv' /\ last'.op # "shrink"
<1> DEFINE i == NthHTTPIndex(disk[p], n)
<1>1. IsFile(disk[p]) BY DEF DeriveInv, FilesInv
<1>2. \A v \in Scenario(disk[p], i) : \E body : v[2] = WithResponse(disk[p], i, body) BY DEF Scenario
<1>3. SaveVariants(EditOf("scenario", i, <<>>, ""), p, Scenario(disk[p], i)) BY DEF ScenarioOf
<1> HIDE DEF i
<1>5. IsFiniteSet(Scenario(disk[p], i))
  <2> DEFINE it == disk[p].turns[i]
             S == Variants(TurnOf(it))
             g == [v \in S |-> <<v[1], WithResponse(disk[p], i, Encode(it.dialect, v[2]))>>]
             T == {g[v] : v \in DOMAIN g}
             e == <<"provider-error", WithResponse(disk[p], i, ErrorStream)>>
  <2>1. Scenario(disk[p], i) = T \cup {e} BY DEF Scenario
  <2>2. DOMAIN g = S OBVIOUS
  <2>3. IsFiniteSet(DOMAIN g) BY <2>2, VariantsFinite
  <2> HIDE DEF g, e
  <2>4. IsFiniteSet(T) BY <2>3, ImageFinite
  <2> HIDE DEF T
  <2>5. IsFiniteSet({e}) BY FS_Singleton
  <2> QED BY <2>1, <2>4, <2>5, FS_Union
<1>4. \A v \in Scenario(disk[p], i) : Derived("scenario", disk[p], v[2]) BY <1>1, <1>2, ResponseDerived DEF Stamps
<1>6. DeriveInv' /\ last'.op = "scenario" BY <1>3, <1>4, <1>5, VariantsStep
<1> QED BY <1>6

LEMMA FuzzStep ==
  ASSUME DeriveInv, NEW p \in DOMAIN disk, NEW n, NEW answer, Fuzz(p, n, answer)
  PROVE  DeriveInv' /\ last'.op # "shrink"
<1> DEFINE i == NthHTTPIndex(disk[p], n)
<1>1. SaveOne(EditOf("fuzz", i, <<>>, ""), p, VariantOf(p, "reframe"), WithResponse(disk[p], i, answer))
  BY DEF Fuzz
<1>2. IsFile(disk[p]) BY DEF DeriveInv, FilesInv
<1>3. Derived("fuzz", disk[p], WithResponse(disk[p], i, answer)) BY <1>2, ResponseDerived DEF Stamps
<1>4. IsPath(VariantOf(p, "reframe")) BY PathFacts DEF DeriveInv, FilesInv
<1> HIDE DEF i
<1>5. DeriveInv' /\ last'.op = "fuzz" BY <1>1, <1>3, <1>4, SaveOneStep
<1> QED BY <1>5

LEMMA PortStep ==
  ASSUME DeriveInv, NEW p \in DOMAIN disk, NEW out, IsPath(out), NEW to, PortTo(p, out, to)
  PROVE  DeriveInv' /\ last'.op # "shrink"
<1>1. SaveOne(EditOf("port", 0, <<>>, to), p, out, Stamped(Port(disk[p], to), disk[p], "port")) BY DEF PortTo, Toward
<1>2. Derived("port", disk[p], Stamped(Port(disk[p], to), disk[p], "port")) BY PortDerived DEF DeriveInv, FilesInv
<1>3. DeriveInv' /\ last'.op = "port" BY <1>1, <1>2, SaveOneStep
<1> QED BY <1>3

LEMMA CanonicalizeStep ==
  ASSUME DeriveInv, NEW p \in DOMAIN disk, NEW out, IsPath(out), Canonicalize1(p, out)
  PROVE  DeriveInv' /\ last'.op # "shrink"
<1>1. SaveOne(EditOf("canonicalize", 0, <<>>, ""), p, out, CanonicalizeFile(disk[p])) BY DEF Canonicalize1, Command
<1>2. Derived("canonicalize", disk[p], CanonicalizeFile(disk[p])) BY CanonicalDerived DEF DeriveInv, FilesInv
<1>3. DeriveInv' /\ last'.op = "canonicalize" BY <1>1, <1>2, SaveOneStep
<1> QED BY <1>3

LEMMA MutateStep ==
  ASSUME DeriveInv, NEW p \in DOMAIN disk, NEW out, IsPath(out), NEW op, NEW n, Mutate(p, out, op, n)
  PROVE  DeriveInv' /\ last'.op # "shrink"
<1>1. SaveOne(EditOf("mutate", 0, <<>>, ""), p, out, Mutated(disk[p], op, n)) BY DEF Mutate, Command
<1>2. Derived("mutate", disk[p], Mutated(disk[p], op, n)) BY MutatedDerived DEF DeriveInv, FilesInv
<1>3. DeriveInv' /\ last'.op = "mutate" BY <1>1, <1>2, SaveOneStep
<1> QED BY <1>3

(***************************************************************************)
(* Shrink                                                                  *)
(***************************************************************************)

LEMMA KeptDef ==
  ASSUME NEW s, Cardinality(DOMAIN s) \in Nat
  PROVE  KeptUpTo(s) = [n \in 0 .. Cardinality(DOMAIN s) |-> IF n = 0 THEN {} ELSE Round(s, KeptUpTo(s)[n - 1])]
<1> DEFINE N == Cardinality(DOMAIN s)
           Rounds(g, m) == g = [n \in 0 .. m |-> IF n = 0 THEN {} ELSE Round(s, g[n - 1])]
           P == {m \in Nat : \E g : Rounds(g, m)}
<1>1. 0 \in P
  <2>1. Rounds([n \in 0 .. 0 |-> {}], 0) OBVIOUS
  <2> QED BY <2>1
<1>2. ASSUME NEW m \in Nat, m \in P PROVE m + 1 \in P
  <2>1. PICK g : Rounds(g, m) BY <1>2
  <2> DEFINE h == [n \in 0 .. (m + 1) |-> IF n <= m THEN g[n] ELSE Round(s, g[m])]
  <2>2. ASSUME NEW n \in 0 .. (m + 1)
        PROVE  h[n] = IF n = 0 THEN {} ELSE Round(s, h[n - 1])
    <3>1. CASE n = 0 BY <2>1, <3>1
    <3>2. CASE n \in 1 .. m
      <4>1. h[n] = g[n] /\ h[n - 1] = g[n - 1] BY <3>2
      <4>2. \A k \in 0 .. m : g[k] = IF k = 0 THEN {} ELSE Round(s, g[k - 1]) BY <2>1
      <4>3. g[n] = Round(s, g[n - 1]) BY <3>2, <4>2
      <4> QED BY <3>2, <4>1, <4>3
    <3>3. CASE n = m + 1
      <4>1. h[n] = Round(s, g[m]) /\ h[n - 1] = g[m] /\ n - 1 = m BY <3>3
      <4> QED BY <3>3, <4>1
    <3> QED BY <3>1, <3>2, <3>3
  <2>3. Rounds(h, m + 1) BY <2>2
  <2> HIDE DEF h, Rounds
  <2>4. \E x : Rounds(x, m + 1) BY <2>3
  <2> QED BY <2>4
<1>3. N \in P
  <2> HIDE DEF P, N
  <2>1. N \in Nat BY DEF N
  <2>2. \A n \in 0 .. N : n \in P BY <1>1, <1>2, <2>1, SetInduction
  <2> QED BY <2>1, <2>2
<1>4. PICK g : Rounds(g, N) BY <1>3
<1>5. KeptUpTo(s) = CHOOSE x : Rounds(x, N) BY DEF KeptUpTo
<1> HIDE DEF Rounds
<1>6. Rounds(KeptUpTo(s), N) BY <1>4, <1>5
<1> QED BY <1>6 DEF Rounds

LEMMA RoundKeeps ==
  ASSUME NEW s, NEW kept \in SUBSET DOMAIN s
  PROVE  Round(s, kept) \in SUBSET DOMAIN s
<1>1. CASE Best(s, kept) = {} BY <1>1 DEF Round
<1>2. CASE Best(s, kept) # {}
  <2>1. (CHOOSE p \in Best(s, kept) : TRUE) \in Best(s, kept) BY <1>2
  <2> QED BY <1>2, <2>1 DEF Round, Best
<1> QED BY <1>1, <1>2

\* The cover consists of files of the corpus.
LEMMA CoverWithin ==
  ASSUME NEW s, IsFiniteSet(DOMAIN s)
  PROVE  \A n \in 0 .. Cardinality(DOMAIN s) : KeptUpTo(s)[n] \in SUBSET DOMAIN s
<1> DEFINE N == Cardinality(DOMAIN s)
           P == {n \in 0 .. N : KeptUpTo(s)[n] \in SUBSET DOMAIN s}
<1>1. N \in Nat BY FS_CardinalityType
<1>2. 0 \in P BY <1>1, KeptDef
<1>3. ASSUME NEW n \in 0 .. (N - 1), n \in P PROVE n + 1 \in P
  <2>1. KeptUpTo(s)[n + 1] = Round(s, KeptUpTo(s)[n])
    <3>1. n + 1 \in 0 .. N /\ n + 1 # 0 /\ (n + 1) - 1 = n BY <1>1
    <3> QED BY <1>1, <3>1, KeptDef
  <2>2. KeptUpTo(s)[n + 1] \in SUBSET DOMAIN s BY <1>3, <2>1, RoundKeeps
  <2> QED BY <1>1, <2>2
<1> HIDE DEF P
<1>4. \A n \in 0 .. N : n \in P BY <1>1, <1>2, <1>3, SetInduction
<1> QED BY <1>4 DEF P

LEMMA CoverSubset ==
  ASSUME NEW s, IsFiniteSet(DOMAIN s)
  PROVE  Cover(s) \subseteq DOMAIN s
<1>1. Cardinality(DOMAIN s) \in 0 .. Cardinality(DOMAIN s) BY FS_CardinalityType
<1> QED BY <1>1, CoverWithin DEF Cover

\* What a file adds, and that the best of a round is new.
LEMMA GainFacts ==
  ASSUME NEW s, \A p \in DOMAIN s : IsFiniteSet(s[p]), NEW kept
  PROVE  /\ \A p \in DOMAIN s : Gain(s, kept, p) \in Nat
         /\ \A p \in DOMAIN s : Gain(s, kept, p) = 0 <=> s[p] \subseteq UNION {s[k] : k \in kept}
<1> DEFINE U == UNION {s[k] : k \in kept}
<1>1. \A p \in DOMAIN s : IsFiniteSet(s[p] \ U) BY FS_Difference
<1>2. \A p \in DOMAIN s : Gain(s, kept, p) = Cardinality(s[p] \ U) BY DEF Gain
<1> HIDE DEF U
<1>3. \A p \in DOMAIN s : Gain(s, kept, p) \in Nat BY <1>1, <1>2, FS_CardinalityType
<1>4. \A p \in DOMAIN s : Gain(s, kept, p) = 0 <=> s[p] \ U = {} BY <1>1, <1>2, FS_EmptySet
<1>5. \A p \in DOMAIN s : s[p] \ U = {} <=> s[p] \subseteq U OBVIOUS
<1> QED BY <1>3, <1>4, <1>5 DEF U

\* As long as a file adds something, one of them adds most.
LEMMA BestExists ==
  ASSUME NEW s, IsFiniteSet(DOMAIN s), \A p \in DOMAIN s : IsFiniteSet(s[p]), NEW kept,
         NEW p \in DOMAIN s, Gain(s, kept, p) > 0
  PROVE  Best(s, kept) # {}
<1> DEFINE all == UNION {s[q] : q \in DOMAIN s}
           B == Cardinality(all)
           G(q) == Gain(s, kept, q)
           T == {B - G(q) : q \in {r \in DOMAIN s : G(r) > 0}}
<1>1. IsFiniteSet(all) BY ImageFinite, FS_UNION
<1>2. B \in Nat BY <1>1, FS_CardinalityType
<1>3. \A q \in DOMAIN s : G(q) \in Nat BY GainFacts
<1>4. \A q \in DOMAIN s : G(q) <= B
  <2> TAKE q \in DOMAIN s
  <2> DEFINE added == s[q] \ UNION {s[k] : k \in kept}
  <2>1. added \in SUBSET all OBVIOUS
  <2> HIDE DEF added, all
  <2>2. Cardinality(added) <= Cardinality(all) BY <1>1, <2>1, FS_Subset
  <2> QED BY <2>2 DEF Gain, added
<1> HIDE DEF B, G
<1>5. T \subseteq Nat BY <1>2, <1>3, <1>4
<1>6. T # {} BY DEF G
<1>7. PICK x \in T : \A y \in T : ~(y < x) BY <1>5, <1>6, LeastNatural
<1>8. PICK q \in DOMAIN s : G(q) > 0 /\ x = B - G(q) BY <1>7
<1>9. ASSUME NEW r \in DOMAIN s PROVE G(r) <= G(q)
  <2>1. SUFFICES ASSUME ~(G(r) <= G(q)) PROVE FALSE OBVIOUS
  <2>2. G(r) > G(q) /\ G(r) > 0 BY <1>3, <1>8, <2>1
  <2>3. B - G(r) \in T BY <2>2
  <2>4. B - G(r) < x BY <1>2, <1>3, <1>8, <2>2
  <2> QED BY <1>7, <2>3, <2>4
<1>10. q \in Best(s, kept) BY <1>8, <1>9 DEF Best, G
<1> QED BY <1>10

\* The greedy cover shows every signal of the corpus.
THEOREM CoverCovers ==
  ASSUME NEW s, IsFiniteSet(DOMAIN s), \A p \in DOMAIN s : IsFiniteSet(s[p])
  PROVE  Cover(s) \subseteq DOMAIN s /\ UNION {s[k] : k \in Cover(s)} = UNION {s[p] : p \in DOMAIN s}
<1> DEFINE N == Cardinality(DOMAIN s)
           K == KeptUpTo(s)
           P == {n \in 0 .. N : Best(s, K[n]) = {} \/ Cardinality(K[n]) = n}
<1>1. N \in Nat BY FS_CardinalityType
<1>2. \A n \in 0 .. N : K[n] \in SUBSET DOMAIN s BY CoverWithin
<1>3. 0 \in P
  <2>1. K[0] = {} BY <1>1, KeptDef
  <2> QED BY <1>1, <2>1, FS_EmptySet
<1>4. ASSUME NEW n \in 0 .. (N - 1), n \in P PROVE n + 1 \in P
  <2>0. n \in 0 .. N /\ n + 1 \in 0 .. N /\ n + 1 # 0 /\ (n + 1) - 1 = n BY <1>1
  <2>1. K[n + 1] = Round(s, K[n]) BY <1>1, <2>0, KeptDef
  <2>2. CASE Best(s, K[n]) = {} BY <2>0, <2>1, <2>2 DEF Round
  <2>3. CASE Best(s, K[n]) # {}
    <3> DEFINE p == CHOOSE q \in Best(s, K[n]) : TRUE
    <3>1. p \in Best(s, K[n]) BY <2>3
    <3>2. K[n + 1] = K[n] \cup {p} BY <2>1, <2>3 DEF Round
    <3> HIDE DEF p, K
    <3>3. p \in DOMAIN s /\ Gain(s, K[n], p) > 0 BY <3>1 DEF Best
    <3>4. p \notin K[n]
      <4>1. SUFFICES ASSUME p \in K[n] PROVE FALSE OBVIOUS
      <4>2. s[p] \subseteq UNION {s[k] : k \in K[n]} BY <4>1
      <4>3. Gain(s, K[n], p) = 0 BY <3>3, <4>2, GainFacts
      <4> QED BY <3>3, <4>3
    <3>5. IsFiniteSet(K[n]) BY <1>2, <2>0, FS_Subset
    <3>6. Cardinality(K[n]) = n BY <1>4, <2>3
    <3>7. Cardinality(K[n + 1]) = n + 1 BY <3>2, <3>4, <3>5, <3>6, FS_AddElement
    <3> QED BY <2>0, <3>7
  <2> QED BY <2>2, <2>3
<1> HIDE DEF P
<1>5. \A n \in 0 .. N : n \in P BY <1>1, <1>3, <1>4, SetInduction
<1>6. N \in 0 .. N /\ N \in P BY <1>1, <1>5
<1>7. K[N] \in SUBSET DOMAIN s BY <1>2, <1>6
<1>8. \A p \in DOMAIN s : s[p] \subseteq UNION {s[k] : k \in K[N]}
  <2> HIDE DEF K
  <2>1. CASE Best(s, K[N]) = {}
    <3> TAKE p \in DOMAIN s
    <3>1. ~(Gain(s, K[N], p) > 0) BY <2>1, BestExists
    <3>2. Gain(s, K[N], p) = 0 BY <3>1, GainFacts
    <3> QED BY <3>2, GainFacts
  <2>2. CASE Cardinality(K[N]) = N
    <3>1. K[N] = DOMAIN s BY <1>7, <2>2, FS_Subset
    <3> QED BY <3>1
  <2> QED BY <1>6, <2>1, <2>2 DEF P
<1>9. Cover(s) = K[N] BY DEF Cover
<1> HIDE DEF K
<1> QED BY <1>7, <1>8, <1>9

\* What shrink keeps are files of the corpus.
LEMMA ShrinkWithin ==
  ASSUME DeriveInv, NEW dir
  PROVE  IsFiniteSet(Listed(dir)) /\ Shrink([p \in Listed(dir) |-> disk[p]]) \subseteq Listed(dir)
<1> DEFINE signals == [p \in Listed(dir) |-> SignalsOf(disk[p])]
<1>1. IsFiniteSet(Listed(dir))
  <2>1. Listed(dir) \subseteq DOMAIN disk BY DEF Listed
  <2> QED BY <2>1, FS_Subset DEF DeriveInv, FilesInv
<1>2. DOMAIN signals = Listed(dir) OBVIOUS
<1>3. Shrink([p \in Listed(dir) |-> disk[p]]) = Cover(signals)
  <2> DEFINE files == [p \in Listed(dir) |-> disk[p]]
             fromFiles == [p \in DOMAIN files |-> SignalsOf(files[p])]
  <2>1. fromFiles = signals OBVIOUS
  <2>2. Shrink(files) = Cover(fromFiles) BY DEF Shrink
  <2> HIDE DEF fromFiles, files, signals
  <2>3. Shrink(files) = Cover(signals) BY <2>1, <2>2
  <2> QED BY <2>3 DEF files
<1> HIDE DEF signals
<1>4. Cover(signals) \subseteq DOMAIN signals BY <1>1, <1>2, CoverSubset
<1> QED BY <1>1, <1>2, <1>3, <1>4

LEMMA ShrinkStep ==
  ASSUME DeriveInv, NEW dirs, ShrinkCorpus(dirs)
  PROVE  DeriveInv'
<1> DEFINE from == Copies(Shrink([p \in Listed(dirs[1]) |-> disk[p]]), dirs[2])
<1> DEFINE read == [q \in DOMAIN from |-> disk[from[q]]]
<1> DEFINE births == [q \in DOMAIN from |-> born[from[q]]]
<1>1. disk' = Over(read, disk) /\ born' = Over(births, born) BY DEF ShrinkCorpus
<1>2. last'.op = "shrink" /\ last'.from = read BY DEF ShrinkCorpus, Toward, EditOf
<1>3. \A q \in DOMAIN from : from[q] \in DOMAIN disk
  <2> DEFINE kept == Shrink([p \in Listed(dirs[1]) |-> disk[p]])
  <2>1. kept \subseteq DOMAIN disk BY ShrinkWithin DEF Listed
  <2> HIDE DEF kept
  <2>2. \A q \in DOMAIN Copies(kept, dirs[2]) : Copies(kept, dirs[2])[q] \in DOMAIN disk BY <2>1, CopiesFrom
  <2> QED BY <2>2 DEF kept
<1>11. IsFiniteSet(DOMAIN from) /\ \A q \in DOMAIN from : IsPath(q)
  <2> DEFINE kept == Shrink([p \in Listed(dirs[1]) |-> disk[p]])
  <2>1. kept \subseteq DOMAIN disk BY ShrinkWithin DEF Listed
  <2> HIDE DEF kept
  <2>2. IsFiniteSet(kept) /\ \A p \in kept : IsPath(p) BY <2>1, FS_Subset DEF DeriveInv, FilesInv
  <2> QED BY <2>2, CopiesPaths DEF kept
<1> HIDE DEF from
<1>4. /\ DOMAIN births = DOMAIN from /\ DOMAIN read = DOMAIN from
      /\ \A q \in DOMAIN from : births[q] = born[from[q]] /\ read[q] = disk[from[q]]
  OBVIOUS
<1> HIDE DEF births, read
<1>5. /\ DOMAIN disk' = DOMAIN from \cup DOMAIN disk
      /\ \A q \in DOMAIN from : disk'[q] = read[q]
      /\ \A q \in DOMAIN disk \ DOMAIN from : disk'[q] = disk[q]
  BY <1>1, <1>4 DEF Over
<1>6. /\ DOMAIN born' = DOMAIN from \cup DOMAIN disk
      /\ \A q \in DOMAIN from : born'[q] = births[q]
      /\ \A q \in DOMAIN disk \ DOMAIN from : born'[q] = born[q]
  BY <1>1, <1>4 DEF Over, DeriveInv, LineageInv
<1>7. \A q \in DOMAIN disk' : \E p \in DOMAIN disk : disk'[q] = disk[p] /\ born'[q] = born[p]
  BY <1>3, <1>4, <1>5, <1>6
<1>8. FilesInv'
  <2>1. IsFiniteSet(DOMAIN disk') BY <1>5, <1>11, FS_Union DEF DeriveInv, FilesInv
  <2> QED BY <1>5, <1>7, <1>11, <2>1 DEF DeriveInv, FilesInv
<1>9. LineageInv' BY <1>5, <1>6, <1>7 DEF DeriveInv, LineageInv
<1>10. LastInv'
  <2>1. Written' = DOMAIN from BY <1>2, <1>4 DEF Written
  <2>2. \A q \in DOMAIN from : disk'[q] = last'.from[q] BY <1>2, <1>5
  <2> QED BY <1>2, <1>5, <2>1, <2>2 DEF LastInv, Stamps
<1> QED BY <1>8, <1>9, <1>10 DEF DeriveInv

LEMMA AuthorStep ==
  ASSUME DeriveInv, NEW out, IsPath(out), NEW s \in Screenplays, Author(out, s)
  PROVE  DeriveInv' /\ last'.op # "shrink"
<1> DEFINE new == [q \in {out} |-> Compile(s)]
<1> DEFINE births == [q \in {out} |-> <<>>]
<1>1. disk' = Over(new, disk) /\ born' = Over(births, born) BY DEF Author
<1>2. last' = EditOf("author", 0, <<s>>, "") BY DEF Author
<1>3. KeysHold(Compile(s)) /\ IsFile(Compile(s)) /\ Compile(s).provenance = <<>> BY CompiledFacts DEF Author
<1>4. MCPKeysHold(Compile(s)) BY <1>3 DEF KeysHold, MCPKeysHold
<1>5. DOMAIN Froms(Compile(s)) = {} BY <1>3, EmptyList DEF Froms
<1>6. Subsequence(Froms(Compile(s)), <<>>) BY <1>5, SubsequenceEmpty
<1>7. DOMAIN disk' = {out} \cup DOMAIN disk /\ disk'[out] = Compile(s) /\ \A q \in DOMAIN disk \ {out} : disk'[q] = disk[q]
  BY <1>1 DEF Over
<1>8. DOMAIN born' = {out} \cup DOMAIN disk /\ born'[out] = <<>> /\ \A q \in DOMAIN disk \ {out} : born'[q] = born[q]
  BY <1>1 DEF Over, DeriveInv, LineageInv
<1>9. FilesInv'
  <2>0. IsFiniteSet({out}) BY FS_Singleton
  <2>1. IsFiniteSet(DOMAIN disk') BY <1>7, <2>0, FS_Union DEF DeriveInv, FilesInv
  <2> QED BY <1>3, <1>4, <1>7, <2>1 DEF DeriveInv, FilesInv
<1>10. LineageInv'
  <2>1. ASSUME NEW q \in DOMAIN disk'
        PROVE  born'[q] \in Seq(Range(born'[q])) /\ Subsequence(Froms(disk'[q]), born'[q])
    <3>1. CASE q = out BY <1>6, <1>7, <1>8, <3>1, EmptyList
    <3>2. CASE q # out BY <1>7, <1>8, <2>1, <3>2 DEF DeriveInv, LineageInv
    <3> QED BY <3>1, <3>2
  <2>2. DOMAIN born' = DOMAIN disk' BY <1>7, <1>8
  <2> QED BY <2>1, <2>2 DEF LineageInv
<1>11. Written' = {} BY <1>2, EmptyList DEF Written, EditOf
<1>12. LastInv' BY <1>11 DEF LastInv
<1>13. last'.op = "author" BY <1>2 DEF EditOf
<1> QED BY <1>9, <1>10, <1>12, <1>13 DEF DeriveInv

(***************************************************************************)
(* Every step                                                              *)
(***************************************************************************)

LEMMA OtherStep ==
  ASSUME DeriveInv, DeriveNext, ~\E dirs \in Dirs : ShrinkCorpus(dirs)
  PROVE  DeriveInv' /\ last'.op # "shrink"
<1>1. \A p \in DOMAIN disk : IsPath(p) /\ IsPath(Into("out", p)) /\ \A out \in Outs(p) : IsPath(out)
  BY PathFacts DEF DeriveInv, FilesInv, Outs
<1>2. \A p \in DOMAIN disk : Turns(p) = 1 .. Len(disk[p].turns) /\ Len(disk[p].turns) \in Nat
  BY LenProperties DEF DeriveInv, FilesInv, IsFile, Turns
<1>3. CASE \E p \in DOMAIN disk : \E out \in Outs(p), i \in Turns(p), edits \in EditLists :
             Graft(p, out, i, edits, {}, Len(disk[p].turns))
  <2>1. PICK p \in DOMAIN disk :
          \E out \in Outs(p), i \in Turns(p), edits \in EditLists : Graft(p, out, i, edits, {}, Len(disk[p].turns))
    BY <1>3
  <2>2. PICK out \in Outs(p), i \in Turns(p), edits \in EditLists : Graft(p, out, i, edits, {}, Len(disk[p].turns))
    BY <2>1
  <2>3. Len(disk[p].turns) \in 0 .. Len(disk[p].turns) BY <1>2
  <2> QED BY <1>1, <2>2, <2>3, GraftStep
<1>4. CASE \E p \in DOMAIN disk : \E i \in Turns(p) : \E keep \in i .. Len(disk[p].turns) :
             Graft(p, p, i, <<>>, {1}, keep)
  <2>1. PICK p \in DOMAIN disk : \E i \in Turns(p) : \E keep \in i .. Len(disk[p].turns) : Graft(p, p, i, <<>>, {1}, keep)
    BY <1>4
  <2>2. PICK i \in Turns(p) : \E keep \in i .. Len(disk[p].turns) : Graft(p, p, i, <<>>, {1}, keep) BY <2>1
  <2>3. PICK keep \in i .. Len(disk[p].turns) : Graft(p, p, i, <<>>, {1}, keep) BY <2>2
  <2>4. keep \in 0 .. Len(disk[p].turns) BY <1>2
  <2> QED BY <1>1, <2>3, <2>4, GraftStep
<1>5. CASE \E p \in DOMAIN disk : \E i \in Turns(p), edits \in EditLists \cup {<<>>} : Branch(p, Into("out", p), i, edits)
  BY <1>1, <1>5, BranchStep
<1>6. CASE \E p \in DOMAIN disk : \E i \in Turns(p), slot \in Slots : Distill(p, i, slot)
  BY <1>6, DistillStep
<1>7. CASE \E p \in DOMAIN disk : \E out \in Outs(p), to \in Targets : PortTo(p, out, to)
  BY <1>1, <1>7, PortStep
<1>8. CASE \E dirs \in Dirs, to \in Targets : Migrate(dirs, to)
  BY <1>8, MigrateStep
<1>9. CASE \E p \in DOMAIN disk : \E out \in Outs(p) : Canonicalize1(p, out)
  BY <1>1, <1>9, CanonicalizeStep
<1>10. CASE \E p \in DOMAIN disk : \E n \in Turns(p) : ScenarioOf(p, n)
  BY <1>10, ScenarioStep
<1>11. CASE \E p \in DOMAIN disk : \E n \in Turns(p) : \E answer : Fuzz(p, n, answer)
  BY <1>11, FuzzStep
<1>12. CASE \E p \in DOMAIN disk : \E op \in MutationOps, n \in 0 .. 1 : Mutate(p, Into("out", p), op, n)
  BY <1>1, <1>12, MutateStep
<1>13. CASE \E s \in Screenplays : Author(<<"out", "authored">>, s)
  <2>1. IsPath(<<"out", "authored">>) BY DEF IsPath, Range
  <2> QED BY <1>13, <2>1, AuthorStep
<1> QED
  BY <1>3, <1>4, <1>5, <1>6, <1>7, <1>8, <1>9, <1>10, <1>11, <1>12, <1>13 DEF DeriveNext

LEMMA DeriveStep == DeriveInv /\ [DeriveNext]_deriveVars => DeriveInv'
<1> SUFFICES ASSUME DeriveInv, [DeriveNext]_deriveVars PROVE DeriveInv' OBVIOUS
<1>1. CASE \E dirs \in Dirs : ShrinkCorpus(dirs) BY <1>1, ShrinkStep
<1>2. CASE DeriveNext /\ ~\E dirs \in Dirs : ShrinkCorpus(dirs) BY <1>2, OtherStep
<1>3. CASE UNCHANGED deriveVars
  BY <1>3 DEF deriveVars, DeriveInv, FilesInv, LineageInv, LastInv, Written
<1> QED BY <1>1, <1>2, <1>3

\* The invariant from which the properties of Derive follow.
THEOREM DeriveInvHolds == DeriveSpec => []DeriveInv
BY InitDerive, DeriveStep, PTL DEF DeriveSpec

\* Of the errors lint reports of a recording, a stale key is the one that tells whether it replays.
LEMMA LintFinds ==
  ASSUME NEW f, MCPKeysHold(f), \A i \in DOMAIN f.turns : f.turns[i].kind \in {"http", "mcp"}
  PROVE  LintErrors(f) = {} <=> KeysHold(f)
<1>1. \A it : "stale_key" \in LintTurn(f, it) <=> StaleKey(f, it) BY DEF LintTurn
<1>2. \A i \in DOMAIN f.turns : StaleKey(f, f.turns[i]) <=> f.turns[i].key # KeyFor(f.match, f.turns[i])
  BY DEF StaleKey, MCPKeysHold
<1>3. ASSUME NEW l \in LintErrors(f) PROVE \E i \in DOMAIN f.turns : "stale_key" \in LintTurn(f, f.turns[i])
  <2>1. l \in LintFile(f) /\ l[2] = "stale_key" BY <1>3 DEF LintErrors
  <2>2. CASE l \in {<<0, c>> : c \in {x \in {"empty"} : f.turns = <<>>}}
    <3>1. l[2] = "empty" BY <2>2
    <3> QED BY <2>1, <3>1
  <2>3. CASE \E i \in DOMAIN f.turns : l \in {<<i, c>> : c \in LintTurn(f, f.turns[i])}
    <3>1. PICK i \in DOMAIN f.turns : l \in {<<i, c>> : c \in LintTurn(f, f.turns[i])} BY <2>3
    <3>2. PICK c \in LintTurn(f, f.turns[i]) : l = <<i, c>> BY <3>1
    <3>3. c = "stale_key" BY <2>1, <3>2
    <3> QED BY <3>2, <3>3
  <2> QED BY <2>1, <2>2, <2>3 DEF LintFile
<1>4. ASSUME NEW i \in DOMAIN f.turns, "stale_key" \in LintTurn(f, f.turns[i]) PROVE LintErrors(f) # {}
  <2> DEFINE l == <<i, "stale_key">>
  <2>1. l \in {<<i, c>> : c \in LintTurn(f, f.turns[i])} BY <1>4
  <2>2. l \in LintFile(f) BY <2>1 DEF LintFile
  <2>3. l[2] = "stale_key" OBVIOUS
  <2> QED BY <2>2, <2>3 DEF LintErrors
<1>5. LintErrors(f) = {} <=> \A i \in DOMAIN f.turns : ~("stale_key" \in LintTurn(f, f.turns[i])) BY <1>3, <1>4
<1> QED BY <1>1, <1>2, <1>5 DEF KeysHold

LEMMA InvLineage == DeriveInv => LineageTrue
<1> SUFFICES ASSUME DeriveInv PROVE LineageTrue OBVIOUS
<1>1. \A q \in Written : Subsequence(Froms(disk[q]), born[q]) BY DEF DeriveInv, LineageInv, LastInv
<1>2. last.op \in {"graft", "graft-more", "distill", "port", "migrate"} => last.op \in Stamps BY DEF Stamps
<1> QED BY <1>1, <1>2 DEF DeriveInv, LastInv, LineageTrue

LEMMA InvKeys == DeriveInv => KeysKept
<1> SUFFICES ASSUME DeriveInv PROVE KeysKept OBVIOUS
<1>1. ASSUME NEW q \in Written PROVE LintErrors(disk[q]) = {} <=> KeysHold(disk[q])
  <2>1. q \in DOMAIN disk BY DEF DeriveInv, LastInv
  <2> QED BY <2>1, LintFinds DEF DeriveInv, FilesInv, IsFile, IsTurn
<1>2. \A q \in Written : last.from[q].match = "none" /\ KeysHold(last.from[q]) => KeysHold(disk[q])
  BY DEF DeriveInv, LastInv
<1> QED BY <1>1, <1>2 DEF KeysKept

\* The lineage of a recording names, in their order, behaviors of files it was really derived from,
\* and a command that stamps it names the behavior it has read (graft.go, port.go, distill.go).
THEOREM LineageTrueCorrect == DeriveSpec => []LineageTrue
BY DeriveInvHolds, InvLineage, PTL

\* A command that reads a recording that replays what it is asked leaves one that does, if no match
\* config decides the keys; and lint reports a stale key exactly in a recording that does not
\* (lint.go, the derivation commands).
THEOREM KeysKeptCorrect == DeriveSpec => []KeysKept
BY DeriveInvHolds, InvKeys, PTL

(***************************************************************************)
(* What a shrunk corpus shows                                              *)
(***************************************************************************)

\* The answers of the recordings call finitely many tools, since streams are finite: AnswersFinite
\* below.
FiniteCalls == \A p \in DOMAIN disk : \A i \in DOMAIN disk[p].turns : IsFiniteSet(DOMAIN TurnOf(disk[p].turns[i]).tools)

Behaviors(files) == {Digest(TurnOf(t)) : t \in UNION {{f.turns[i] : i \in CountedTurns(f)} : f \in files}}

AllSignals(files) == UNION {SignalsOf(f) : f \in files}

LEMMA CellsTagged == \A it : \A c \in Cells(it) : c[1] # "digest"
<1> SUFFICES ASSUME NEW it, NEW c \in Cells(it) PROVE c[1] # "digest" OBVIOUS
<1> DEFINE t == TurnOf(it)
           A == {<<"tool", t.tools[k].name>> : k \in DOMAIN t.tools}
           B == {<<"finish", r>> : r \in {t.finish} \ {""}}
           C == {<<"refusal", ClassifyRefusal(t)>>}
           D == {<<"provider", it.dialect>>}
<1>1. Cells(it) = D \cup (IF it.streaming THEN A \cup B \cup C ELSE {}) BY DEF Cells
<1> HIDE DEF t
<1>2. \A x \in A : x[1] = "tool" OBVIOUS
<1>3. \A x \in B : x[1] = "finish"
  <2> TAKE x \in B
  <2>1. PICK r \in {t.finish} \ {""} : x = <<"finish", r>> OBVIOUS
  <2> QED BY <2>1
<1>4. \A x \in C : x[1] = "refusal" OBVIOUS
<1>5. \A x \in D : x[1] = "provider" OBVIOUS
<1> HIDE DEF A, B, C, D
<1>6. c \in A \/ c \in B \/ c \in C \/ c \in D BY <1>1
<1>7. c[1] \in {"tool", "finish", "refusal", "provider"} BY <1>2, <1>3, <1>4, <1>5, <1>6
<1> QED BY <1>7

LEMMA CellsFinite ==
  ASSUME NEW it, IsFiniteSet(DOMAIN TurnOf(it).tools)
  PROVE  IsFiniteSet(Cells(it))
<1> DEFINE t == TurnOf(it)
           A == {<<"tool", t.tools[k].name>> : k \in DOMAIN t.tools}
           B == {<<"finish", r>> : r \in {t.finish} \ {""}}
           C == {<<"refusal", ClassifyRefusal(t)>>}
           D == {<<"provider", it.dialect>>}
<1>1. Cells(it) = D \cup (IF it.streaming THEN (A \cup B) \cup C ELSE {}) BY DEF Cells
<1>2. IsFiniteSet(A)
  <2> DEFINE g == [k \in DOMAIN t.tools |-> <<"tool", t.tools[k].name>>]
  <2>1. A = {g[k] : k \in DOMAIN g} /\ DOMAIN g = DOMAIN t.tools OBVIOUS
  <2> HIDE DEF g, A
  <2> QED BY <2>1, ImageFinite
<1>3. IsFiniteSet(B)
  <2>1. B \subseteq {<<"finish", t.finish>>} OBVIOUS
  <2>2. IsFiniteSet({<<"finish", t.finish>>}) BY FS_Singleton
  <2> HIDE DEF B
  <2> QED BY <2>1, <2>2, FS_Subset
<1>4. IsFiniteSet(C) /\ IsFiniteSet(D) BY FS_Singleton
<1> HIDE DEF A, B, C, D
<1>5. IsFiniteSet(A \cup B) BY <1>2, <1>3, FS_Union
<1>6. IsFiniteSet((A \cup B) \cup C) BY <1>4, <1>5, FS_Union
<1>7. IsFiniteSet(D \cup ((A \cup B) \cup C)) BY <1>4, <1>6, FS_Union
<1> QED BY <1>1, <1>4, <1>7

LEMMA SignalsAre ==
  ASSUME NEW f
  PROVE  /\ \A c : c \in Coverage({f}) <=> \E i \in CountedTurns(f) : c \in Cells(f.turns[i])
         /\ \A c : c \in SignalsOf(f) <=> \/ \E i \in CountedTurns(f) : c = <<"digest", Digest(TurnOf(f.turns[i]))>>
                                          \/ c \in Coverage({f})
<1>1. \A c : c \in Coverage({f}) <=> \E i \in CountedTurns(f) : c \in Cells(f.turns[i])
  BY DEF Coverage
<1> DEFINE U == {<<"digest", Digest(TurnOf(f.turns[i]))>> : i \in CountedTurns(f)}
<1>2. \A c : c \in U <=> \E i \in CountedTurns(f) : c = <<"digest", Digest(TurnOf(f.turns[i]))>> OBVIOUS
<1>3. SignalsOf(f) = U \cup Coverage({f}) BY DEF SignalsOf
<1> HIDE DEF U
<1> QED BY <1>1, <1>2, <1>3

LEMMA SignalsFinite ==
  ASSUME NEW f, IsFiniteSet(DOMAIN f.turns), \A i \in DOMAIN f.turns : IsFiniteSet(DOMAIN TurnOf(f.turns[i]).tools)
  PROVE  IsFiniteSet(SignalsOf(f))
<1> DEFINE K == CountedTurns(f)
           D == {<<"digest", Digest(TurnOf(f.turns[i]))>> : i \in K}
           E == {Cells(f.turns[i]) : i \in K}
<1>1. K \subseteq DOMAIN f.turns BY DEF CountedTurns
<1>2. IsFiniteSet(K) BY <1>1, FS_Subset
<1>3. SignalsOf(f) = D \cup UNION E
  <2>1. \A c : c \in D <=> \E i \in K : c = <<"digest", Digest(TurnOf(f.turns[i]))>> OBVIOUS
  <2>2. \A c : c \in UNION E <=> \E i \in K : c \in Cells(f.turns[i]) OBVIOUS
  <2> HIDE DEF D, E
  <2>3. \A c : c \in SignalsOf(f) <=> c \in D \/ c \in UNION E BY <2>1, <2>2, SignalsAre
  <2> QED BY <2>3
<1> HIDE DEF K
<1>4. IsFiniteSet(D)
  <2> DEFINE g == [i \in K |-> <<"digest", Digest(TurnOf(f.turns[i]))>>]
  <2>1. D = {g[i] : i \in DOMAIN g} /\ DOMAIN g = K OBVIOUS
  <2> HIDE DEF g, D
  <2> QED BY <1>2, <2>1, ImageFinite
<1>5. IsFiniteSet(E)
  <2> DEFINE g == [i \in K |-> Cells(f.turns[i])]
  <2>1. E = {g[i] : i \in DOMAIN g} /\ DOMAIN g = K OBVIOUS
  <2> HIDE DEF g, E
  <2> QED BY <1>2, <2>1, ImageFinite
<1>6. \A T \in E : IsFiniteSet(T) BY <1>1, CellsFinite
<1> HIDE DEF D, E
<1>7. IsFiniteSet(UNION E) BY <1>5, <1>6, FS_UNION
<1> QED BY <1>3, <1>4, <1>7, FS_Union

\* The digests and the cells of some recordings can be told from their signals.
LEMMA SignalsTell ==
  ASSUME NEW F, NEW G, AllSignals(F) = AllSignals(G)
  PROVE  Coverage(F) = Coverage(G) /\ Behaviors(F) = Behaviors(G)
<1>1. ASSUME NEW f, NEW c PROVE c \in Coverage({f}) <=> c \in SignalsOf(f) /\ c[1] # "digest"
  <2>1. c \in Coverage({f}) => c[1] # "digest"
    <3>1. c \in Coverage({f}) => \E i \in CountedTurns(f) : c \in Cells(f.turns[i]) BY SignalsAre
    <3> QED BY <3>1, CellsTagged
  <2>2. ASSUME NEW i, c = <<"digest", Digest(TurnOf(f.turns[i]))>> PROVE c[1] = "digest" BY <2>2
  <2>3. c \in SignalsOf(f) <=> (\E i \in CountedTurns(f) : c = <<"digest", Digest(TurnOf(f.turns[i]))>>) \/ c \in Coverage({f})
    BY SignalsAre
  <2> QED BY <2>1, <2>2, <2>3
<1>2. ASSUME NEW f, NEW b
      PROVE  <<"digest", b>> \in SignalsOf(f) <=> \E i \in CountedTurns(f) : b = Digest(TurnOf(f.turns[i]))
  <2> DEFINE c == <<"digest", b>>
  <2>1. c[1] = "digest" OBVIOUS
  <2>2. \A d : c = <<"digest", d>> <=> b = d OBVIOUS
  <2> HIDE DEF c
  <2>3. ~(c \in Coverage({f})) BY <1>1, <2>1
  <2>4. c \in SignalsOf(f) <=> \E i \in CountedTurns(f) : c = <<"digest", Digest(TurnOf(f.turns[i]))>>
    BY <2>3, SignalsAre
  <2>5. c \in SignalsOf(f) <=> \E i \in CountedTurns(f) : b = Digest(TurnOf(f.turns[i])) BY <2>2, <2>4
  <2> QED BY <2>5 DEF c
<1>3. ASSUME NEW H PROVE Coverage(H) = {c \in AllSignals(H) : c[1] # "digest"}
  <2>1. \A c : c \in Coverage(H) <=> \E f \in H : \E i \in CountedTurns(f) : c \in Cells(f.turns[i])
    BY DEF Coverage
  <2>2. \A c : c \in Coverage(H) <=> \E f \in H : c \in Coverage({f}) BY <2>1, SignalsAre
  <2>3. \A c : c \in AllSignals(H) <=> \E f \in H : c \in SignalsOf(f) BY DEF AllSignals
  <2>4. \A c : c \in Coverage(H) <=> c \in AllSignals(H) /\ c[1] # "digest" BY <1>1, <2>2, <2>3
  <2> QED BY <2>4
<1>4. ASSUME NEW H PROVE \A b : b \in Behaviors(H) <=> <<"digest", b>> \in AllSignals(H)
  <2>1. \A b : b \in Behaviors(H) <=> \E f \in H : \E i \in CountedTurns(f) : b = Digest(TurnOf(f.turns[i]))
    BY DEF Behaviors
  <2>2. \A c : c \in AllSignals(H) <=> \E f \in H : c \in SignalsOf(f) BY DEF AllSignals
  <2> TAKE b
  <2>3. <<"digest", b>> \in AllSignals(H) <=> \E f \in H : <<"digest", b>> \in SignalsOf(f) BY <2>2
  <2>4. b \in Behaviors(H) <=> \E f \in H : \E i \in CountedTurns(f) : b = Digest(TurnOf(f.turns[i])) BY <2>1
  <2>5. \A f : <<"digest", b>> \in SignalsOf(f) <=> \E i \in CountedTurns(f) : b = Digest(TurnOf(f.turns[i])) BY <1>2
  <2> QED BY <2>3, <2>4, <2>5
<1>5. Coverage(F) = Coverage(G) BY <1>3
<1>6. \A b : b \in Behaviors(F) <=> b \in Behaviors(G) BY <1>4
<1>7. Behaviors(F) = Behaviors(G) BY <1>6 DEF Behaviors
<1> QED BY <1>5, <1>7

LEMMA ShrinkCoversStep ==
  ASSUME DeriveInv, FiniteCalls, NEW dirs \in Dirs, ShrinkCorpus(dirs)
  PROVE  ShrinkCovers'
<1> DEFINE L == Listed(dirs[1])
           kept == Shrink([p \in L |-> disk[p]])
           from == Copies(kept, dirs[2])
<1>1. kept \subseteq L /\ L \subseteq DOMAIN disk BY ShrinkWithin DEF Listed
<1>2. dirs[1] # dirs[2] BY DEF Dirs
<1>3. /\ DOMAIN disk' = DOMAIN from \cup DOMAIN disk
      /\ \A q \in DOMAIN from : disk'[q] = disk[from[q]]
      /\ \A q \in DOMAIN disk \ DOMAIN from : disk'[q] = disk[q]
  <2> DEFINE read == [q \in DOMAIN from |-> disk[from[q]]]
  <2>1. disk' = Over(read, disk) BY DEF ShrinkCorpus
  <2>2. DOMAIN read = DOMAIN from /\ \A q \in DOMAIN from : read[q] = disk[from[q]] OBVIOUS
  <2> HIDE DEF read, from
  <2> QED BY <2>1, <2>2 DEF Over
<1>4. last'.op = "shrink" /\ last'.to = dirs[1] /\ Written' = DOMAIN from
  BY DEF ShrinkCorpus, Toward, EditOf, Written
<1>13. /\ DOMAIN from = {Into(dirs[2], p) : p \in kept}
       /\ \A q \in DOMAIN from : from[q] \in kept /\ Into(dirs[2], from[q]) = q
  <2> HIDE DEF kept
  <2> QED BY CopiesFrom
<1> HIDE DEF from
<1>5. AllSignals({disk[p] : p \in kept}) = AllSignals({disk[p] : p \in L})
  <2> DEFINE s == [p \in L |-> SignalsOf(disk[p])]
  <2>1. kept = Cover(s)
    <3> DEFINE files == [p \in L |-> disk[p]]
               fromFiles == [p \in DOMAIN files |-> SignalsOf(files[p])]
    <3>1. fromFiles = s OBVIOUS
    <3>2. Shrink(files) = Cover(fromFiles) BY DEF Shrink
    <3> HIDE DEF fromFiles, files, s
    <3>3. Shrink(files) = Cover(s) BY <3>1, <3>2
    <3> QED BY <3>3 DEF files
  <2>2. DOMAIN s = L /\ \A p \in L : s[p] = SignalsOf(disk[p]) OBVIOUS
  <2> HIDE DEF s, kept, L
  <2>3. IsFiniteSet(L) BY ShrinkWithin DEF L
  <2>4. \A p \in L : IsFiniteSet(s[p])
    <3> TAKE p \in L
    <3>1. p \in DOMAIN disk BY <1>1
    <3>2. IsFiniteSet(DOMAIN disk[p].turns)
      <4>1. DOMAIN disk[p].turns = 1 .. Len(disk[p].turns) /\ Len(disk[p].turns) \in Nat
        BY <3>1, LenProperties DEF DeriveInv, FilesInv, IsFile
      <4> QED BY <4>1, FS_Interval
    <3>3. \A i \in DOMAIN disk[p].turns : IsFiniteSet(DOMAIN TurnOf(disk[p].turns[i]).tools) BY <3>1 DEF FiniteCalls
    <3>4. IsFiniteSet(SignalsOf(disk[p])) BY <3>2, <3>3, SignalsFinite
    <3> QED BY <2>2, <3>4
  <2>5. UNION {s[k] : k \in Cover(s)} = UNION {s[p] : p \in DOMAIN s} BY <2>2, <2>3, <2>4, CoverCovers
  <2>6. \A c : c \in AllSignals({disk[p] : p \in L}) <=> \E p \in L : c \in s[p] BY <2>2 DEF AllSignals
  <2>7. \A c : c \in AllSignals({disk[p] : p \in kept}) <=> \E p \in kept : c \in s[p] BY <1>1, <2>2 DEF AllSignals
  <2>8. \A c : (\E p \in kept : c \in s[p]) <=> \E p \in L : c \in s[p]
    <3>1. \A c : c \in UNION {s[k] : k \in Cover(s)} <=> \E p \in kept : c \in s[p] BY <2>1
    <3>2. \A c : c \in UNION {s[p] : p \in DOMAIN s} <=> \E p \in L : c \in s[p] BY <2>2
    <3> QED BY <2>5, <3>1, <3>2
  <2>9. \A c : c \in AllSignals({disk[p] : p \in kept}) <=> c \in AllSignals({disk[p] : p \in L}) BY <2>6, <2>7, <2>8
  <2> QED BY <2>9 DEF AllSignals
<1> HIDE DEF L
<1>6. \A p \in DOMAIN disk : IsPath(p) BY DEF DeriveInv, FilesInv
<1>7. \A p \in L : p[1] = dirs[1] BY DEF Listed, L
<1>8. {disk'[q] : q \in DOMAIN from} = {disk[p] : p \in kept}
  <2> HIDE DEF kept
  <2>1. \A q \in DOMAIN from : from[q] \in kept BY <1>13
  <2>2. \A p \in kept : \E q \in DOMAIN from : from[q] = p
    <3> TAKE p \in kept
    <3> DEFINE q == Into(dirs[2], p)
    <3>1. q \in DOMAIN from /\ from[q] \in kept /\ Into(dirs[2], from[q]) = q BY <1>13
    <3>2. IsPath(p) /\ IsPath(from[q]) /\ from[q][1] = p[1] BY <1>1, <1>6, <1>7, <3>1
    <3>3. from[q] = p BY <3>1, <3>2, PathFacts
    <3> QED BY <3>1, <3>3
  <2> QED BY <1>3, <2>1, <2>2
<1>9. Listed(dirs[1])' = L /\ {disk'[p] : p \in L} = {disk[p] : p \in L}
  <2>1. \A q \in DOMAIN from : q[1] = dirs[2]
    <3> HIDE DEF kept
    <3>1. \A p \in kept : Into(dirs[2], p)[1] = dirs[2]
      <4> TAKE p \in kept
      <4>1. IsPath(p) BY <1>1, <1>6
      <4> QED BY <4>1, PathFacts
    <3> QED BY <3>1, <1>13
  <2>2. \A p \in DOMAIN disk' : p[1] = dirs[1] <=> p \in L BY <1>1, <1>2, <1>3, <1>7, <2>1 DEF L, Listed
  <2>3. \A p \in L : disk'[p] = disk[p] BY <1>1, <1>2, <1>3, <1>7, <2>1
  <2>4. L \subseteq DOMAIN disk' BY <1>1, <1>3
  <2>5. Listed(dirs[1])' = {p \in DOMAIN disk' : p[1] = dirs[1]} BY DEF Listed
  <2> QED BY <2>2, <2>3, <2>4, <2>5
<1> HIDE DEF kept
<1> DEFINE corpus == {disk[p] : p \in L}
           copied == {disk[p] : p \in kept}
<1>10. Coverage(copied) = Coverage(corpus) /\ Behaviors(copied) = Behaviors(corpus) BY <1>5, SignalsTell
<1>11. Listed(last.to)' = L BY <1>4, <1>9 DEF Listed
<1>12. ({disk[p] : p \in Listed(last.to)})' = corpus /\ ({disk[q] : q \in Written})' = copied
  BY <1>4, <1>8, <1>9, <1>11
<1> HIDE DEF corpus, copied
<1> QED BY <1>10, <1>12 DEF ShrinkCovers, Behaviors

LEMMA ShrinkCoversKept == DeriveInv /\ FiniteCalls /\ ShrinkCovers /\ [DeriveNext]_deriveVars => ShrinkCovers'
<1> SUFFICES ASSUME DeriveInv, FiniteCalls, ShrinkCovers, [DeriveNext]_deriveVars PROVE ShrinkCovers' OBVIOUS
<1>1. CASE \E dirs \in Dirs : ShrinkCorpus(dirs) BY <1>1, ShrinkCoversStep
<1>2. CASE DeriveNext /\ ~\E dirs \in Dirs : ShrinkCorpus(dirs)
  <2>1. last'.op # "shrink" BY <1>2, OtherStep
  <2> QED BY <2>1 DEF ShrinkCovers
<1>3. CASE UNCHANGED deriveVars BY <1>3 DEF deriveVars, ShrinkCovers, Listed, Written
<1> QED BY <1>1, <1>2, <1>3

(***************************************************************************)
(* Canonical recordings                                                    *)
(***************************************************************************)

\* A turn the codec preserves and canonicalize leaves alone is written as the encoder writes it.
LEMMA SettledBody ==
  ASSUME NEW it, CodecVerdict(it) = "ok", CanonicalTurn(it) = it
  PROVE  it.body = Encode(it.dialect, TurnOf(it))
<1> DEFINE trip == RoundTrip(it.dialect, it.body)
           canonical == Encode(it.dialect, TurnOf(it))
<1>1. Streamed(it) /\ ~trip.failed /\ trip.stable BY DEF CodecVerdict
<1>2. CanonicalTurn(it) = IF trip.failed \/ ~trip.stable \/ canonical = it.body THEN it
                          ELSE Answered(it, it.streaming, canonical)
  BY <1>1 DEF CanonicalTurn
<1> HIDE DEF trip, canonical
<1>3. Answered(it, it.streaming, canonical).body = canonical BY DEF Answered
<1>4. it.body = canonical BY <1>1, <1>2, <1>3
<1> QED BY <1>4 DEF canonical

LEMMA EncodeNormal ==
  ASSUME NEW p, NEW s, NEW t, Equal(s, t)
  PROVE  Encode(p, s) = Encode(p, t)
<1>1. Normalize(s) = Normalize(t) BY DEF Equal, Digest
<1> QED BY <1>1 DEF Encode

LEMMA CanonicalTurns ==
  ASSUME NEW f, IsFile(f), IsCanonical(f), NEW i \in DOMAIN f.turns
  PROVE  CanonicalTurn(f.turns[i]) = f.turns[i]
<1> DEFINE turns == [k \in DOMAIN f.turns |-> CanonicalTurn(f.turns[k])]
<1>1. [f EXCEPT !.turns = turns] = f BY DEF IsCanonical, CanonicalizeFile
<1> HIDE DEF turns
<1>2. [f EXCEPT !.turns = turns].turns = turns BY DEF IsFile
<1>3. f.turns = turns BY <1>1, <1>2
<1>4. turns[i] = CanonicalTurn(f.turns[i]) BY DEF turns
<1> QED BY <1>3, <1>4

LEMMA InvCanonical == DeriveInv => CanonicalUnique
<1> SUFFICES ASSUME DeriveInv PROVE CanonicalUnique OBVIOUS
<1> DEFINE Settled(f) == {f.turns[i] : i \in {k \in DOMAIN f.turns : CodecVerdict(f.turns[k]) = "ok"}}
           Canonical(paths) == UNION {Settled(disk[r]) : r \in {p \in paths : IsCanonical(disk[p])}}
<1>1. ASSUME NEW paths, paths \subseteq DOMAIN disk, NEW a \in Canonical(paths)
      PROVE  a.body = Encode(a.dialect, TurnOf(a))
  <2>1. PICK r \in paths : IsCanonical(disk[r]) /\ a \in Settled(disk[r]) BY <1>1
  <2>2. PICK i \in DOMAIN disk[r].turns : CodecVerdict(disk[r].turns[i]) = "ok" /\ a = disk[r].turns[i] BY <2>1
  <2>3. IsFile(disk[r]) BY <1>1 DEF DeriveInv, FilesInv
  <2> QED BY <2>1, <2>2, <2>3, CanonicalTurns, SettledBody
<1>2. Written \subseteq DOMAIN disk BY DEF DeriveInv, LastInv
<1> HIDE DEF Canonical, Settled
<1>3. \A a \in Canonical(Written) : a.body = Encode(a.dialect, TurnOf(a)) BY <1>1, <1>2
<1>4. \A b \in Canonical(DOMAIN disk) : b.body = Encode(b.dialect, TurnOf(b)) BY <1>1
<1>5. \A a \in Canonical(Written), b \in Canonical(DOMAIN disk) :
        a.dialect = b.dialect /\ Equal(TurnOf(a), TurnOf(b)) => a.body = b.body
  BY <1>3, <1>4, EncodeNormal
<1> QED BY <1>5 DEF CanonicalUnique, Canonical, Settled

\* A recording that a command has written and another one, both canonical, hold the same bytes of
\* the same turn in one dialect, if the codec preserves it (canonicalize.go, wireenc.go).
THEOREM CanonicalUniqueCorrect == DeriveSpec => []CanonicalUnique
BY DeriveInvHolds, InvCanonical, PTL

(***************************************************************************)
(* What holds no stream                                                    *)
(***************************************************************************)

\* Not being there is no stream.
LEMMA AbsentIs == Absent \notin Streams
<1>1. SUFFICES ASSUME Absent \in Streams PROVE FALSE OBVIOUS
<1>2. Absent[1] = [type |-> "absent"] /\ Len(Absent) = 1 BY DEF Absent
<1>3. Absent[1] \in Events(Symbols) BY <1>1, <1>2, ElementOfSeq DEF Streams
<1>4. PICK a : a = [type |-> "absent"] OBVIOUS
<1>5. a \in Events(Symbols) /\ a.type = "absent" BY <1>2, <1>3, <1>4
<1>6. \A x \in Events(Symbols) : x.type # "absent" BY DEF Events
<1> QED BY <1>5, <1>6

(***************************************************************************)
(* Places in order                                                         *)
(***************************************************************************)

Noted(numbers, got, i) == IF i \in numbers THEN Append(got, i) ELSE got

NotedIn(numbers, ss) == Folded(LAMBDA got, i : IF i \in numbers THEN Append(got, i) ELSE got, <<>>, ss)

\* The fold that notes them, step by step.
LEMMA NotedDef ==
  ASSUME NEW numbers, NEW ss, Len(ss) \in Nat
  PROVE  \E f : /\ f = [k \in 0 .. Len(ss) |-> IF k = 0 THEN <<>> ELSE Noted(numbers, f[k - 1], ss[k])]
               /\ NotedIn(numbers, ss) = f[Len(ss)]
<1> DEFINE Fold(g, m) == g = [k \in 0 .. m |-> IF k = 0 THEN <<>> ELSE Noted(numbers, g[k - 1], ss[k])]
           P == {m \in Nat : \E g : Fold(g, m)}
<1>1. 0 \in P
  <2>1. Fold([k \in 0 .. 0 |-> <<>>], 0) OBVIOUS
  <2> QED BY <2>1
<1>2. ASSUME NEW m \in Nat, m \in P PROVE m + 1 \in P
  <2>1. PICK g : Fold(g, m) BY <1>2
  <2> DEFINE h == [k \in 0 .. (m + 1) |-> IF k <= m THEN g[k] ELSE Noted(numbers, g[m], ss[(m + 1)])]
  <2>2. ASSUME NEW k \in 0 .. (m + 1)
        PROVE  h[k] = IF k = 0 THEN <<>> ELSE Noted(numbers, h[k - 1], ss[k])
    <3>1. CASE k = 0 BY <2>1, <3>1
    <3>2. CASE k \in 1 .. m
      <4>1. h[k] = g[k] /\ h[k - 1] = g[k - 1] BY <3>2
      <4>2. \A j \in 0 .. m : g[j] = IF j = 0 THEN <<>> ELSE Noted(numbers, g[j - 1], ss[j]) BY <2>1
      <4>3. g[k] = Noted(numbers, g[k - 1], ss[k]) BY <3>2, <4>2
      <4> QED BY <3>2, <4>1, <4>3
    <3>3. CASE k = m + 1
      <4>1. h[k] = Noted(numbers, g[m], ss[k]) /\ h[k - 1] = g[m] BY <3>3
      <4> QED BY <3>3, <4>1
    <3> QED BY <3>1, <3>2, <3>3
  <2>3. Fold(h, m + 1) BY <2>2
  <2> HIDE DEF h, Fold
  <2>4. \E x : Fold(x, m + 1) BY <2>3
  <2> QED BY <2>4
<1>3. Len(ss) \in P
  <2> HIDE DEF P
  <2>1. PICK l \in Nat : l = Len(ss) OBVIOUS
  <2>2. \A n \in 0 .. (l - 1) : n \in P => n + 1 \in P BY <1>2, <2>1
  <2>3. \A n \in 0 .. l : n \in P BY <1>1, <2>2, SetInduction
  <2> QED BY <2>1, <2>3
<1>4. PICK g : Fold(g, Len(ss)) BY <1>3
<1>5. NotedIn(numbers, ss) = (CHOOSE x : Fold(x, Len(ss)))[Len(ss)] BY DEF NotedIn, Folded, Noted
<1> HIDE DEF Fold
<1>6. Fold((CHOOSE x : Fold(x, Len(ss))), Len(ss)) BY <1>4
<1> QED BY <1>5, <1>6 DEF Fold

Ascends(s) == \A i, j \in DOMAIN s : i < j => s[i] < s[j]

\* The numbers noted up to k.
NotedTo(s, numbers, k) ==
  /\ s \in Seq((1 .. k) \cap numbers) /\ Ascends(s)
  /\ \A i \in (1 .. k) \cap numbers : \E j \in DOMAIN s : s[j] = i

LEMMA NotedMore ==
  ASSUME NEW k \in Nat, NEW numbers, NEW s, NotedTo(s, numbers, k), NEW t, t = Noted(numbers, s, k + 1)
  PROVE  NotedTo(t, numbers, k + 1)
<1> DEFINE A == (1 .. k) \cap numbers
           B == (1 .. (k + 1)) \cap numbers
<1>1. s \in Seq(A) /\ A \subseteq B /\ A \subseteq 1 .. k BY DEF NotedTo
<1>2. s \in Seq(B) BY <1>1, SeqMonotonic
<1>3. PICK n \in Nat : n = Len(s) /\ DOMAIN s = 1 .. n BY <1>1, LenProperties
<1>4. \A j \in 1 .. n : s[j] \in A BY <1>1, <1>3, ElementOfSeq
<1>5. \A i \in A : \E j \in 1 .. n : s[j] = i BY <1>3 DEF NotedTo
<1>6. \A i, j \in 1 .. n : i < j => s[i] < s[j] BY <1>3 DEF NotedTo, Ascends
<1>7. CASE k + 1 \notin numbers
  <2>1. A = B BY <1>7
  <2>2. t = s BY <1>7 DEF Noted
  <2> QED BY <1>2, <1>3, <1>5, <1>6, <2>1, <2>2 DEF NotedTo, Ascends
<1>8. CASE k + 1 \in numbers
  <2>1. k + 1 \in B BY <1>8
  <2>2. \A i \in B : i \in A \/ i = k + 1 OBVIOUS
  <2>3. t = Append(s, k + 1) BY <1>8 DEF Noted
  <2> HIDE DEF B
  <2>4. /\ t \in Seq(B) /\ DOMAIN t = 1 .. (n + 1)
        /\ \A j \in 1 .. n : t[j] = s[j]
        /\ t[n + 1] = k + 1
    BY <1>2, <1>3, <2>1, <2>3, AppendProperties, LenProperties
  <2>5. Ascends(t)
    <3>1. ASSUME NEW i \in 1 .. (n + 1), NEW j \in 1 .. (n + 1), i < j PROVE t[i] < t[j]
      <4>1. i \in 1 .. n BY <3>1
      <4>2. t[i] = s[i] /\ s[i] \in 1 .. k BY <1>1, <1>4, <2>4, <4>1
      <4>3. CASE j \in 1 .. n BY <1>6, <2>4, <3>1, <4>1, <4>2, <4>3
      <4>4. CASE j = n + 1 BY <2>4, <4>2, <4>4
      <4> QED BY <3>1, <4>3, <4>4
    <3> QED BY <2>4, <3>1 DEF Ascends
  <2>6. ASSUME NEW i \in B PROVE \E j \in DOMAIN t : t[j] = i
    <3>1. CASE i = k + 1
      <4>1. n + 1 \in DOMAIN t BY <2>4
      <4> QED BY <2>4, <3>1, <4>1
    <3>2. CASE i \in A
      <4>1. PICK j \in 1 .. n : s[j] = i BY <1>5, <3>2
      <4>2. j \in DOMAIN t BY <2>4
      <4> QED BY <2>4, <4>1, <4>2
    <3> QED BY <2>2, <3>1, <3>2
  <2> QED BY <2>4, <2>5, <2>6 DEF NotedTo, B
<1> QED BY <1>7, <1>8

\* The numbers of a set up to n, each of them and in order.
LEMMA InOrderIs ==
  ASSUME NEW n \in Nat, NEW numbers
  PROVE  NotedTo(InOrder(n, numbers), numbers, n)
<1>1. PICK ss : ss = [i \in 1 .. n |-> i] OBVIOUS
<1>2. Len(ss) = n /\ \A k \in 1 .. n : ss[k] = k BY <1>1
<1>3. PICK l \in Nat : l = Len(ss) BY <1>2
<1>4. InOrder(n, numbers) = NotedIn(numbers, ss) BY <1>1 DEF InOrder, NotedIn
<1>5. \E f : /\ f = [k \in 0 .. Len(ss) |-> IF k = 0 THEN <<>> ELSE Noted(numbers, f[k - 1], ss[k])]
              /\ NotedIn(numbers, ss) = f[Len(ss)]
  BY <1>2, NotedDef, Zenon
<1>6. PICK f : /\ f = [k \in 0 .. n |-> IF k = 0 THEN <<>> ELSE Noted(numbers, f[k - 1], ss[k])]
               /\ NotedIn(numbers, ss) = f[n]
  BY <1>2, <1>5
<1> DEFINE P == {k \in 0 .. n : NotedTo(f[k], numbers, k)}
<1>7. 0 \in P
  <2>1. f[0] = <<>> BY <1>6
  <2>2. NotedTo(<<>>, numbers, 0) BY DEF NotedTo, Ascends
  <2> QED BY <2>1, <2>2
<1>8. ASSUME NEW k \in 0 .. (n - 1), k \in P PROVE k + 1 \in P
  <2>1. k + 1 \in 1 .. n /\ (k + 1) - 1 = k /\ k \in Nat /\ k + 1 \in 0 .. n OBVIOUS
  <2>2. f[k + 1] = Noted(numbers, f[k], k + 1) BY <1>2, <1>6, <2>1
  <2>3. NotedTo(f[k + 1], numbers, k + 1) BY <1>8, <2>1, <2>2, NotedMore
  <2> QED BY <2>1, <2>3
<1> HIDE DEF P
<1>9. \A k \in 0 .. n : k \in P BY <1>7, <1>8, SetInduction
<1> QED BY <1>4, <1>6, <1>9 DEF P

(***************************************************************************)
(* Edits of turns                                                          *)
(***************************************************************************)

LEMMA WordsHold == Words \subseteq Symbols /\ Seq(Words) \subseteq Seq(Symbols)
<1>1. Words \subseteq Symbols BY DEF Symbols
<1>2. Seq(Words) \subseteq Seq(Symbols) BY <1>1, SeqMonotonic
<1> QED BY <1>1, <1>2

LEMMA DocumentText == ASSUME NEW d \in DOMAIN Canon PROVE d \in Seq(Symbols)
BY CanonAssumption, WordsHold

LEMMA EmptyDocument == EmptyObject \in Seq(Symbols) /\ Unexpected \in Seq(Symbols)
BY DocumentText, CanonAssumption, UnexpectedAssumption DEF Valid

\* A call that is made of what it is named and asked.
LEMMA CallMade == ASSUME NEW name \in Symbols, NEW args \in Seq(Symbols) PROVE ToolCall(name, args) \in ToolCalls
BY CanonicalFragments DEF ToolCall, ToolCalls

\* A call that is replaced.
LEMMA CallReplaced ==
  ASSUME NEW tools \in Seq(ToolCalls), NEW k \in DOMAIN tools, NEW c \in ToolCalls, NEW w, w = [tools EXCEPT ![k] = c]
  PROVE  w \in Seq(ToolCalls) /\ DOMAIN w = DOMAIN tools
<1>1. PICK n \in Nat : n = Len(tools) /\ DOMAIN tools = 1 .. n BY LenProperties
<1>2. \A j \in 1 .. n : tools[j] \in ToolCalls BY <1>1, ElementOfSeq
<1>3. DOMAIN w = 1 .. n /\ w = [j \in 1 .. n |-> w[j]] BY <1>1
<1>4. \A j \in 1 .. n : w[j] \in ToolCalls BY <1>1, <1>2
<1>5. w \in [1 .. n -> ToolCalls] BY <1>3, <1>4
<1> QED BY <1>1, <1>3, <1>5, SeqDef

\* An edit that does not fail keeps the calls, but for the name and the arguments of one.
LEMMA EditedTold ==
  ASSUME NEW t, Told(t), NEW e \in EditsOf(Words), e.slot \in {"name", "args"} => e.index \in DOMAIN t.tools,
         NEW q, q = Edited(t, e)
  PROVE  Told(q) /\ DOMAIN q.tools = DOMAIN t.tools
<1>1. PICK text \in Seq(Symbols), tools \in Seq(ToolCalls), reason \in Symbols : t = Transcript(text, tools, reason) BY DEF Told
<1>2. t.text = text /\ t.tools = tools /\ t.finish = reason BY <1>1, TranscriptIs
<1>3. t = [role |-> "assistant", text |-> text, tools |-> tools, finish |-> reason] BY <1>1 DEF Transcript
<1>4. e.slot \in {"text", "append", "finish", "name", "args"} /\ e.word \in Symbols /\ e.text \in Seq(Symbols)
  BY WordsHold DEF EditsOf
<1>5. ASSUME NEW a \in Seq(Symbols), NEW w \in Seq(ToolCalls), NEW b \in Symbols, DOMAIN w = DOMAIN tools, q = Transcript(a, w, b)
      PROVE  Told(q) /\ DOMAIN q.tools = DOMAIN t.tools
  <2>1. q.tools = w BY <1>5, TranscriptIs
  <2> QED BY <1>2, <1>5, <2>1 DEF Told
<1>6. CASE e.slot = "text"
  <2>1. q = [t EXCEPT !.text = e.text] BY <1>6 DEF Edited
  <2>2. q = Transcript(e.text, tools, reason) BY <1>3, <2>1 DEF Transcript
  <2> QED BY <1>4, <1>5, <2>2
<1>7. CASE e.slot = "append"
  <2>1. PICK a : a = text \o e.text OBVIOUS
  <2>2. a \in Seq(Symbols) BY <1>4, <2>1, ConcatProperties
  <2>3. q = [t EXCEPT !.text = a] BY <1>2, <1>7, <2>1 DEF Edited
  <2>4. q = Transcript(a, tools, reason) BY <1>3, <2>3 DEF Transcript
  <2> QED BY <1>5, <2>2, <2>4
<1>8. CASE e.slot = "finish"
  <2>1. q = [t EXCEPT !.finish = e.word] BY <1>8 DEF Edited
  <2>2. q = Transcript(text, tools, e.word) BY <1>3, <2>1 DEF Transcript
  <2> QED BY <1>4, <1>5, <2>2
<1>9. CASE e.slot = "name"
  <2>0. e.index \in DOMAIN tools BY <1>2, <1>9
  <2>1. PICK k \in DOMAIN tools : k = e.index BY <2>0
  <2>2. PICK c : c = tools[k] OBVIOUS
  <2>3. c \in ToolCalls BY <2>2, ElementOfSeq, LenProperties
  <2>4. PICK d : d = [c EXCEPT !.name = e.word] OBVIOUS
  <2>5. d \in ToolCalls BY <1>4, <2>3, <2>4 DEF ToolCalls
  <2>6. PICK w : w = [tools EXCEPT ![k] = d] OBVIOUS
  <2>7. w \in Seq(ToolCalls) /\ DOMAIN w = DOMAIN tools BY <2>5, <2>6, CallReplaced
  <2>8. q = [t EXCEPT !.tools[k].name = e.word] BY <1>9, <2>1 DEF Edited
  <2>9. q = [t EXCEPT !.tools = w] BY <1>3, <2>2, <2>4, <2>6, <2>8
  <2>10. q = Transcript(text, w, reason) BY <1>3, <2>9 DEF Transcript
  <2> QED BY <1>5, <2>7, <2>10
<1>10. CASE e.slot = "args"
  <2>0. e.index \in DOMAIN tools BY <1>2, <1>10
  <2>1. PICK k \in DOMAIN tools : k = e.index BY <2>0
  <2>2. PICK c : c = tools[k] OBVIOUS
  <2>3. c \in ToolCalls BY <2>2, ElementOfSeq, LenProperties
  <2>4. PICK args : args = Canonicalize(e.text) OBVIOUS
  <2>5. PICK d : d = [c EXCEPT !.args = args] OBVIOUS
  <2>6. args \in Seq(Symbols) BY <1>4, <2>4, CanonicalFragments
  <2>7. d \in ToolCalls BY <2>3, <2>5, <2>6 DEF ToolCalls
  <2>8. PICK w : w = [tools EXCEPT ![k] = d] OBVIOUS
  <2>9. w \in Seq(ToolCalls) /\ DOMAIN w = DOMAIN tools BY <2>7, <2>8, CallReplaced
  <2>10. q = [t EXCEPT !.tools[k].args = args] BY <1>10, <2>1, <2>4 DEF Edited
  <2>11. q = [t EXCEPT !.tools = w] BY <1>3, <2>2, <2>5, <2>8, <2>10
  <2>12. q = Transcript(text, w, reason) BY <1>3, <2>11 DEF Transcript
  <2> QED BY <1>5, <2>9, <2>12
<1> QED BY <1>4, <1>6, <1>7, <1>8, <1>9, <1>10

\* The edits one after the other, as an operator and step by step.
EditsFold(r, ss) == Folded(Edited, r, ss)

LEMMA EditsDef ==
  ASSUME NEW r, NEW ss, Len(ss) \in Nat
  PROVE  \E f : /\ f = [k \in 0 .. Len(ss) |-> IF k = 0 THEN r ELSE Edited(f[k - 1], ss[k])]
               /\ EditsFold(r, ss) = f[Len(ss)]
<1> DEFINE Fold(g, m) == g = [k \in 0 .. m |-> IF k = 0 THEN r ELSE Edited(g[k - 1], ss[k])]
           P == {m \in Nat : \E g : Fold(g, m)}
<1>1. 0 \in P
  <2>1. Fold([k \in 0 .. 0 |-> r], 0) OBVIOUS
  <2> QED BY <2>1
<1>2. ASSUME NEW m \in Nat, m \in P PROVE m + 1 \in P
  <2>1. PICK g : Fold(g, m) BY <1>2
  <2> DEFINE h == [k \in 0 .. (m + 1) |-> IF k <= m THEN g[k] ELSE Edited(g[m], ss[(m + 1)])]
  <2>2. ASSUME NEW k \in 0 .. (m + 1)
        PROVE  h[k] = IF k = 0 THEN r ELSE Edited(h[k - 1], ss[k])
    <3>1. CASE k = 0 BY <2>1, <3>1
    <3>2. CASE k \in 1 .. m
      <4>1. h[k] = g[k] /\ h[k - 1] = g[k - 1] BY <3>2
      <4>2. \A j \in 0 .. m : g[j] = IF j = 0 THEN r ELSE Edited(g[j - 1], ss[j]) BY <2>1
      <4>3. g[k] = Edited(g[k - 1], ss[k]) BY <3>2, <4>2
      <4> QED BY <3>2, <4>1, <4>3
    <3>3. CASE k = m + 1
      <4>1. h[k] = Edited(g[m], ss[k]) /\ h[k - 1] = g[m] BY <3>3
      <4> QED BY <3>3, <4>1
    <3> QED BY <3>1, <3>2, <3>3
  <2>3. Fold(h, m + 1) BY <2>2
  <2> HIDE DEF h, Fold
  <2>4. \E x : Fold(x, m + 1) BY <2>3
  <2> QED BY <2>4
<1>3. Len(ss) \in P
  <2> HIDE DEF P
  <2>1. PICK l \in Nat : l = Len(ss) OBVIOUS
  <2>2. \A n \in 0 .. (l - 1) : n \in P => n + 1 \in P BY <1>2, <2>1
  <2>3. \A n \in 0 .. l : n \in P BY <1>1, <2>2, SetInduction
  <2> QED BY <2>1, <2>3
<1>4. PICK g : Fold(g, Len(ss)) BY <1>3
<1>5. EditsFold(r, ss) = (CHOOSE x : Fold(x, Len(ss)))[Len(ss)] BY DEF Folded, EditsFold
<1> HIDE DEF Fold
<1>6. Fold((CHOOSE x : Fold(x, Len(ss))), Len(ss)) BY <1>4
<1> QED BY <1>5, <1>6 DEF Fold

LEMMA EditsTold ==
  ASSUME NEW t, Told(t), NEW edits \in Seq(EditsOf(Words)), ~GraftEditsFail(t, edits)
  PROVE  Told(Folded(Edited, t, edits))
<1>1. PICK n \in Nat : n = Len(edits) /\ DOMAIN edits = 1 .. n BY LenProperties
<1>2. Len(edits) \in Nat BY <1>1
<1>3. \E f : /\ f = [k \in 0 .. Len(edits) |-> IF k = 0 THEN t ELSE Edited(f[k - 1], edits[k])]
              /\ EditsFold(t, edits) = f[Len(edits)]
  BY <1>2, EditsDef, Zenon
<1>4. PICK f : /\ f = [k \in 0 .. n |-> IF k = 0 THEN t ELSE Edited(f[k - 1], edits[k])]
               /\ EditsFold(t, edits) = f[n]
  BY <1>1, <1>3
<1> DEFINE P == {k \in 0 .. n : Told(f[k]) /\ DOMAIN f[k].tools = DOMAIN t.tools}
<1>5. 0 \in P BY <1>4
<1>6. ASSUME NEW k \in 0 .. (n - 1), k \in P PROVE k + 1 \in P
  <2>1. k + 1 \in 1 .. n /\ (k + 1) - 1 = k /\ k + 1 \in 0 .. n OBVIOUS
  <2>2. PICK e : e = edits[k + 1] OBVIOUS
  <2>3. e \in EditsOf(Words) BY <1>1, <2>1, <2>2, ElementOfSeq
  <2>4. ~EditFails(t, e) BY <1>1, <2>1, <2>2 DEF GraftEditsFail
  <2>5. PICK r : r = f[k] OBVIOUS
  <2>6. Told(r) /\ DOMAIN r.tools = DOMAIN t.tools BY <1>6, <2>5
  <2>7. e.slot \in {"name", "args"} => e.index \in DOMAIN r.tools BY <2>4, <2>6 DEF EditFails
  <2>8. PICK q : q = f[k + 1] OBVIOUS
  <2>9. q = Edited(r, e) BY <1>4, <2>1, <2>2, <2>5, <2>8
  <2>10. Told(q) /\ DOMAIN q.tools = DOMAIN r.tools BY <2>3, <2>6, <2>7, <2>9, EditedTold
  <2> QED BY <2>1, <2>6, <2>8, <2>10
<1> HIDE DEF P
<1>7. \A k \in 0 .. n : k \in P BY <1>5, <1>6, SetInduction
<1>8. n \in P BY <1>7
<1>9. Told(f[n]) BY <1>8 DEF P
<1> QED BY <1>4, <1>9 DEF EditsFold

LEMMA WithoutTold ==
  ASSUME NEW t, Told(t), NEW dropped, NEW q, q = WithoutTools(t, dropped)
  PROVE  Told(q)
<1>1. PICK text \in Seq(Symbols), tools \in Seq(ToolCalls), reason \in Symbols : t = Transcript(text, tools, reason) BY DEF Told
<1>2. t.text = text /\ t.tools = tools /\ t.finish = reason BY <1>1, TranscriptIs
<1>3. t = [role |-> "assistant", text |-> text, tools |-> tools, finish |-> reason] BY <1>1 DEF Transcript
<1>4. PICK n \in Nat : n = Len(tools) /\ DOMAIN tools = 1 .. n BY LenProperties
<1>5. PICK places : places = {k \in DOMAIN tools : k \notin dropped} OBVIOUS
<1>6. PICK kept : kept = InOrder(n, places) OBVIOUS
<1>7. NotedTo(kept, places, n) BY <1>6, InOrderIs
<1>8. kept \in Seq(1 .. n)
  <2>1. (1 .. n) \cap places \subseteq 1 .. n OBVIOUS
  <2> QED BY <1>7, <2>1, SeqMonotonic DEF NotedTo
<1>9. PICK m \in Nat : m = Len(kept) /\ DOMAIN kept = 1 .. m BY <1>8, LenProperties
<1>10. \A k \in 1 .. m : kept[k] \in 1 .. n BY <1>8, <1>9, ElementOfSeq
<1>11. \A k \in 1 .. n : tools[k] \in ToolCalls BY <1>4, ElementOfSeq
<1>12. PICK w : w = [k \in DOMAIN kept |-> tools[kept[k]]] OBVIOUS
<1>13. w \in [1 .. m -> ToolCalls] BY <1>9, <1>10, <1>11, <1>12
<1>14. w \in Seq(ToolCalls) BY <1>13, SeqDef
<1>15. kept = Where(t.tools, LAMBDA k : k \notin dropped) BY <1>2, <1>4, <1>5, <1>6 DEF Where
<1>16. q = [t EXCEPT !.tools = w] BY <1>2, <1>12, <1>15 DEF WithoutTools
<1>17. q = Transcript(text, w, reason) BY <1>3, <1>16 DEF Transcript
<1> QED BY <1>14, <1>17 DEF Told

\* What a graft makes of a turn.
LEMMA GraftTold ==
  ASSUME NEW t, Told(t), NEW edits \in Seq(EditsOf(Words)), ~GraftEditsFail(t, edits), NEW dropped
  PROVE  Told(ApplyGraftEdits(t, edits, dropped))
<1>1. PICK u : u = Folded(Edited, t, edits) OBVIOUS
<1>2. Told(u) BY <1>1, EditsTold
<1>3. ApplyGraftEdits(t, edits, dropped) = WithoutTools(u, dropped) BY <1>1 DEF ApplyGraftEdits
<1> QED BY <1>2, <1>3, WithoutTold

\* The variants of a turn.
LEMMA VariantTold ==
  ASSUME NEW t, Told(t), NEW v \in Variants(t)
  PROVE  Told(v[2])
<1>1. PICK text \in Seq(Symbols), tools \in Seq(ToolCalls), reason \in Symbols : t = Transcript(text, tools, reason) BY DEF Told
<1>2. t.text = text /\ t.tools = tools /\ t.finish = reason BY <1>1, TranscriptIs
<1>3. t = [role |-> "assistant", text |-> text, tools |-> tools, finish |-> reason] BY <1>1 DEF Transcript
<1>4. FinishReasons \subseteq Symbols /\ "tool" \in Symbols /\ "max_tokens" \in Symbols /\ "end_turn" \in Symbols /\ "tool_use" \in Symbols
  BY WordsAssumption, WordsHold DEF FinishReasons
<1>5. PICK q : q = v[2] OBVIOUS
<1> SUFFICES Told(q) BY <1>5
<1>6. ASSUME NEW a \in Seq(Symbols), NEW w \in Seq(ToolCalls), NEW b \in Symbols, q = Transcript(a, w, b)
      PROVE  Told(q)
  BY <1>6 DEF Told
<1>7. PICK n \in Nat : n = Len(text) /\ DOMAIN text = 1 .. n BY LenProperties
<1>8. PICK half : half = SubSeq(text, 1, Len(text) \div 2) OBVIOUS
<1>9. half \in Seq(Symbols)
  <2>1. Len(text) \div 2 \in 0 .. n BY <1>7
  <2>2. PICK h \in 0 .. n : h = Len(text) \div 2 BY <2>1
  <2>3. half = [k \in 1 .. h |-> text[k]] BY <1>7, <1>8, <2>2
  <2>4. \A k \in 1 .. h : k \in 1 .. n BY <1>7, <2>2
  <2>5. half \in [1 .. h -> Symbols] BY <1>7, <2>3, <2>4, ElementOfSeq
  <2> QED BY <1>7, <2>2, <2>5, SeqDef
<1>10. PICK given : given = <<ToolCall("tool", EmptyObject)>> OBVIOUS
<1>11. given \in Seq(ToolCalls)
  <2>1. ToolCall("tool", EmptyObject) \in ToolCalls BY <1>4, CallMade, EmptyDocument
  <2> QED BY <1>10, <2>1
<1>12. PICK name : name = IF tools = <<>> THEN "tool" ELSE tools[1].name OBVIOUS
<1>13. name \in Symbols
  <2>1. CASE tools = <<>> BY <1>4, <1>12, <2>1
  <2>2. CASE tools # <<>>
    <3>1. 1 \in DOMAIN tools BY <2>2, EmptySeq, LenProperties
    <3>2. PICK c : c = tools[1] OBVIOUS
    <3>3. c \in ToolCalls BY <3>1, <3>2, ElementOfSeq, LenProperties
    <3> QED BY <1>12, <2>2, <3>2, <3>3 DEF ToolCalls
  <2> QED BY <2>1, <2>2
<1>14. PICK broken : broken = <<ToolCall(name, Unexpected)>> OBVIOUS
<1>15. broken \in Seq(ToolCalls)
  <2>1. ToolCall(name, Unexpected) \in ToolCalls BY <1>13, CallMade, EmptyDocument
  <2> QED BY <1>14, <2>1
<1>16. \/ \E r \in FinishReasons : q = [t EXCEPT !.finish = r,
                                          !.tools = IF r = "tool_use" /\ @ = <<>> THEN given ELSE @]
       \/ q = [t EXCEPT !.text = half, !.finish = "max_tokens"]
       \/ q = [t EXCEPT !.text = <<>>, !.finish = "end_turn"]
       \/ q = [t EXCEPT !.tools = broken, !.finish = "tool_use"]
  <2> DEFINE Finish(r) == [t EXCEPT !.finish = r,
                                    !.tools = IF r = "tool_use" /\ @ = <<>> THEN given ELSE @]
             cut == [t EXCEPT !.text = half, !.finish = "max_tokens"]
             silent == [t EXCEPT !.text = <<>>, !.finish = "end_turn"]
             strange == [t EXCEPT !.tools = broken, !.finish = "tool_use"]
  <2>1. Variants(t) = {<<r, Finish(r)>> : r \in FinishReasons}
                      \cup {<<"truncated", cut>> : x \in {y \in {1} : Len(t.text) > 1}}
                      \cup {<<"empty-text", silent>>, <<"malformed-args", strange>>}
    BY <1>2, <1>8, <1>10, <1>12, <1>14 DEF Variants
  <2>2. q = v[2] /\ v \in Variants(t) BY <1>5
  <2> HIDE DEF Finish, cut, silent, strange
  <2>3. (\E r \in FinishReasons : q = Finish(r)) \/ q = cut \/ q = silent \/ q = strange BY <2>1, <2>2
  <2> QED BY <2>3 DEF Finish, cut, silent, strange
<1>17. CASE \E r \in FinishReasons : q = [t EXCEPT !.finish = r,
                                          !.tools = IF r = "tool_use" /\ @ = <<>> THEN given ELSE @]
  <2>1. PICK r \in FinishReasons : q = [t EXCEPT !.finish = r,
                                          !.tools = IF r = "tool_use" /\ @ = <<>> THEN given ELSE @]
    BY <1>17
  <2>2. PICK w : w = IF r = "tool_use" /\ tools = <<>> THEN given ELSE tools OBVIOUS
  <2>3. w \in Seq(ToolCalls) BY <1>11, <2>2
  <2>4. q = Transcript(text, w, r) BY <1>3, <2>1, <2>2 DEF Transcript
  <2> QED BY <1>4, <1>6, <2>3, <2>4
<1>18. CASE q = [t EXCEPT !.text = half, !.finish = "max_tokens"]
  <2>1. q = Transcript(half, tools, "max_tokens") BY <1>3, <1>18 DEF Transcript
  <2> QED BY <1>4, <1>6, <1>9, <2>1
<1>19. CASE q = [t EXCEPT !.text = <<>>, !.finish = "end_turn"]
  <2>1. q = Transcript(<<>>, tools, "end_turn") BY <1>3, <1>19 DEF Transcript
  <2>2. <<>> \in Seq(Symbols) OBVIOUS
  <2> QED BY <1>4, <1>6, <2>1, <2>2
<1>20. CASE q = [t EXCEPT !.tools = broken, !.finish = "tool_use"]
  <2>1. q = Transcript(text, broken, "tool_use") BY <1>3, <1>20 DEF Transcript
  <2> QED BY <1>4, <1>6, <1>15, <2>1
<1> QED BY <1>5, <1>16, <1>17, <1>18, <1>19, <1>20

(***************************************************************************)
(* Damaged streams are streams                                             *)
(***************************************************************************)

\* A piece of a sequence.
LEMMA PieceOf ==
  ASSUME NEW S, NEW s \in Seq(S), NEW a \in Nat \ {0}, NEW b \in 0 .. Len(s)
  PROVE  SubSeq(s, a, b) \in Seq(S) /\ (a <= b => SubSeq(s, a, b) # <<>>)
<1>1. PICK n \in Nat : n = Len(s) /\ DOMAIN s = 1 .. n BY LenProperties
<1>2. \A i \in a .. b : s[i] \in S
  <2> TAKE i \in a .. b
  <2>1. i \in 1 .. n BY <1>1
  <2> QED BY <1>1, <2>1, ElementOfSeq
<1>3. a \in Int /\ b \in Int BY <1>1
<1>4. SubSeq(s, a, b) \in Seq(S) /\ Len(SubSeq(s, a, b)) = IF a <= b THEN b - a + 1 ELSE 0
  BY <1>2, <1>3, SubSeqProperties
<1>5. ASSUME a <= b PROVE SubSeq(s, a, b) # <<>>
  <2>1. PICK u : u = SubSeq(s, a, b) OBVIOUS
  <2>2. Len(u) = b - a + 1 BY <1>4, <1>5, <2>1
  <2>3. Len(u) # 0 BY <1>3, <1>5, <2>2
  <2> QED BY <2>1, <2>3, EmptyList
<1> QED BY <1>4, <1>5

LEMMA InsertedAt ==
  ASSUME NEW S, NEW s \in Seq(S), NEW i \in 1 .. Len(s), NEW x \in S
  PROVE  InsertAt(s, i, x) \in Seq(S)
<1>1. PICK n \in Nat : n = Len(s) BY LenProperties
<1>2. i \in Nat \ {0} /\ i - 1 \in 0 .. n /\ n \in 0 .. n BY <1>1
<1>3. PICK a : a = SubSeq(s, 1, i - 1) OBVIOUS
<1>4. PICK b : b = SubSeq(s, i, Len(s)) OBVIOUS
<1>5. a \in Seq(S) /\ b \in Seq(S) BY <1>1, <1>2, <1>3, <1>4, PieceOf
<1>6. (a \o <<x>>) \o b \in Seq(S)
  <2>1. PICK c : c = <<x>> OBVIOUS
  <2>2. c \in Seq(S) BY <2>1
  <2>3. a \o c \in Seq(S) BY <1>5, <2>2, ConcatProperties
  <2> QED BY <1>5, <2>1, <2>3, ConcatProperties
<1> QED BY <1>3, <1>4, <1>6 DEF InsertAt

\* Frames: streams that are not empty.
Framed == Streams \ {<<>>}

LEMMA FramesAre ==
  ASSUME NEW ss \in Streams, NEW fs, fs = Frames(ss)
  PROVE  fs \in Seq(Framed)
<1>1. PICK n \in Nat : n = Len(ss) /\ DOMAIN ss = 1 .. n BY LenProperties DEF Streams
<1>2. PICK places : places = {i \in DOMAIN ss : i = Len(ss) \/ ss[i].type # "line"} OBVIOUS
<1>3. PICK ends : ends = InOrder(n, places) OBVIOUS
<1>4. NotedTo(ends, places, n) BY <1>3, InOrderIs
<1>5. ends \in Seq(1 .. n)
  <2>1. (1 .. n) \cap places \subseteq 1 .. n OBVIOUS
  <2> QED BY <1>4, <2>1, SeqMonotonic DEF NotedTo
<1>6. PICK m \in Nat : m = Len(ends) /\ DOMAIN ends = 1 .. m BY <1>5, LenProperties
<1>7. \A k \in 1 .. m : ends[k] \in 1 .. n BY <1>5, <1>6, ElementOfSeq
<1>8. \A i, j \in 1 .. m : i < j => ends[i] < ends[j] BY <1>4, <1>6 DEF NotedTo, Ascends
<1>9. Where(ss, LAMBDA i : i = Len(ss) \/ ss[i].type # "line") = ends BY <1>1, <1>2, <1>3 DEF Where
<1>10. fs = [k \in 1 .. m |-> SubSeq(ss, IF k = 1 THEN 1 ELSE ends[k - 1] + 1, ends[k])] BY <1>6, <1>9 DEF Frames
<1>11. ASSUME NEW k \in 1 .. m PROVE fs[k] \in Framed
  <2>1. PICK a : a = IF k = 1 THEN 1 ELSE ends[k - 1] + 1 OBVIOUS
  <2>2. PICK b \in 1 .. n : b = ends[k] BY <1>7
  <2>3. a \in Nat \ {0} /\ a <= b
    <3>1. CASE k = 1 BY <2>1, <2>2, <3>1
    <3>2. CASE k # 1
      <4>1. k - 1 \in 1 .. m /\ k - 1 < k BY <3>2
      <4>2. ends[k - 1] \in 1 .. n /\ ends[k - 1] < ends[k] BY <1>7, <1>8, <4>1
      <4> QED BY <2>1, <2>2, <3>2, <4>2
    <3> QED BY <3>1, <3>2
  <2>4. b \in 0 .. Len(ss) BY <1>1
  <2>5. fs[k] = SubSeq(ss, a, b) BY <1>10, <2>1, <2>2
  <2>6. ss \in Seq(Events(Symbols)) BY DEF Streams
  <2>7. SubSeq(ss, a, b) \in Seq(Events(Symbols)) /\ SubSeq(ss, a, b) # <<>> BY <2>3, <2>4, <2>6, PieceOf
  <2> QED BY <2>5, <2>7 DEF Framed, Streams
<1>12. fs \in [1 .. m -> Framed] BY <1>10, <1>11
<1> QED BY <1>12, SeqDef

\* What a damaged event carries.
LEMMA DamagedArgs ==
  ASSUME NEW args \in Seq(Symbols)
  PROVE  Broken(args) \in Seq(Symbols)
<1>1. "}" \in Symbols BY WordsAssumption, WordsHold
<1>2. PICK x \in Symbols : x = "}" BY <1>1
<1>3. <<x>> \in Seq(Symbols) OBVIOUS
<1>4. <<x>> \o args \in Seq(Symbols) BY <1>3, ConcatProperties
<1>5. Broken(args) = <<x>> \o args BY <1>2 DEF Broken
<1> QED BY <1>4, <1>5

\* An event whose arguments come as a string: a fragment, or a chunk with a call.
LEMMA ChunkShape ==
  ASSUME NEW e \in Events(Symbols)
  PROVE  /\ e.type = "chunk" => e \in [type : {"chunk"}, text : Seq(Symbols), calls : Seq(ChatOf), finish : Symbols]
         /\ e.type = "input_json_delta" =>
              e \in [type : {"input_json_delta", "response.function_call_arguments.delta"}, index : Nat, args : Seq(Symbols)]
<1>1. CASE e \in [type : {"noise", "error"}] BY <1>1
<1>2. CASE e \in [type : {"content_block_start"}, index : Nat, block : {"text", "tool"}, name : Symbols] BY <1>2
<1>3. CASE e \in [type : {"text_delta"}, index : Nat, text : Seq(Symbols)] BY <1>3
<1>4. CASE e \in [type : {"input_json_delta", "response.function_call_arguments.delta"}, index : Nat, args : Seq(Symbols)]
  <2>1. e.type # "chunk" BY <1>4
  <2> QED BY <1>4, <2>1
<1>5. CASE e \in [type : {"message_delta", "response.completed"}, finish : Symbols] BY <1>5
<1>6. CASE e \in [type : {"chunk"}, text : Seq(Symbols), calls : Seq(ChatOf), finish : Symbols]
  <2>1. e.type = "chunk" BY <1>6
  <2> QED BY <1>6, <2>1
<1>7. CASE e \in [type : {"response.output_text.delta"}, text : Seq(Symbols)] BY <1>7
<1>8. CASE e \in [type : {"response.output_item.added"}, index : Nat, item : {"message", "function_call"}, name : Symbols]
  BY <1>8
<1>9. CASE e \in [type : {"response"}, parts : Seq(PartsOf), finish : Symbols] BY <1>9
<1>10. CASE e \in [type : {"line"}, text : Seq(Symbols), calls : Seq(CallOf), finish : Symbols] BY <1>10
<1>11. \/ e \in [type : {"noise", "error"}]
       \/ e \in [type : {"content_block_start"}, index : Nat, block : {"text", "tool"}, name : Symbols]
       \/ e \in [type : {"text_delta"}, index : Nat, text : Seq(Symbols)]
       \/ e \in [type : {"input_json_delta", "response.function_call_arguments.delta"}, index : Nat, args : Seq(Symbols)]
       \/ e \in [type : {"message_delta", "response.completed"}, finish : Symbols]
       \/ e \in [type : {"chunk"}, text : Seq(Symbols), calls : Seq(ChatOf), finish : Symbols]
       \/ e \in [type : {"response.output_text.delta"}, text : Seq(Symbols)]
       \/ e \in [type : {"response.output_item.added"}, index : Nat, item : {"message", "function_call"}, name : Symbols]
       \/ e \in [type : {"response"}, parts : Seq(PartsOf), finish : Symbols]
       \/ e \in [type : {"line"}, text : Seq(Symbols), calls : Seq(CallOf), finish : Symbols]
  BY Zenon DEF Events, ChatOf, PartsOf, CallOf
<1> QED BY <1>1, <1>2, <1>3, <1>4, <1>5, <1>6, <1>7, <1>8, <1>9, <1>10, <1>11, Zenon

LEMMA DamagedIs ==
  ASSUME NEW frame \in Framed, CarriesArgs(frame)
  PROVE  DamagedFrame(frame) \in Framed
<1>1. PICK e : e = frame[1] OBVIOUS
<1>2. e \in Events(Symbols)
  <2>1. frame \in Seq(Events(Symbols)) /\ frame # <<>> BY DEF Framed, Streams
  <2>2. 1 \in DOMAIN frame BY <2>1, EmptySeq, LenProperties
  <2> QED BY <1>1, <2>1, <2>2, ElementOfSeq, LenProperties
<1>3. ASSUME NEW d \in Event, DamagedFrame(frame) = <<d>> PROVE DamagedFrame(frame) \in Framed
  <2>1. <<d>> \in Streams BY ShortStreams
  <2>2. <<d>> # <<>> OBVIOUS
  <2> QED BY <1>3, <2>1, <2>2 DEF Framed
<1>4. CASE e.type = "chunk"
  <2>1. e.calls # <<>> BY <1>1, <1>4 DEF CarriesArgs
  <2>2. e \in [type : {"chunk"}, text : Seq(Symbols), calls : Seq(ChatOf), finish : Symbols] BY <1>2, <1>4, ChunkShape
  <2>3. PICK cs \in Seq(ChatOf) : cs = e.calls BY <2>2
  <2>4. PICK text \in Seq(Symbols) : text = e.text BY <2>2
  <2>5. PICK reason \in Symbols : reason = e.finish BY <2>2
  <2>6. e = [type |-> "chunk", text |-> text, calls |-> cs, finish |-> reason] BY <2>2, <2>3, <2>4, <2>5
  <2>7. PICK n \in Nat : n = Len(cs) /\ DOMAIN cs = 1 .. n BY LenProperties
  <2>8. 1 \in 1 .. n BY <2>1, <2>3, <2>7, EmptySeq
  <2>9. PICK c : c = cs[1] OBVIOUS
  <2>10. \A k \in 1 .. n : cs[k] \in ChatOf BY <2>7, ElementOfSeq
  <2>11. c \in ChatOf BY <2>8, <2>9, <2>10
  <2>12. PICK args : args = Broken(c.args) OBVIOUS
  <2>13. args \in Seq(Symbols) BY <2>11, <2>12, DamagedArgs DEF ChatOf
  <2>14. PICK b : b = [c EXCEPT !.args = args] OBVIOUS
  <2>15. b \in ChatOf BY <2>11, <2>13, <2>14 DEF ChatOf
  <2>16. PICK ds : ds = [cs EXCEPT ![1] = b] OBVIOUS
  <2>17. ds \in Seq(ChatOf)
    <3>1. ds \in [1 .. n -> ChatOf] BY <2>7, <2>10, <2>15, <2>16
    <3> QED BY <3>1, SeqDef
  <2>18. PICK d : d = Chunk(text, ds, reason) OBVIOUS
  <2>19. d \in Event BY <2>17, <2>18, EventsMade
  <2>20. [e EXCEPT !.calls[1].args = Broken(@)] = [e EXCEPT !.calls = ds]
    BY <2>6, <2>9, <2>12, <2>14, <2>16
  <2>21. [e EXCEPT !.calls = ds] = d BY <2>6, <2>18 DEF Chunk
  <2>22. DamagedFrame(frame) = <<d>> BY <1>1, <1>4, <2>20, <2>21 DEF DamagedFrame
  <2> QED BY <1>3, <2>19, <2>22
<1>5. CASE e.type # "chunk"
  <2>1. e.type = "input_json_delta" BY <1>1, <1>5 DEF CarriesArgs
  <2>2. e \in [type : {"input_json_delta", "response.function_call_arguments.delta"}, index : Nat, args : Seq(Symbols)]
    BY <1>2, <2>1, ChunkShape
  <2>3. PICK args : args = Broken(e.args) OBVIOUS
  <2>4. args \in Seq(Symbols) BY <2>2, <2>3, DamagedArgs
  <2>5. PICK i \in Nat : i = e.index BY <2>2
  <2>6. PICK d : d = [e EXCEPT !.args = args] OBVIOUS
  <2>7. d = [type |-> "input_json_delta", index |-> i, args |-> args] BY <2>1, <2>2, <2>5, <2>6
  <2>8. d \in Event BY <2>4, <2>7, EventsMade
  <2>9. DamagedFrame(frame) = <<d>> BY <1>1, <1>5, <2>3, <2>6 DEF DamagedFrame
  <2> QED BY <1>3, <2>8, <2>9
<1> QED BY <1>4, <1>5

LEMMA ErrorIs == ErrorStream \in Streams /\ ErrorStream \in Framed
<1>1. PICK e : e = [type |-> "error"] OBVIOUS
<1>2. e \in Event BY <1>1, EventsMade
<1>3. <<e>> \in Streams BY <1>2, ShortStreams
<1>4. <<e>> # <<>> OBVIOUS
<1> QED BY <1>1, <1>3, <1>4 DEF ErrorStream, Framed

\* Every damage leaves frames.
LEMMA MutationTyped ==
  ASSUME NEW op \in MutationOps, NEW fs \in Seq(Framed), NEW n \in 0 .. 1
  PROVE  Mutation(op, fs, n) \in Seq(Framed)
<1>1. PICK l \in Nat : l = Len(fs) /\ DOMAIN fs = 1 .. l BY LenProperties
<1>2. \A i \in 1 .. l : fs[i] \in Framed BY <1>1, ElementOfSeq
<1>3. fs # <<>> => l \in 1 .. l /\ l - 1 \in 0 .. l BY <1>1, EmptySeq
<1>4. CASE op = "truncate"
  <2>1. CASE n >= l BY <1>1, <1>4, <2>1 DEF Mutation, TruncateAfterFrame
  <2>2. CASE ~(n >= l)
    <3>1. n \in 0 .. l BY <1>1, <2>2
    <3>2. SubSeq(fs, 1, n) \in Seq(Framed) BY <1>1, <3>1, PieceOf
    <3> QED BY <1>1, <1>4, <2>2, <3>2 DEF Mutation, TruncateAfterFrame
  <2> QED BY <2>1, <2>2
<1>5. CASE op = "drop-terminal"
  <2>1. CASE fs = <<>> BY <1>5, <2>1 DEF Mutation, DropTerminalEvent
  <2>2. CASE fs # <<>>
    <3>1. SubSeq(fs, 1, Len(fs) - 1) \in Seq(Framed) BY <1>1, <1>3, <2>2, PieceOf
    <3> QED BY <1>5, <2>2, <3>1 DEF Mutation, DropTerminalEvent, Front
  <2> QED BY <2>1, <2>2
<1>6. CASE op = "duplicate"
  <2>1. CASE n + 1 \notin DOMAIN fs BY <1>6, <2>1 DEF Mutation, DuplicateFrame
  <2>2. CASE n + 1 \in DOMAIN fs
    <3>1. PICK i \in 1 .. Len(fs) : i = n + 1 BY <1>1, <2>2
    <3>2. PICK x \in Framed : x = fs[i] BY <1>1, <1>2
    <3>3. InsertAt(fs, i, x) \in Seq(Framed) BY InsertedAt
    <3> QED BY <1>6, <2>2, <3>1, <3>2, <3>3 DEF Mutation, DuplicateFrame
  <2> QED BY <2>1, <2>2
<1>7. CASE op = "reorder"
  <2>1. PICK places : places = {i \in DOMAIN fs : CarriesDelta(fs[i])} OBVIOUS
  <2>2. PICK deltas : deltas = InOrder(l, places) OBVIOUS
  <2>3. NotedTo(deltas, places, l) BY <2>2, InOrderIs
  <2>4. deltas \in Seq(1 .. l)
    <3>1. (1 .. l) \cap places \subseteq 1 .. l OBVIOUS
    <3> QED BY <2>3, <3>1, SeqMonotonic DEF NotedTo
  <2>5. PICK m \in Nat : m = Len(deltas) /\ DOMAIN deltas = 1 .. m BY <2>4, LenProperties
  <2>6. \A k \in 1 .. m : deltas[k] \in 1 .. l BY <2>4, <2>5, ElementOfSeq
  <2>7. \A i \in 1 .. l : CarriesDelta(fs[i]) => \E k \in 1 .. m : deltas[k] = i BY <1>1, <2>1, <2>3, <2>5 DEF NotedTo
  <2>8. Where(fs, LAMBDA i : CarriesDelta(fs[i])) = deltas BY <1>1, <2>1, <2>2 DEF Where
  <2>9. PICK gs : gs = [i \in DOMAIN fs |->
                        IF CarriesDelta(fs[i])
                        THEN fs[deltas[Len(deltas) + 1 - (CHOOSE k \in DOMAIN deltas : deltas[k] = i)]] ELSE fs[i]]
    OBVIOUS
  <2>10. Mutation(op, fs, n) = gs
    <3>1. InOrder(Len(fs), {i \in DOMAIN fs : CarriesDelta(fs[i])}) = deltas BY <1>1, <2>1, <2>2
    <3>2. ReorderContentDeltas(fs) =
            [i \in DOMAIN fs |->
               IF CarriesDelta(fs[i])
               THEN fs[InOrder(Len(fs), {j \in DOMAIN fs : CarriesDelta(fs[j])})
                         [Len(InOrder(Len(fs), {j \in DOMAIN fs : CarriesDelta(fs[j])})) + 1
                          - (CHOOSE k \in DOMAIN InOrder(Len(fs), {j \in DOMAIN fs : CarriesDelta(fs[j])}) :
                               InOrder(Len(fs), {j \in DOMAIN fs : CarriesDelta(fs[j])})[k] = i)]]
               ELSE fs[i]]
      BY Zenon DEF ReorderContentDeltas, Where
    <3>3. ReorderContentDeltas(fs) = gs BY <2>9, <3>1, <3>2, Zenon
    <3> QED BY <1>7, <3>3 DEF Mutation
  <2>11. ASSUME NEW i \in 1 .. l PROVE gs[i] \in Framed
    <3>1. CASE ~CarriesDelta(fs[i]) BY <1>1, <1>2, <2>9, <3>1
    <3>2. CASE CarriesDelta(fs[i])
      <4>1. PICK k : k = CHOOSE j \in DOMAIN deltas : deltas[j] = i OBVIOUS
      <4>2. k \in 1 .. m BY <2>5, <2>7, <3>2, <4>1
      <4>3. m + 1 - k \in 1 .. m BY <4>2
      <4>4. gs[i] = fs[deltas[m + 1 - k]] BY <1>1, <2>5, <2>9, <3>2, <4>1
      <4> QED BY <1>2, <2>6, <4>3, <4>4
    <3> QED BY <3>1, <3>2
  <2>12. gs \in [1 .. l -> Framed] BY <1>1, <2>9, <2>11
  <2> QED BY <2>10, <2>12, SeqDef
<1>8. CASE op = "corrupt-tool"
  <2>1. PICK places : places = {j \in 1 .. Len(fs) : CarriesArgs(fs[j])} OBVIOUS
  <2>2. PICK i : i = IF places # {} THEN Min(places) ELSE 0 OBVIOUS
  <2>3. SelectInSeq(fs, CarriesArgs) = i BY <2>1, <2>2 DEF SelectInSeq
  <2>4. CASE i = 0 BY <1>8, <2>3, <2>4 DEF Mutation, CorruptToolArgs
  <2>5. CASE i # 0
    <3>1. places # {} /\ i = Min(places) BY <2>2, <2>5
    <3>2. places \subseteq Nat BY <2>1
    <3>3. PICK j \in places : \A k \in places : j <= k
      <4>1. PICK j \in places : \A k \in places : ~(k < j) BY <3>1, <3>2, LeastNatural
      <4>2. \A k \in places : j <= k BY <3>2, <4>1
      <4> QED BY <4>2
    <3>4. i \in places BY <3>1, <3>3 DEF Min
    <3>5. i \in 1 .. l /\ CarriesArgs(fs[i]) BY <1>1, <2>1, <3>4
    <3>6. PICK x \in Framed : x = fs[i] BY <1>2, <3>5
    <3>7. PICK y : y = DamagedFrame(x) OBVIOUS
    <3>8. y \in Framed BY <3>5, <3>6, <3>7, DamagedIs
    <3>9. PICK gs : gs = [fs EXCEPT ![i] = y] OBVIOUS
    <3>10. gs \in [1 .. l -> Framed] BY <1>1, <1>2, <3>5, <3>8, <3>9
    <3>11. gs \in Seq(Framed) BY <3>10, SeqDef
    <3>12. Mutation(op, fs, n) = gs BY <1>8, <2>3, <2>5, <3>6, <3>7, <3>9 DEF Mutation, CorruptToolArgs
    <3> QED BY <3>11, <3>12
  <2> QED BY <2>4, <2>5
<1>9. CASE op = "inject-error"
  <2>1. CASE fs = <<>>
    <3>1. PICK x \in Framed : x = ErrorStream BY ErrorIs
    <3>2. <<x>> \in Seq(Framed) OBVIOUS
    <3> QED BY <1>9, <2>1, <3>1, <3>2 DEF Mutation, InjectError
  <2>2. CASE fs # <<>>
    <3>1. PICK i \in 1 .. Len(fs) : i = Len(fs) BY <1>1, <1>3, <2>2
    <3>2. PICK x \in Framed : x = ErrorStream BY ErrorIs
    <3>3. InsertAt(fs, i, x) \in Seq(Framed) BY InsertedAt
    <3> QED BY <1>9, <2>2, <3>1, <3>2, <3>3 DEF Mutation, InjectError
  <2> QED BY <2>1, <2>2
<1> QED BY <1>4, <1>5, <1>6, <1>7, <1>8, <1>9 DEF MutationOps

\* A stream that is damaged is a stream.
LEMMA DamagedTyped ==
  ASSUME NEW op \in MutationOps, NEW ss \in Streams, NEW n \in 0 .. 1
  PROVE  Joined(Mutation(op, Frames(ss), n)) \in Streams
<1>1. PICK fs : fs = Frames(ss) OBVIOUS
<1>2. fs \in Seq(Framed) BY <1>1, FramesAre
<1>3. PICK gs : gs = Mutation(op, fs, n) OBVIOUS
<1>4. gs \in Seq(Framed) BY <1>2, <1>3, MutationTyped
<1>5. PICK m \in Nat : m = Len(gs) /\ DOMAIN gs = 1 .. m BY <1>4, LenProperties
<1>6. \A k \in 1 .. m : gs[k] \in Streams BY <1>4, <1>5, ElementOfSeq DEF Framed
<1>7. Len(gs) = m BY <1>5
<1>8. Joined(gs) \in Streams BY <1>6, <1>7, StreamsJoined
<1> QED BY <1>1, <1>3, <1>8

\* What fuzz may play back.
LEMMA ReframedTyped ==
  ASSUME NEW p \in Dialects, NEW t, Told(t), NEW ss \in Reframings(p, t)
  PROVE  ss \in Streams
<1>1. CASE p # "anthropic"
  <2>1. ss = Encode(p, t) BY <1>1 DEF Reframings
  <2> QED BY <2>1, EncodeTyped
<1>2. CASE p = "anthropic"
  <2>1. PICK text \in Seq(Symbols), tools \in Seq(ToolCalls), reason \in Symbols : Normalize(t) = Transcript(text, tools, reason)
    BY ToldNormal
  <2>2. PICK m : m = Normalize(t) OBVIOUS
  <2>3. m.text = text /\ m.tools = tools /\ m.finish = reason BY <2>1, <2>2, TranscriptIs
  <2>4. PICK chunks \in Splits(text), q \in Bijection(DOMAIN tools, DOMAIN tools) :
          ss = AnthropicStream(chunks, [k \in DOMAIN tools |-> tools[q[k]]], reason)
    BY <1>2, <2>2, <2>3 DEF Reframings
  <2>5. PICK u : u = [k \in DOMAIN tools |-> tools[q[k]]] OBVIOUS
  <2>6. u \in Seq(ToolCalls) BY <2>5, SortedAnyOrder
  <2>7. IsList(chunks) /\ \A k \in DOMAIN chunks : chunks[k] \in Seq(Symbols) BY SplitsJoined
  <2>8. chunks \in Seq(Seq(Symbols))
    <3>1. PICK l \in Nat : l = Len(chunks) /\ DOMAIN chunks = 1 .. l /\ chunks = [k \in 1 .. l |-> chunks[k]] BY <2>7, ListHas
    <3>2. chunks \in [1 .. l -> Seq(Symbols)] BY <2>7, <3>1
    <3> QED BY <3>2, SeqDef
  <2> QED BY <2>4, <2>5, <2>6, <2>8, AnthropicTyped
<1> QED BY <1>1, <1>2

(***************************************************************************)
(* Every stream of every recording is one the decoders can read            *)
(***************************************************************************)

\* What is made of fewer words is made of more.
LEMMA EventsMore == ASSUME NEW e \in Events(Words) PROVE e \in Events(Symbols)
<1> DEFINE CallW == [name : Words, args : Seq(Words)]
           ChatW == [index : Nat, name : Words, args : Seq(Words)]
           PartW == [type : {"text"}, text : Seq(Words)] \cup [type : {"call"}, name : Words, args : Seq(Words)]
<1>1. Words \subseteq Symbols /\ Seq(Words) \subseteq Seq(Symbols) BY WordsHold
<1>2. CallW \subseteq CallOf BY <1>1 DEF CallOf
<1>3. ChatW \subseteq ChatOf BY <1>1 DEF ChatOf
<1>4. PartW \subseteq PartsOf BY <1>1 DEF PartsOf
<1>5. \/ e \in [type : {"noise", "error"}]
      \/ e \in [type : {"content_block_start"}, index : Nat, block : {"text", "tool"}, name : Words]
      \/ e \in [type : {"text_delta"}, index : Nat, text : Seq(Words)]
      \/ e \in [type : {"input_json_delta", "response.function_call_arguments.delta"}, index : Nat, args : Seq(Words)]
      \/ e \in [type : {"message_delta", "response.completed"}, finish : Words]
      \/ e \in [type : {"chunk"}, text : Seq(Words), calls : Seq(ChatW), finish : Words]
      \/ e \in [type : {"response.output_text.delta"}, text : Seq(Words)]
      \/ e \in [type : {"response.output_item.added"}, index : Nat, item : {"message", "function_call"}, name : Words]
      \/ e \in [type : {"response"}, parts : Seq(PartW), finish : Words]
      \/ e \in [type : {"line"}, text : Seq(Words), calls : Seq(CallW), finish : Words]
  BY Zenon DEF Events
<1> HIDE DEF CallW, ChatW, PartW
<1>6. Seq(CallW) \subseteq Seq(CallOf) BY <1>2, SeqMonotonic
<1>7. Seq(ChatW) \subseteq Seq(ChatOf) BY <1>3, SeqMonotonic
<1>8. Seq(PartW) \subseteq Seq(PartsOf) BY <1>4, SeqMonotonic
<1>9. \/ e \in [type : {"noise", "error"}]
      \/ e \in [type : {"content_block_start"}, index : Nat, block : {"text", "tool"}, name : Symbols]
      \/ e \in [type : {"text_delta"}, index : Nat, text : Seq(Symbols)]
      \/ e \in [type : {"input_json_delta", "response.function_call_arguments.delta"}, index : Nat, args : Seq(Symbols)]
      \/ e \in [type : {"message_delta", "response.completed"}, finish : Symbols]
      \/ e \in [type : {"chunk"}, text : Seq(Symbols), calls : Seq(ChatOf), finish : Symbols]
      \/ e \in [type : {"response.output_text.delta"}, text : Seq(Symbols)]
      \/ e \in [type : {"response.output_item.added"}, index : Nat, item : {"message", "function_call"}, name : Symbols]
      \/ e \in [type : {"response"}, parts : Seq(PartsOf), finish : Symbols]
      \/ e \in [type : {"line"}, text : Seq(Symbols), calls : Seq(CallOf), finish : Symbols]
  <2>1. CASE e \in [type : {"noise", "error"}] BY <2>1
  <2>2. CASE e \in [type : {"content_block_start"}, index : Nat, block : {"text", "tool"}, name : Words] BY <1>1, <2>2
  <2>3. CASE e \in [type : {"text_delta"}, index : Nat, text : Seq(Words)] BY <1>1, <2>3
  <2>4. CASE e \in [type : {"input_json_delta", "response.function_call_arguments.delta"}, index : Nat, args : Seq(Words)]
    BY <1>1, <2>4
  <2>5. CASE e \in [type : {"message_delta", "response.completed"}, finish : Words] BY <1>1, <2>5
  <2>6. CASE e \in [type : {"chunk"}, text : Seq(Words), calls : Seq(ChatW), finish : Words] BY <1>1, <1>7, <2>6
  <2>7. CASE e \in [type : {"response.output_text.delta"}, text : Seq(Words)] BY <1>1, <2>7
  <2>8. CASE e \in [type : {"response.output_item.added"}, index : Nat, item : {"message", "function_call"}, name : Words]
    BY <1>1, <2>8
  <2>9. CASE e \in [type : {"response"}, parts : Seq(PartW), finish : Words] BY <1>1, <1>8, <2>9
  <2>10. CASE e \in [type : {"line"}, text : Seq(Words), calls : Seq(CallW), finish : Words] BY <1>1, <1>6, <2>10
  <2> QED BY <1>5, <2>1, <2>2, <2>3, <2>4, <2>5, <2>6, <2>7, <2>8, <2>9, <2>10
<1> QED BY <1>9, Zenon DEF Events, ChatOf, PartsOf, CallOf

LEMMA AnswersMore == ASSUME NEW it, IsAnswer(Words, it) PROVE IsAnswer(Symbols, it)
<1>1. Events(Words) \subseteq Events(Symbols) BY EventsMore
<1>2. Seq(Events(Words)) \subseteq Seq(Events(Symbols)) BY <1>1, SeqMonotonic
<1> QED BY <1>2 DEF IsAnswer

\* The turn of a streamed interaction, and what is none.
LEMMA TurnStreamed ==
  ASSUME NEW it, IsAnswer(Symbols, it), Streamed(it)
  PROVE  /\ it.dialect \in Dialects /\ it.streaming /\ it.body \in Streams
         /\ TurnOf(it) = Decode(it.dialect, it.body) /\ IsDecoded(TurnOf(it)) /\ Told(TurnOf(it))
<1>1. it.kind = "http" /\ DecodeInteraction(it).renderable BY DEF Streamed
<1>2. it.body # Absent /\ it.streaming /\ DecodeInteraction(it) = Decoded(Decode(it.dialect, it.body), FALSE, TRUE)
  BY <1>1 DEF DecodeInteraction, Decoded
<1>3. it.dialect \in Dialects /\ it.body \in Streams BY <1>1, <1>2 DEF IsAnswer, Streams
<1>4. TurnOf(it) = Decode(it.dialect, it.body) BY <1>2 DEF TurnOf, Decoded
<1>5. IsDecoded(TurnOf(it)) BY <1>3, <1>4, DecodedIs
<1> QED BY <1>2, <1>3, <1>4, <1>5, DecodedTold

LEMMA StreamedIs ==
  ASSUME NEW it, it.kind = "http", it.streaming = TRUE, it.body \in Streams
  PROVE  Streamed(it) /\ TurnOf(it) = Decode(it.dialect, it.body) /\ DecodeInteraction(it).renderable
<1>1. it.body # Absent BY AbsentIs
<1>2. DecodeInteraction(it) = Decoded(Decode(it.dialect, it.body), FALSE, TRUE) BY <1>1 DEF DecodeInteraction
<1> QED BY <1>2 DEF Streamed, TurnOf, Decoded

\* The answers of a recording are streams, or are not there.
AnswersHold(f) == \A i \in DOMAIN f.turns : IsAnswer(Symbols, f.turns[i])

\* Another stream in the place of the answer.
LEMMA AnsweredHolds ==
  ASSUME NEW it, IsAnswer(Symbols, it), NEW body, it.kind = "http" => body \in Streams
  PROVE  IsAnswer(Symbols, Answered(it, TRUE, body))
BY DEF Answered, IsAnswer, Streams

LEMMA ReplacedHold ==
  ASSUME NEW f, IsFile(f), AnswersHold(f), NEW i, NEW jt, i \in DOMAIN f.turns => IsAnswer(Symbols, jt),
         NEW g, g.turns = [f.turns EXCEPT ![i] = jt]
  PROVE  AnswersHold(g)
<1>1. DOMAIN g.turns = DOMAIN f.turns /\ \A k \in DOMAIN f.turns : g.turns[k] = IF k = i THEN jt ELSE f.turns[k] OBVIOUS
<1> QED BY <1>1 DEF AnswersHold

LEMMA SplicedHold ==
  ASSUME NEW f, IsFile(f), AnswersHold(f), NEW i, NEW t,
         i \in DOMAIN f.turns /\ f.turns[i].kind = "http" => Told(t)
  PROVE  AnswersHold(Spliced(f, i, t))
<1>1. PICK jt : jt = Answered(f.turns[i], TRUE, Encode(f.turns[i].dialect, t)) OBVIOUS
<1>2. ASSUME i \in DOMAIN f.turns PROVE IsAnswer(Symbols, jt)
  <2>1. IsAnswer(Symbols, f.turns[i]) BY <1>2 DEF AnswersHold
  <2>2. ASSUME f.turns[i].kind = "http" PROVE Encode(f.turns[i].dialect, t) \in Streams
    <3>1. f.turns[i].dialect \in Dialects BY <2>1, <2>2 DEF IsAnswer
    <3> QED BY <1>2, <2>2, <3>1, EncodeTyped
  <2> QED BY <1>1, <2>1, <2>2, AnsweredHolds
<1>3. PICK turns : turns = [f.turns EXCEPT ![i] = jt] OBVIOUS
<1>4. Spliced(f, i, t) = [f EXCEPT !.turns = turns] BY <1>1, <1>3 DEF Spliced
<1>5. Spliced(f, i, t).turns = turns BY <1>4, FileChanged
<1>6. PICK g : g = Spliced(f, i, t) OBVIOUS
<1>7. g.turns = [f.turns EXCEPT ![i] = jt] BY <1>3, <1>5, <1>6
<1>8. AnswersHold(g) BY <1>2, <1>7, ReplacedHold
<1> QED BY <1>6, <1>8

LEMMA ResponseHolds ==
  ASSUME NEW f, IsFile(f), AnswersHold(f), NEW i, NEW body \in Streams
  PROVE  AnswersHold(WithResponse(f, i, body))
<1>1. PICK jt : jt = Answered(f.turns[i], TRUE, body) OBVIOUS
<1>2. ASSUME i \in DOMAIN f.turns PROVE IsAnswer(Symbols, jt)
  BY <1>1, <1>2, AnsweredHolds DEF AnswersHold
<1>3. PICK g : g = WithResponse(f, i, body) OBVIOUS
<1>4. g.turns = [f.turns EXCEPT ![i] = jt] BY <1>1, <1>3 DEF WithResponse, Remade
<1>5. AnswersHold(g) BY <1>2, <1>4, ReplacedHold
<1> QED BY <1>3, <1>5

\* The same turns, or the first of them.
LEMMA SameHold ==
  ASSUME NEW f, AnswersHold(f), NEW g, DOMAIN g.turns \subseteq DOMAIN f.turns, \A k \in DOMAIN g.turns : g.turns[k] = f.turns[k]
  PROVE  AnswersHold(g)
BY DEF AnswersHold

LEMMA ShortenedTurns ==
  ASSUME NEW f, IsFile(f), NEW n \in 0 .. Len(f.turns)
  PROVE  /\ DOMAIN Shortened(f, n).turns = 1 .. n /\ 1 .. n \subseteq DOMAIN f.turns
         /\ \A k \in 1 .. n : Shortened(f, n).turns[k] = f.turns[k]
<1>1. Shortened(f, n).turns = SubSeq(f.turns, 1, n) BY FileChanged DEF Shortened
<1> QED BY <1>1, Beginning DEF IsFile

LEMMA LinkedTurns == ASSUME NEW f, IsFile(f), NEW op, NEW x PROVE Linked(f, op, x).turns = f.turns
BY FileChanged DEF Linked

LEMMA GraftedHold ==
  ASSUME NEW f, IsFile(f), AnswersHold(f), NEW i, NEW t, NEW keep \in 0 .. Len(f.turns),
         i \in DOMAIN f.turns /\ f.turns[i].kind = "http" => Told(t)
  PROVE  AnswersHold(Grafted(f, i, t, keep))
<1>1. PICK g : g = Spliced(f, i, t) OBVIOUS
<1>2. AnswersHold(g) BY <1>1, SplicedHold
<1>3. Follows(f, g) /\ DOMAIN g.turns = DOMAIN f.turns BY <1>1, SplicedFollows
<1>4. IsFile(g) BY <1>3 DEF Follows
<1>5. PICK h : h = [g EXCEPT !.notice = IF g.notice = "" THEN "grafted" ELSE g.notice] OBVIOUS
<1>6. h.turns = g.turns BY <1>4, <1>5, FileChanged
<1>7. IsFile(h)
  <2>1. PICK x : x = IF g.notice = "" THEN "grafted" ELSE g.notice OBVIOUS
  <2>2. Follows(f, [g EXCEPT !.notice = x]) BY <1>3, FollowsNotice
  <2> QED BY <1>5, <2>1, <2>2 DEF Follows
<1>8. keep \in 0 .. Len(h.turns)
  <2>1. DOMAIN f.turns = 1 .. Len(f.turns) /\ DOMAIN h.turns = 1 .. Len(h.turns) /\ Len(f.turns) \in Nat /\ Len(h.turns) \in Nat
    BY <1>7, LenProperties DEF IsFile
  <2> QED BY <1>3, <1>6, <2>1
<1>9. PICK s : s = Shortened(h, keep) OBVIOUS
<1>10. /\ DOMAIN s.turns = 1 .. keep /\ 1 .. keep \subseteq DOMAIN h.turns
       /\ \A k \in 1 .. keep : s.turns[k] = h.turns[k]
  BY <1>7, <1>8, <1>9, ShortenedTurns
<1>11. IsFile(s)
  <2>1. Follows(h, h) BY <1>7, SelfFollows
  <2>2. Follows(h, Shortened(h, keep)) BY <1>7, <1>8, <2>1, FollowsShortened
  <2> QED BY <1>9, <2>2 DEF Follows
<1>12. PICK l : l = Linked(s, "graft", BehaviorDigest(f)) OBVIOUS
<1>13. l.turns = s.turns BY <1>11, <1>12, LinkedTurns
<1>14. DOMAIN l.turns \subseteq DOMAIN g.turns /\ \A k \in DOMAIN l.turns : l.turns[k] = g.turns[k]
  BY <1>6, <1>10, <1>13
<1>15. AnswersHold(l) BY <1>2, <1>14, SameHold
<1>16. Grafted(f, i, t, keep) = l BY <1>1, <1>5, <1>9, <1>12 DEF Grafted
<1> QED BY <1>15, <1>16

LEMMA BranchHolds ==
  ASSUME NEW f, IsFile(f), AnswersHold(f), NEW n \in 0 .. Len(f.turns)
  PROVE  AnswersHold(BranchSeed(f, n))
<1>1. PICK s : s = Shortened(f, n) OBVIOUS
<1>2. DOMAIN s.turns = 1 .. n /\ 1 .. n \subseteq DOMAIN f.turns /\ \A k \in 1 .. n : s.turns[k] = f.turns[k]
  BY <1>1, ShortenedTurns
<1>3. IsFile(s)
  <2>1. Follows(f, f) BY SelfFollows
  <2>2. Follows(f, Shortened(f, n)) BY <2>1, FollowsShortened
  <2> QED BY <1>1, <2>2 DEF Follows
<1>4. PICK h : h = [s EXCEPT !.notice = "seed"] OBVIOUS
<1>5. h.turns = s.turns BY <1>3, <1>4, FileChanged
<1>6. DOMAIN h.turns \subseteq DOMAIN f.turns /\ \A k \in DOMAIN h.turns : h.turns[k] = f.turns[k] BY <1>2, <1>5
<1>7. AnswersHold(h) BY <1>6, SameHold
<1>8. BranchSeed(f, n) = h BY <1>1, <1>4 DEF BranchSeed
<1> QED BY <1>7, <1>8

LEMMA DistilledHold ==
  ASSUME NEW f, IsFile(f), AnswersHold(f), NEW i, NEW t,
         i \in DOMAIN f.turns /\ f.turns[i].kind = "http" => Told(t)
  PROVE  AnswersHold(Distilled(f, i, t))
<1>1. PICK g : g = Spliced(f, i, t) OBVIOUS
<1>2. AnswersHold(g) BY <1>1, SplicedHold
<1>3. Follows(f, g) BY <1>1, SplicedFollows
<1>4. IsFile(g) BY <1>3 DEF Follows
<1>5. PICK h : h = [g EXCEPT !.notice = "distilled"] OBVIOUS
<1>6. h.turns = g.turns BY <1>4, <1>5, FileChanged
<1>7. IsFile(h)
  <2>1. Follows(f, [g EXCEPT !.notice = "distilled"]) BY <1>3, FollowsNotice
  <2> QED BY <1>5, <2>1 DEF Follows
<1>8. PICK l : l = Linked(h, "distill", BehaviorDigest(f)) OBVIOUS
<1>9. l.turns = g.turns BY <1>6, <1>7, <1>8, LinkedTurns
<1>10. AnswersHold(l) BY <1>2, <1>9, SameHold
<1>11. Distilled(f, i, t) = l BY <1>1, <1>5, <1>8 DEF Distilled
<1> QED BY <1>10, <1>11

\* What canonicalize makes of a turn.
LEMMA CanonicalHolds ==
  ASSUME NEW it, IsTurn(it), IsAnswer(Symbols, it)
  PROVE  IsAnswer(Symbols, CanonicalTurn(it))
<1>1. CASE ~Streamed(it) BY <1>1 DEF CanonicalTurn
<1>2. CASE Streamed(it)
  <2>1. it.dialect \in Dialects /\ it.streaming /\ Told(TurnOf(it)) BY <1>2, TurnStreamed
  <2>2. PICK body : body = Encode(it.dialect, TurnOf(it)) OBVIOUS
  <2>3. body \in Streams BY <2>1, <2>2, EncodeTyped
  <2>4. it.streaming = TRUE BY <1>2, <2>1 DEF IsAnswer, Streamed
  <2>5. CanonicalTurn(it) = it \/ CanonicalTurn(it) = Answered(it, TRUE, body) BY <1>2, <2>2, <2>4 DEF CanonicalTurn
  <2> QED BY <2>3, <2>5, AnsweredHolds
<1> QED BY <1>1, <1>2

LEMMA CanonicalizedHold ==
  ASSUME NEW f, IsFile(f), AnswersHold(f)
  PROVE  /\ AnswersHold(CanonicalizeFile(f))
         /\ CanonicalizeFile(f).turns = [i \in DOMAIN f.turns |-> CanonicalTurn(f.turns[i])]
         /\ CanonicalizeFile(f).expect = f.expect
<1>1. PICK turns : turns = [i \in DOMAIN f.turns |-> CanonicalTurn(f.turns[i])] OBVIOUS
<1>2. PICK g : g = CanonicalizeFile(f) OBVIOUS
<1>3. g = [f EXCEPT !.turns = turns] BY <1>1, <1>2 DEF CanonicalizeFile
<1>4. g.turns = turns /\ g.expect = f.expect BY <1>3, FileChanged
<1>5. \A i \in DOMAIN f.turns : IsAnswer(Symbols, CanonicalTurn(f.turns[i])) BY CanonicalHolds DEF IsFile, AnswersHold
<1>6. AnswersHold(g) BY <1>1, <1>4, <1>5 DEF AnswersHold
<1> QED BY <1>1, <1>2, <1>4, <1>6

LEMMA MutatedHold ==
  ASSUME NEW f, IsFile(f), AnswersHold(f), NEW op \in MutationOps, NEW n \in 0 .. 1
  PROVE  AnswersHold(Mutated(f, op, n))
<1>1. PICK turns : turns = [i \in DOMAIN f.turns |-> MutatedTurn(f.turns[i], op, n)] OBVIOUS
<1>2. PICK g : g = Mutated(f, op, n) OBVIOUS
<1>3. g = [f EXCEPT !.turns = turns] BY <1>1, <1>2 DEF Mutated
<1>4. g.turns = turns BY <1>3, FileChanged
<1>5. ASSUME NEW i \in DOMAIN f.turns PROVE IsAnswer(Symbols, turns[i])
  <2>1. PICK it : it = f.turns[i] OBVIOUS
  <2>2. IsTurn(it) /\ IsAnswer(Symbols, it) BY <2>1 DEF IsFile, AnswersHold
  <2>3. PICK jt : jt = MutatedTurn(it, op, n) OBVIOUS
  <2> SUFFICES IsAnswer(Symbols, jt) BY <1>1, <2>1, <2>3
  <2>4. CASE jt = it BY <2>2, <2>4
  <2>5. CASE jt # it
    <3>1. it.streaming /\ it.body # Absent /\ jt = [it EXCEPT !.body = Joined(Mutation(op, Frames(@), n))]
      BY <2>3, <2>5 DEF MutatedTurn
    <3>2. PICK body : body = Joined(Mutation(op, Frames(it.body), n)) OBVIOUS
    <3>3. jt = [it EXCEPT !.body = body] BY <3>1, <3>2
    <3>4. jt.kind = it.kind /\ jt.dialect = it.dialect /\ jt.streaming = it.streaming /\ jt.body = body
      BY <2>2, <3>3 DEF IsTurn
    <3>5. ASSUME it.kind = "http" PROVE body \in Streams
      <4>1. it.body \in Streams BY <2>2, <3>1, <3>5 DEF IsAnswer, Streams
      <4> QED BY <3>2, <4>1, DamagedTyped
    <3> QED BY <2>2, <3>4, <3>5 DEF IsAnswer, Streams
  <2> QED BY <2>4, <2>5
<1>6. AnswersHold(g) BY <1>1, <1>4, <1>5 DEF AnswersHold
<1> QED BY <1>2, <1>6

\* What port makes of a turn.
LEMMA PortedIs ==
  ASSUME NEW it, NEW to
  PROVE  \/ PortedTurn(it, to) = it
         \/ /\ Streamed(it) /\ it.dialect # to
            /\ \E request, key : PortedTurn(it, to) = HTTP(to, request, TRUE, Encode(to, TurnOf(it)), key)
<1>1. PICK request : request = EncodeRequest(to, DecodeRequest(it.dialect, it.request)) OBVIOUS
<1>2. \/ ~Streamed(it) \/ it.dialect = to \/ DecodeFails(it.dialect, it.body)
      \/ PortedTurn(it, to) = HTTP(to, request, TRUE, Encode(to, TurnOf(it)), HTTPKey("none", to, request))
  BY <1>1 DEF PortedTurn
<1>3. ~Streamed(it) \/ it.dialect = to \/ DecodeFails(it.dialect, it.body) => PortedTurn(it, to) = it BY DEF PortedTurn
<1> QED BY <1>2, <1>3

LEMMA PortedHolds ==
  ASSUME NEW it, IsAnswer(Symbols, it), NEW to \in Dialects
  PROVE  IsAnswer(Symbols, PortedTurn(it, to))
<1>1. CASE PortedTurn(it, to) = it BY <1>1
<1>2. CASE PortedTurn(it, to) # it
  <2>0. /\ Streamed(it)
        /\ \E request, key : PortedTurn(it, to) = HTTP(to, request, TRUE, Encode(to, TurnOf(it)), key)
    BY <1>2, PortedIs
  <2>1. PICK request, key : Streamed(it) /\ PortedTurn(it, to) = HTTP(to, request, TRUE, Encode(to, TurnOf(it)), key)
    BY <2>0
  <2>2. Told(TurnOf(it)) BY <2>1, TurnStreamed
  <2>3. PICK body : body = Encode(to, TurnOf(it)) OBVIOUS
  <2>4. body \in Streams BY <2>2, <2>3, EncodeTyped
  <2>5. PortedTurn(it, to) = HTTP(to, request, TRUE, body, key) BY <2>1, <2>3
  <2> QED BY <2>4, <2>5 DEF HTTP, IsAnswer, Streams
<1> QED BY <1>1, <1>2

LEMMA PortHolds ==
  ASSUME NEW f, IsFile(f), AnswersHold(f), NEW to \in Dialects, NEW op, NEW g, g \in {Port(f, to), Stamped(Port(f, to), f, op)}
  PROVE  /\ AnswersHold(g) /\ g.turns = [i \in DOMAIN f.turns |-> PortedTurn(f.turns[i], to)] /\ g.expect = f.expect
<1>1. PICK turns : turns = [i \in DOMAIN f.turns |-> PortedTurn(f.turns[i], to)] OBVIOUS
<1>2. PICK h : h = Port(f, to) OBVIOUS
<1>3. h = Remade(f, turns) BY <1>1, <1>2 DEF Port
<1>4. h = [notice |-> f.notice, expect |-> f.expect, match |-> "none", provenance |-> <<>>, turns |-> turns]
  BY <1>3 DEF Remade
<1>5. g.turns = turns /\ g.expect = f.expect
  <2>1. CASE g = h BY <1>4, <2>1
  <2>2. CASE g # h
    <3>1. g = Stamped(h, f, op) BY <1>2, <2>2
    <3>2. g = Linked([h EXCEPT !.provenance = f.provenance], op, BehaviorDigest(f)) BY <3>1 DEF Stamped
    <3>3. PICK s : s = [h EXCEPT !.provenance = f.provenance] OBVIOUS
    <3>4. s = [notice |-> f.notice, expect |-> f.expect, match |-> "none", provenance |-> f.provenance, turns |-> turns]
      BY <1>4, <3>3
    <3>5. g = Linked(s, op, BehaviorDigest(f)) BY <3>2, <3>3
    <3>6. PICK x : x = Append(s.provenance, [op |-> op, from |-> BehaviorDigest(f)]) OBVIOUS
    <3>7. g = [s EXCEPT !.provenance = x] BY <3>5, <3>6 DEF Linked
    <3> QED BY <3>4, <3>7
  <2> QED BY <2>1, <2>2
<1>6. \A i \in DOMAIN f.turns : IsAnswer(Symbols, PortedTurn(f.turns[i], to)) BY PortedHolds DEF AnswersHold
<1>7. AnswersHold(g) BY <1>1, <1>5, <1>6 DEF AnswersHold
<1> QED BY <1>1, <1>5, <1>7

\* What author compiles.
LEMMA CompiledHold ==
  ASSUME NEW s \in Screenplays, ~CompileFails(s)
  PROVE  AnswersHold(Compile(s))
<1>1. PICK turns : turns = [i \in DOMAIN s.turns |->
                              IF s.turns[i].kind = "mcp" THEN CompiledMCP(s.turns[i])
                              ELSE CompiledHTTP(s.provider, s.turns[i], Said(s.turns, i))]
  OBVIOUS
<1>2. ASSUME NEW i \in DOMAIN s.turns PROVE IsAnswer(Symbols, turns[i])
  <2>1. PICK t : t = s.turns[i] OBVIOUS
  <2>2. CASE t.kind = "mcp"
    <3>1. turns[i] = CompiledMCP(t) BY <1>1, <2>1, <2>2
    <3>2. PICK method, tool, args, body : turns[i] = MCP(method, tool, args, body) BY <3>1 DEF CompiledMCP
    <3>3. turns[i].kind # "http" BY <3>2 DEF MCP
    <3> QED BY <3>3 DEF IsAnswer
  <2>3. CASE t.kind # "mcp"
    <3>1. s.provider \in Dialects BY <2>1, <2>3 DEF CompileFails
    <3>2. /\ t.text \in Seq(Words) /\ t.finish \in Words /\ t.url \in Dialects \cup {""}
          /\ t.calls \in Seq([name : Words, args : Seq(Words)])
      BY <2>1, ScreenplaysAssumption
    <3>3. PICK spoken : spoken = t.calls OBVIOUS
    <3>4. PICK n \in Nat : n = Len(spoken) /\ DOMAIN spoken = 1 .. n BY <3>2, <3>3, LenProperties
    <3>5. PICK w : w = [k \in DOMAIN spoken |-> ToolCall(spoken[k].name, spoken[k].args)] OBVIOUS
    <3>6. ASSUME NEW k \in 1 .. n PROVE w[k] \in ToolCalls
      <4>1. PICK c : c = spoken[k] OBVIOUS
      <4>2. c \in [name : Words, args : Seq(Words)] BY <3>2, <3>3, <3>4, <4>1, ElementOfSeq
      <4>3. c.name \in Symbols /\ c.args \in Seq(Symbols) BY <4>2, WordsHold
      <4>4. w[k] = ToolCall(c.name, c.args) BY <3>4, <3>5, <4>1
      <4> QED BY <4>3, <4>4, CallMade
    <3>7. w \in [1 .. n -> ToolCalls] BY <3>4, <3>5, <3>6
    <3>8. w \in Seq(ToolCalls) BY <3>7, SeqDef
    <3>9. Scripted(t) = Transcript(t.text, w, t.finish) BY <3>3, <3>5 DEF Scripted
    <3>10. t.text \in Seq(Symbols) /\ t.finish \in Symbols BY <3>2, WordsHold
    <3>11. Told(Scripted(t)) BY <3>8, <3>9, <3>10 DEF Told
    <3>12. PICK body : body = Encode(s.provider, Scripted(t)) OBVIOUS
    <3>13. body \in Streams BY <3>1, <3>11, <3>12, EncodeTyped
    <3>14. PICK msgs : msgs = Said(s.turns, i) OBVIOUS
    <3>15. PICK route : route = IF t.url = "" THEN s.provider ELSE t.url OBVIOUS
    <3>16. route \in Dialects BY <3>1, <3>2, <3>15
    <3>17. PICK request : request = Request("messages", <<>>, Append(msgs, Message("user", t.user)), <<>>) OBVIOUS
    <3>18. turns[i] = CompiledHTTP(s.provider, t, msgs) BY <1>1, <2>1, <2>3, <3>14
    <3>19. turns[i] = HTTP(route, request, TRUE, body, HTTPKey("none", route, request))
      BY <3>12, <3>15, <3>17, <3>18 DEF CompiledHTTP
    <3> QED BY <3>13, <3>16, <3>19 DEF HTTP, IsAnswer, Streams
  <2> QED BY <2>2, <2>3
<1>3. PICK f : f = Compile(s) OBVIOUS
<1>4. f.turns = turns BY <1>1, <1>3 DEF Compile, File
<1>5. AnswersHold(f) BY <1>1, <1>2, <1>4 DEF AnswersHold
<1> QED BY <1>3, <1>5

\* No command writes an answer that no decoder can read.
AnswersInv == \A p \in DOMAIN disk : AnswersHold(disk[p])

\* The commands that say they preserve what a recording shows.
Preserving == {"canonicalize", "migrate", "fuzz", "port"}

LEMMA InitAnswers == DeriveInit => AnswersInv
<1> SUFFICES ASSUME DeriveInit PROVE AnswersInv OBVIOUS
<1>1. DOMAIN disk = DOMAIN Goldens /\ \A p \in DOMAIN disk : disk[p] \in Goldens[p] BY DEF DeriveInit
<1>2. ASSUME NEW p \in DOMAIN disk PROVE AnswersHold(disk[p])
  <2>1. \A i \in DOMAIN disk[p].turns : IsAnswer(Words, disk[p].turns[i]) BY <1>1, GoldensAssumption
  <2> QED BY <2>1, AnswersMore DEF AnswersHold
<1> QED BY <1>2 DEF AnswersInv

LEMMA AnswersOver ==
  ASSUME AnswersInv, NEW written, disk' = Over(written, disk), \A q \in DOMAIN written : AnswersHold(written[q])
  PROVE  AnswersInv'
<1>1. ASSUME NEW q \in DOMAIN disk' PROVE AnswersHold(disk'[q])
  <2>1. DOMAIN disk' = DOMAIN written \cup DOMAIN disk /\ disk'[q] = IF q \in DOMAIN written THEN written[q] ELSE disk[q]
    BY DEF Over
  <2> QED BY <2>1 DEF AnswersInv
<1>2. \A q \in DOMAIN disk' : AnswersHold(disk[q])' BY <1>1 DEF AnswersHold
<1> QED BY <1>2 DEF AnswersInv

\* What a command that saves leaves behind.
LEMMA SavedAll ==
  ASSUME NEW op, NEW i, NEW edits, NEW to, NEW written, NEW from, SaveAll(EditOf(op, i, edits, to), written, from)
  PROVE  /\ disk' = Over(written, disk)
         /\ last'.op = op /\ last'.to = to /\ last'.from = [q \in DOMAIN written |-> disk[from[q]]]
         /\ Written' = DOMAIN written /\ \A q \in DOMAIN written : disk'[q] = written[q]
<1>1. disk' = Over(written, disk) BY DEF SaveAll
<1>2. last' = [EditOf(op, i, edits, to) EXCEPT !.from = [q \in DOMAIN written |-> disk[from[q]]]] BY DEF SaveAll
<1>3. PICK read : read = [q \in DOMAIN written |-> disk[from[q]]] OBVIOUS
<1>4. last' = [op |-> op, from |-> read, at |-> i, edits |-> edits, to |-> to] BY <1>2, <1>3 DEF EditOf
<1>5. last'.op = op /\ last'.to = to /\ last'.from = read BY <1>4
<1>6. Written' = DOMAIN written BY <1>3, <1>5 DEF Written
<1>7. \A q \in DOMAIN written : disk'[q] = written[q] BY <1>1 DEF Over
<1> QED BY <1>1, <1>3, <1>5, <1>6, <1>7

LEMMA SavedOne ==
  ASSUME AnswersInv, NEW op, NEW i, NEW edits, NEW to, NEW p, NEW out, NEW f,
         SaveOne(EditOf(op, i, edits, to), p, out, f), AnswersHold(f)
  PROVE  /\ AnswersInv' /\ last'.op = op /\ last'.to = to
         /\ Written' = {out} /\ disk'[out] = f /\ last'.from[out] = disk[p]
<1>1. PICK written : written = [q \in {out} |-> f] OBVIOUS
<1>2. PICK from : from = [q \in {out} |-> p] OBVIOUS
<1>3. SaveAll(EditOf(op, i, edits, to), written, from) BY <1>1, <1>2 DEF SaveOne
<1>4. DOMAIN written = {out} /\ written[out] = f /\ from[out] = p BY <1>1, <1>2
<1>5. AnswersInv' /\ last'.op = op /\ last'.to = to BY <1>3, <1>4, SavedAll, AnswersOver
<1>6. Written' = {out} /\ disk'[out] = f /\ last'.from[out] = disk[p]
  <2>1. last'.from = [q \in DOMAIN written |-> disk[from[q]]] /\ Written' = DOMAIN written
        /\ \A q \in DOMAIN written : disk'[q] = written[q]
    BY <1>3, SavedAll
  <2>2. out \in DOMAIN written BY <1>4
  <2>3. last'.from[out] = disk[from[out]] BY <2>1, <2>2
  <2> QED BY <1>4, <2>1, <2>2, <2>3
<1> QED BY <1>5, <1>6

LEMMA SavedVariants ==
  ASSUME AnswersInv, NEW op, NEW i, NEW edits, NEW to, NEW p, NEW made,
         SaveVariants(EditOf(op, i, edits, to), p, made), \A v \in made : AnswersHold(v[2])
  PROVE  AnswersInv' /\ last'.op = op
<1> DEFINE paths == {VariantOf(p, v[1]) : v \in made}
<1>1. PICK written : written = [q \in paths |-> (CHOOSE v \in made : VariantOf(p, v[1]) = q)[2]] OBVIOUS
<1>2. PICK from : from = [q \in paths |-> p] OBVIOUS
<1>3. SaveAll(EditOf(op, i, edits, to), written, from) BY <1>1, <1>2 DEF SaveVariants
<1>4. \A q \in paths : (CHOOSE v \in made : VariantOf(p, v[1]) = q) \in made OBVIOUS
<1>5. DOMAIN written = paths /\ \A q \in paths : AnswersHold(written[q]) BY <1>1, <1>4
<1> HIDE DEF paths
<1> QED BY <1>3, <1>5, SavedAll, AnswersOver

\* What a renderable turn holds.
LEMMA RenderedTold ==
  ASSUME NEW it, IsAnswer(Symbols, it), DecodeInteraction(it).renderable, it.kind = "http"
  PROVE  Told(TurnOf(it))
BY TurnStreamed DEF Streamed

LEMMA GraftAnswers ==
  ASSUME DeriveInv, AnswersInv, NEW p \in DOMAIN disk, NEW out, NEW i \in Turns(p), NEW edits \in EditLists \cup {<<>>}, NEW dropped,
         NEW keep \in 0 .. Len(disk[p].turns), Graft(p, out, i, edits, dropped, keep)
  PROVE  AnswersInv' /\ last'.op \notin Preserving
<1>1. PICK f : f = disk[p] OBVIOUS
<1>2. IsFile(f) /\ AnswersHold(f) BY <1>1 DEF DeriveInv, FilesInv, AnswersInv
<1>3. PICK t : t = ApplyGraftEdits(TurnOf(f.turns[i]), edits, dropped) OBVIOUS
<1>4. edits \in Seq(EditsOf(Words))
  <2>1. <<>> \in Seq(EditsOf(Words)) OBVIOUS
  <2>2. EditLists \subseteq Seq(EditsOf(Words)) BY DeriveAssumption
  <2> QED BY <2>1, <2>2
<1>5. ASSUME f.turns[i].kind = "http" PROVE Told(t)
  <2>1. IsAnswer(Symbols, f.turns[i]) BY <1>1, <1>2 DEF AnswersHold, Turns
  <2>2. DecodeInteraction(f.turns[i]).renderable /\ ~GraftEditsFail(TurnOf(f.turns[i]), edits) BY <1>1 DEF Graft
  <2>3. PICK u : u = TurnOf(f.turns[i]) OBVIOUS
  <2>4. Told(u) BY <1>5, <2>1, <2>2, <2>3, RenderedTold
  <2> QED BY <1>3, <1>4, <2>2, <2>3, <2>4, GraftTold
<1>6. PICK g : g = Grafted(f, i, t, keep) OBVIOUS
<1>7. AnswersHold(g) BY <1>1, <1>2, <1>5, <1>6, GraftedHold
<1>8. SaveOne(EditOf("graft", i, edits, ""), p, out, g) \/ SaveOne(EditOf("graft-more", 0, <<>>, ""), p, out, g)
  BY <1>1, <1>3, <1>6 DEF Graft, Command
<1>9. AnswersInv' /\ (last'.op = "graft" \/ last'.op = "graft-more") BY <1>7, <1>8, SavedOne
<1> QED BY <1>9 DEF Preserving

LEMMA BranchAnswers ==
  ASSUME DeriveInv, AnswersInv, NEW p \in DOMAIN disk, NEW out, NEW i \in Turns(p), NEW edits \in EditLists \cup {<<>>},
         Branch(p, out, i, edits)
  PROVE  AnswersInv' /\ last'.op \notin Preserving
<1>1. PICK f : f = disk[p] OBVIOUS
<1>2. IsFile(f) /\ AnswersHold(f) BY <1>1 DEF DeriveInv, FilesInv, AnswersInv
<1>3. PICK t : t = ApplyGraftEdits(TurnOf(f.turns[i]), edits, {}) OBVIOUS
<1>4. edits \in Seq(EditsOf(Words))
  <2>1. <<>> \in Seq(EditsOf(Words)) OBVIOUS
  <2>2. EditLists \subseteq Seq(EditsOf(Words)) BY DeriveAssumption
  <2> QED BY <2>1, <2>2
<1>5. PICK g : g = IF edits = <<>> THEN f ELSE Spliced(f, i, t) OBVIOUS
<1>6. AnswersHold(g)
  <2>1. CASE edits = <<>> BY <1>2, <1>5, <2>1
  <2>2. CASE edits # <<>>
    <3>1. ASSUME f.turns[i].kind = "http" PROVE Told(t)
      <4>1. IsAnswer(Symbols, f.turns[i]) BY <1>1, <1>2 DEF AnswersHold, Turns
      <4>2. DecodeInteraction(f.turns[i]).renderable /\ ~GraftEditsFail(TurnOf(f.turns[i]), edits) BY <1>1, <2>2 DEF Branch
      <4>3. PICK u : u = TurnOf(f.turns[i]) OBVIOUS
      <4>4. Told(u) BY <3>1, <4>1, <4>2, <4>3, RenderedTold
      <4> QED BY <1>3, <1>4, <4>2, <4>3, <4>4, GraftTold
    <3>2. AnswersHold(Spliced(f, i, t)) BY <1>2, <3>1, SplicedHold
    <3> QED BY <1>5, <2>2, <3>2
  <2> QED BY <2>1, <2>2
<1>7. Follows(f, g) /\ DOMAIN g.turns = DOMAIN f.turns BY <1>2, <1>5, SelfFollows, SplicedFollows
<1>8. IsFile(g) /\ i \in 0 .. Len(g.turns)
  <2>1. IsFile(g) BY <1>7 DEF Follows
  <2>2. DOMAIN g.turns = 1 .. Len(g.turns) /\ Len(g.turns) \in Nat BY <2>1, LenProperties DEF IsFile
  <2> QED BY <1>1, <1>7, <2>1, <2>2 DEF Turns
<1>9. PICK h : h = BranchSeed(g, i) OBVIOUS
<1>10. AnswersHold(h) BY <1>6, <1>8, <1>9, BranchHolds
<1>11. SaveOne(EditOf("branch", i, edits, ""), p, out, h) BY <1>1, <1>3, <1>5, <1>9 DEF Branch
<1>12. AnswersInv' /\ last'.op = "branch" BY <1>10, <1>11, SavedOne
<1> QED BY <1>12 DEF Preserving

LEMMA DistillAnswers ==
  ASSUME DeriveInv, AnswersInv, NEW p \in DOMAIN disk, NEW i \in Turns(p), NEW slot \in Slots, Distill(p, i, slot)
  PROVE  AnswersInv' /\ last'.op \notin Preserving
<1>1. PICK f : f = disk[p] OBVIOUS
<1>2. IsFile(f) /\ AnswersHold(f) BY <1>1 DEF DeriveInv, FilesInv, AnswersInv
<1>3. PICK t : t = TurnOf(f.turns[i]) OBVIOUS
<1>4. slot \in Seq(EditsOf(Words)) BY DeriveAssumption
<1>5. PICK n \in Nat : n = Len(slot) /\ DOMAIN slot = 1 .. n BY <1>4, LenProperties
<1> DEFINE fits == {m \in DOMAIN slot : ~\E l \in 1 .. m : EditFails(t, slot[l])}
<1> DEFINE made == {<<ToString(k), Distilled(f, i, Edited(t, slot[k]))>> : k \in fits}
<1>6. SaveVariants(EditOf("distill", i, slot, ""), p, made) BY <1>1, <1>3 DEF Distill
<1>7. \A v \in made : \E k \in fits : v[2] = Distilled(f, i, Edited(t, slot[k])) OBVIOUS
<1>8. ASSUME NEW k \in fits PROVE AnswersHold(Distilled(f, i, Edited(t, slot[k])))
  <2>1. k \in 1 .. n /\ k \in 1 .. k BY <1>5
  <2>2. PICK e : e = slot[k] OBVIOUS
  <2>3. e \in EditsOf(Words) BY <1>4, <1>5, <2>1, <2>2, ElementOfSeq
  <2>4. ~EditFails(t, e) BY <2>1, <2>2
  <2>5. e.slot \in {"name", "args"} => e.index \in DOMAIN t.tools BY <2>4 DEF EditFails
  <2>6. PICK u : u = Edited(t, e) OBVIOUS
  <2>7. ASSUME f.turns[i].kind = "http" PROVE Told(u)
    <3>1. IsAnswer(Symbols, f.turns[i]) BY <1>1, <1>2 DEF AnswersHold, Turns
    <3>2. DecodeInteraction(f.turns[i]).renderable BY <1>1 DEF Distill
    <3>3. Told(t) BY <1>3, <2>7, <3>1, <3>2, RenderedTold
    <3> QED BY <2>3, <2>5, <2>6, <3>3, EditedTold
  <2>8. AnswersHold(Distilled(f, i, u)) BY <1>2, <2>7, DistilledHold
  <2> QED BY <2>2, <2>6, <2>8
<1> HIDE DEF made, fits
<1>9. \A v \in made : AnswersHold(v[2]) BY <1>7, <1>8
<1>10. AnswersInv' /\ last'.op = "distill" BY <1>6, <1>9, SavedVariants
<1> QED BY <1>10 DEF Preserving

\* The n-th http turn is one.
LEMMA NthIs ==
  ASSUME NEW f, NEW n, NthHTTPIndex(f, n) # 0
  PROVE  NthHTTPIndex(f, n) \in DOMAIN f.turns /\ f.turns[NthHTTPIndex(f, n)].kind = "http"
BY DEF NthHTTPIndex

LEMMA ScenarioAnswers ==
  ASSUME DeriveInv, AnswersInv, NEW p \in DOMAIN disk, NEW n, ScenarioOf(p, n)
  PROVE  AnswersInv' /\ last'.op \notin Preserving
<1>1. PICK f : f = disk[p] OBVIOUS
<1>2. IsFile(f) /\ AnswersHold(f) BY <1>1 DEF DeriveInv, FilesInv, AnswersInv
<1>3. PICK i : i = NthHTTPIndex(f, n) OBVIOUS
<1>4. PICK it : it = f.turns[i] OBVIOUS
<1>5. i # 0 /\ Streamed(it) /\ SaveVariants(EditOf("scenario", i, <<>>, ""), p, Scenario(f, i))
  BY <1>1, <1>3, <1>4 DEF ScenarioOf
<1>6. i \in DOMAIN f.turns /\ IsAnswer(Symbols, it) BY <1>2, <1>3, <1>4, <1>5, NthIs DEF AnswersHold
<1>7. it.dialect \in Dialects /\ Told(TurnOf(it)) BY <1>5, <1>6, TurnStreamed
<1>8. PICK t : t = TurnOf(it) OBVIOUS
<1>9. ASSUME NEW v \in Scenario(f, i) PROVE AnswersHold(v[2])
  <2>1. \/ \E x \in Variants(t) : v = <<x[1], WithResponse(f, i, Encode(it.dialect, x[2]))>>
        \/ v = <<"provider-error", WithResponse(f, i, ErrorStream)>>
    BY <1>4, <1>8 DEF Scenario
  <2>2. CASE \E x \in Variants(t) : v = <<x[1], WithResponse(f, i, Encode(it.dialect, x[2]))>>
    <3>1. PICK x \in Variants(t) : v = <<x[1], WithResponse(f, i, Encode(it.dialect, x[2]))>> BY <2>2
    <3>2. Told(x[2]) BY <1>7, <1>8, VariantTold
    <3>3. PICK body : body = Encode(it.dialect, x[2]) OBVIOUS
    <3>4. body \in Streams BY <1>7, <3>2, <3>3, EncodeTyped
    <3>5. AnswersHold(WithResponse(f, i, body)) BY <1>2, <3>4, ResponseHolds
    <3>6. v[2] = WithResponse(f, i, body) BY <3>1, <3>3
    <3> QED BY <3>5, <3>6
  <2>3. CASE v = <<"provider-error", WithResponse(f, i, ErrorStream)>>
    <3>1. v[2] = WithResponse(f, i, ErrorStream) BY <2>3
    <3>2. AnswersHold(WithResponse(f, i, ErrorStream)) BY <1>2, ErrorIs, ResponseHolds
    <3> QED BY <3>1, <3>2
  <2> QED BY <2>1, <2>2, <2>3
<1>10. AnswersInv' /\ last'.op = "scenario" BY <1>5, <1>9, SavedVariants
<1> QED BY <1>10 DEF Preserving

LEMMA MutateAnswers ==
  ASSUME DeriveInv, AnswersInv, NEW p \in DOMAIN disk, NEW out, NEW op \in MutationOps, NEW n \in 0 .. 1, Mutate(p, out, op, n)
  PROVE  AnswersInv' /\ last'.op \notin Preserving
<1>1. SaveOne(EditOf("mutate", 0, <<>>, ""), p, out, Mutated(disk[p], op, n)) BY DEF Mutate, Command
<1>2. IsFile(disk[p]) /\ AnswersHold(disk[p]) BY DEF DeriveInv, FilesInv, AnswersInv
<1>3. AnswersHold(Mutated(disk[p], op, n)) BY <1>2, MutatedHold
<1>4. AnswersInv' /\ last'.op = "mutate" BY <1>1, <1>3, SavedOne
<1> QED BY <1>4 DEF Preserving

LEMMA ShrinkAnswers ==
  ASSUME DeriveInv, AnswersInv, NEW dirs, ShrinkCorpus(dirs)
  PROVE  AnswersInv' /\ last'.op \notin Preserving
<1>1. PICK kept : kept = Shrink([p \in Listed(dirs[1]) |-> disk[p]]) OBVIOUS
<1>2. kept \subseteq DOMAIN disk BY <1>1, ShrinkWithin DEF Listed
<1>3. PICK from : from = Copies(kept, dirs[2]) OBVIOUS
<1>4. \A q \in DOMAIN from : from[q] \in DOMAIN disk BY <1>2, <1>3, CopiesFrom
<1>5. PICK read : read = [q \in DOMAIN from |-> disk[from[q]]] OBVIOUS
<1>6. disk' = Over(read, disk) /\ last'.op = "shrink" BY <1>1, <1>3, <1>5 DEF ShrinkCorpus, Toward, EditOf
<1>7. \A q \in DOMAIN read : AnswersHold(read[q]) BY <1>4, <1>5 DEF AnswersInv
<1> QED BY <1>6, <1>7, AnswersOver DEF Preserving

LEMMA AuthorAnswers ==
  ASSUME DeriveInv, AnswersInv, NEW out, NEW s \in Screenplays, Author(out, s)
  PROVE  AnswersInv' /\ last'.op \notin Preserving
<1>1. PICK f : f = Compile(s) OBVIOUS
<1>2. AnswersHold(f) BY <1>1, CompiledHold DEF Author
<1>3. PICK new : new = [q \in {out} |-> f] OBVIOUS
<1>4. disk' = Over(new, disk) BY <1>1, <1>3 DEF Author
<1>5. last'.op = "author" BY DEF Author, EditOf
<1>6. \A q \in DOMAIN new : AnswersHold(new[q]) BY <1>2, <1>3
<1> QED BY <1>4, <1>5, <1>6, AnswersOver DEF Preserving

(***************************************************************************)
(* The turns that are compared                                             *)
(***************************************************************************)

\* One more turn, if it can be shown.
Collected(got, it) == IF DecodeInteraction(it).renderable THEN Append(got, TurnOf(it)) ELSE got

LEMMA CollectDef ==
  ASSUME NEW src, NEW ss, ss = src.turns, Len(ss) \in Nat
  PROVE  \E f : /\ f = [k \in 0 .. Len(ss) |-> IF k = 0 THEN <<>> ELSE Collected(f[k - 1], ss[k])]
               /\ CollectTurns(src) = f[Len(ss)]
<1> DEFINE Fold(g, m) == g = [k \in 0 .. m |-> IF k = 0 THEN <<>> ELSE Collected(g[k - 1], ss[k])]
           P == {m \in Nat : \E g : Fold(g, m)}
<1>1. 0 \in P
  <2>1. Fold([k \in 0 .. 0 |-> <<>>], 0) OBVIOUS
  <2> QED BY <2>1
<1>2. ASSUME NEW m \in Nat, m \in P PROVE m + 1 \in P
  <2>1. PICK g : Fold(g, m) BY <1>2
  <2> DEFINE h == [k \in 0 .. (m + 1) |-> IF k <= m THEN g[k] ELSE Collected(g[m], ss[(m + 1)])]
  <2>2. ASSUME NEW k \in 0 .. (m + 1)
        PROVE  h[k] = IF k = 0 THEN <<>> ELSE Collected(h[k - 1], ss[k])
    <3>1. CASE k = 0 BY <2>1, <3>1
    <3>2. CASE k \in 1 .. m
      <4>1. h[k] = g[k] /\ h[k - 1] = g[k - 1] BY <3>2
      <4>2. \A j \in 0 .. m : g[j] = IF j = 0 THEN <<>> ELSE Collected(g[j - 1], ss[j]) BY <2>1
      <4>3. g[k] = Collected(g[k - 1], ss[k]) BY <3>2, <4>2
      <4> QED BY <3>2, <4>1, <4>3
    <3>3. CASE k = m + 1
      <4>1. h[k] = Collected(g[m], ss[k]) /\ h[k - 1] = g[m] BY <3>3
      <4> QED BY <3>3, <4>1
    <3> QED BY <3>1, <3>2, <3>3
  <2>3. Fold(h, m + 1) BY <2>2
  <2> HIDE DEF h, Fold
  <2>4. \E x : Fold(x, m + 1) BY <2>3
  <2> QED BY <2>4
<1>3. Len(ss) \in P
  <2> HIDE DEF P
  <2>1. PICK l \in Nat : l = Len(ss) OBVIOUS
  <2>2. \A n \in 0 .. (l - 1) : n \in P => n + 1 \in P BY <1>2, <2>1
  <2>3. \A n \in 0 .. l : n \in P BY <1>1, <2>2, SetInduction
  <2> QED BY <2>1, <2>3
<1>4. PICK g : Fold(g, Len(ss)) BY <1>3
<1>5. CollectTurns(src) = (CHOOSE x : Fold(x, Len(ss)))[Len(ss)] BY DEF CollectTurns, Folded, Collected
<1> HIDE DEF Fold
<1>6. Fold((CHOOSE x : Fold(x, Len(ss))), Len(ss)) BY <1>4
<1> QED BY <1>5, <1>6 DEF Fold

\* The turns of the interactions that can be shown.
Showable(f) == {TurnOf(it) : it \in {f.turns[i] : i \in {k \in DOMAIN f.turns : DecodeInteraction(f.turns[k]).renderable}}}

LEMMA CollectedIn ==
  ASSUME NEW f, IsFile(f)
  PROVE  CollectTurns(f) \in Seq(Showable(f))
<1>1. PICK ss : ss = f.turns OBVIOUS
<1>2. PICK n \in Nat : n = Len(ss) /\ DOMAIN ss = 1 .. n BY <1>1, LenProperties DEF IsFile
<1>3. PICK S : S = Showable(f) OBVIOUS
<1>4. \E h : /\ h = [k \in 0 .. Len(ss) |-> IF k = 0 THEN <<>> ELSE Collected(h[k - 1], ss[k])]
             /\ CollectTurns(f) = h[Len(ss)]
  BY <1>1, <1>2, CollectDef
<1>5. PICK h : /\ h = [k \in 0 .. n |-> IF k = 0 THEN <<>> ELSE Collected(h[k - 1], ss[k])]
               /\ CollectTurns(f) = h[n]
  BY <1>2, <1>4
<1> DEFINE P == {k \in 0 .. n : h[k] \in Seq(S)}
<1>6. 0 \in P BY <1>5
<1>7. ASSUME NEW k \in 0 .. (n - 1), k \in P PROVE k + 1 \in P
  <2>1. k + 1 \in 1 .. n /\ (k + 1) - 1 = k /\ k + 1 \in 0 .. n OBVIOUS
  <2>2. PICK it : it = ss[k + 1] OBVIOUS
  <2>3. PICK got \in Seq(S) : got = h[k] BY <1>7
  <2>4. h[k + 1] = Collected(got, it) BY <1>5, <2>1, <2>2, <2>3
  <2>5. CASE ~DecodeInteraction(it).renderable
    <3>1. h[k + 1] = got BY <2>4, <2>5 DEF Collected
    <3> QED BY <2>1, <3>1
  <2>6. CASE DecodeInteraction(it).renderable
    <3>1. PICK t : t = TurnOf(it) OBVIOUS
    <3>2. t \in S BY <1>1, <1>2, <1>3, <2>1, <2>2, <2>6, <3>1 DEF Showable
    <3>3. h[k + 1] = Append(got, t) BY <2>4, <2>6, <3>1 DEF Collected
    <3>4. Append(got, t) \in Seq(S) BY <3>2, AppendProperties
    <3> QED BY <2>1, <3>3, <3>4
  <2> QED BY <2>5, <2>6
<1> HIDE DEF P
<1>8. \A k \in 0 .. n : k \in P BY <1>6, <1>7, SetInduction
<1>9. n \in P BY <1>8
<1>10. h[n] \in Seq(S) BY <1>9 DEF P
<1> QED BY <1>3, <1>5, <1>10

\* Files whose interactions show the same show the same.
LEMMA CollectedSame ==
  ASSUME NEW f, IsFile(f), NEW g, IsFile(g), DOMAIN g.turns = DOMAIN f.turns,
         \A i \in DOMAIN f.turns : /\ DecodeInteraction(g.turns[i]).renderable = DecodeInteraction(f.turns[i]).renderable
                                   /\ TurnOf(g.turns[i]) = TurnOf(f.turns[i])
  PROVE  CollectTurns(g) = CollectTurns(f)
<1>1. PICK ss : ss = f.turns OBVIOUS
<1>2. PICK tt : tt = g.turns OBVIOUS
<1>3. PICK n \in Nat : n = Len(ss) /\ DOMAIN ss = 1 .. n BY <1>1, LenProperties DEF IsFile
<1>4. n = Len(tt)
  <2>1. Len(tt) \in Nat /\ DOMAIN tt = 1 .. Len(tt) BY <1>2, LenProperties DEF IsFile
  <2> QED BY <1>1, <1>2, <1>3, <2>1
<1>5. \E h : /\ h = [k \in 0 .. Len(ss) |-> IF k = 0 THEN <<>> ELSE Collected(h[k - 1], ss[k])]
             /\ CollectTurns(f) = h[Len(ss)]
  BY <1>1, <1>3, CollectDef
<1>6. PICK a : /\ a = [k \in 0 .. n |-> IF k = 0 THEN <<>> ELSE Collected(a[k - 1], ss[k])]
               /\ CollectTurns(f) = a[n]
  BY <1>3, <1>5
<1>7. \E h : /\ h = [k \in 0 .. Len(tt) |-> IF k = 0 THEN <<>> ELSE Collected(h[k - 1], tt[k])]
             /\ CollectTurns(g) = h[Len(tt)]
  BY <1>2, <1>4, CollectDef
<1>8. PICK b : /\ b = [k \in 0 .. n |-> IF k = 0 THEN <<>> ELSE Collected(b[k - 1], tt[k])]
               /\ CollectTurns(g) = b[n]
  BY <1>4, <1>7
<1> DEFINE P == {k \in 0 .. n : a[k] = b[k]}
<1>9. 0 \in P BY <1>6, <1>8
<1>10. ASSUME NEW k \in 0 .. (n - 1), k \in P PROVE k + 1 \in P
  <2>1. k + 1 \in 1 .. n /\ (k + 1) - 1 = k /\ k + 1 \in 0 .. n OBVIOUS
  <2>2. a[k] = b[k] BY <1>10
  <2>3. PICK it : it = ss[k + 1] OBVIOUS
  <2>4. PICK jt : jt = tt[k + 1] OBVIOUS
  <2>5. DecodeInteraction(jt).renderable = DecodeInteraction(it).renderable /\ TurnOf(jt) = TurnOf(it)
    BY <1>1, <1>2, <1>3, <2>1, <2>3, <2>4
  <2>6. a[k + 1] = Collected(a[k], it) /\ b[k + 1] = Collected(b[k], jt) BY <1>6, <1>8, <2>1, <2>3, <2>4
  <2>7. a[k + 1] = b[k + 1] BY <2>2, <2>5, <2>6, Zenon DEF Collected
  <2> QED BY <2>1, <2>7
<1> HIDE DEF P
<1>11. \A k \in 0 .. n : k \in P BY <1>9, <1>10, SetInduction
<1>12. n \in P BY <1>11
<1>13. a[n] = b[n] BY <1>12 DEF P
<1> QED BY <1>6, <1>8, <1>13

\* A turn that was decoded is normalized.
LEMMA DecodedNormal == ASSUME NEW t, IsDecoded(t) PROVE Normalize(t) = t
<1>1. PICK text \in Seq(Symbols), reason \in Symbols : \E tools : AsDecoded(tools) /\ t = Transcript(text, tools, reason)
  BY DEF IsDecoded
<1>2. PICK tools : AsDecoded(tools) /\ t = Transcript(text, tools, reason) BY <1>1
<1>3. Sorted(tools) = tools BY <1>2 DEF AsDecoded
<1> QED BY <1>2, <1>3, NormalizedIs

\* One call is sorted.
LEMMA OneSorted == ASSUME NEW c PROVE Sorted(<<c>>) = <<c>>
<1>1. PICK s : s = <<c>> OBVIOUS
<1>2. DOMAIN s = {1} /\ s[1] = c BY <1>1
<1>3. PICK p \in Bijection({1}, {1}) : Sorted(s) = [i \in {1} |-> s[p[i]]] BY <1>2, SortedIs
<1>4. p \in [{1} -> {1}] BY <1>3 DEF Bijection, Injection
<1>5. p[1] = 1 BY <1>4
<1>6. Sorted(s) = [i \in {1} |-> c] BY <1>2, <1>3, <1>5
<1>7. s = [i \in {1} |-> c] BY <1>1
<1> QED BY <1>1, <1>6, <1>7

\* The turn of a call over MCP has one call.
LEMMA MCPTurnIs ==
  ASSUME NEW it, it.kind = "mcp"
  PROVE  \E text, c, reason : TurnOf(it) = [role |-> "tool", text |-> text, tools |-> <<c>>, finish |-> reason]
<1>1. TurnOf(it) = DecodeMCP(it)
  <2>1. PICK d : d = DecodeMCP(it) OBVIOUS
  <2>2. DecodeInteraction(it) = Decoded(d, FALSE, TRUE) BY <2>1 DEF DecodeInteraction
  <2> QED BY <2>1, <2>2 DEF TurnOf, Decoded
<1>2. PICK c : c = ToolCall(IF it.request.tool = "" THEN it.request.method ELSE it.request.tool, it.request.args) OBVIOUS
<1>3. \E text, reason : DecodeMCP(it) = [Transcript(text, <<c>>, reason) EXCEPT !.role = "tool"]
  BY <1>2, Zenon DEF DecodeMCP
<1>4. PICK text, reason : DecodeMCP(it) = [Transcript(text, <<c>>, reason) EXCEPT !.role = "tool"] BY <1>3
<1>5. PICK t : t = Transcript(text, <<c>>, reason) OBVIOUS
<1>6. t = [role |-> "assistant", text |-> text, tools |-> <<c>>, finish |-> reason] BY <1>5 DEF Transcript
<1>7. DecodeMCP(it) = [role |-> "tool", text |-> text, tools |-> <<c>>, finish |-> reason] BY <1>4, <1>5, <1>6
<1> QED BY <1>1, <1>7

\* So a turn that can be shown is its own digest.
LEMMA ShownNormal ==
  ASSUME NEW it, IsTurn(it), IsAnswer(Symbols, it), DecodeInteraction(it).renderable
  PROVE  Normalize(TurnOf(it)) = TurnOf(it)
<1>1. CASE it.kind = "http"
  <2>1. IsDecoded(TurnOf(it)) BY <1>1, TurnStreamed DEF Streamed
  <2> QED BY <2>1, DecodedNormal
<1>2. CASE it.kind = "mcp"
  <2>0. \E text, c, reason : TurnOf(it) = [role |-> "tool", text |-> text, tools |-> <<c>>, finish |-> reason]
    BY <1>2, MCPTurnIs
  <2>1. PICK text, c, reason : TurnOf(it) = [role |-> "tool", text |-> text, tools |-> <<c>>, finish |-> reason] BY <2>0
  <2>2. PICK t : t = TurnOf(it) OBVIOUS
  <2>3. t = [role |-> "tool", text |-> text, tools |-> <<c>>, finish |-> reason] BY <2>1, <2>2
  <2>4. t.tools = <<c>> /\ t.role = "tool" BY <2>3
  <2>5. PICK sorted : sorted = Sorted(t.tools) OBVIOUS
  <2>6. sorted = <<c>> BY <2>4, <2>5, OneSorted
  <2>7. PICK role : role = IF t.role = Unset THEN "assistant" ELSE t.role OBVIOUS
  <2>8. role = "tool" BY <2>4, <2>7 DEF Unset
  <2>9. Normalize(t) = [t EXCEPT !.role = role, !.tools = sorted] BY <2>5, <2>7 DEF Normalize
  <2>10. Normalize(t) = t BY <2>3, <2>6, <2>8, <2>9
  <2> QED BY <2>2, <2>10
<1> QED BY <1>1, <1>2 DEF IsTurn

\* Turns that do not drift apart are the same.
LEMMA DigestsTell ==
  ASSUME NEW f, IsFile(f), AnswersHold(f), NEW g, IsFile(g), AnswersHold(g),
         ~DigestDrift(CollectTurns(f), CollectTurns(g))
  PROVE  CollectTurns(g) = CollectTurns(f)
<1>1. PICK a : a = CollectTurns(f) OBVIOUS
<1>2. PICK b : b = CollectTurns(g) OBVIOUS
<1>3. a \in Seq(Showable(f)) /\ b \in Seq(Showable(g)) BY <1>1, <1>2, CollectedIn
<1>4. Len(a) = Len(b) /\ \A i \in DOMAIN a : Normalize(a[i]) = Normalize(b[i]) BY <1>1, <1>2 DEF DigestDrift, Digest
<1>5. (\A t \in Showable(f) : Normalize(t) = t) /\ (\A t \in Showable(g) : Normalize(t) = t)
  <2>1. ASSUME NEW h, IsFile(h), AnswersHold(h), NEW t \in Showable(h) PROVE Normalize(t) = t
    <3>1. PICK i \in DOMAIN h.turns : DecodeInteraction(h.turns[i]).renderable /\ t = TurnOf(h.turns[i]) BY DEF Showable
    <3>2. IsTurn(h.turns[i]) /\ IsAnswer(Symbols, h.turns[i]) BY <2>1, <3>1 DEF IsFile, AnswersHold
    <3> QED BY <3>1, <3>2, ShownNormal
  <2> QED BY <2>1
<1>6. PICK n \in Nat : n = Len(a) /\ DOMAIN a = 1 .. n /\ DOMAIN b = 1 .. n BY <1>3, <1>4, LenProperties
<1>7. ASSUME NEW i \in 1 .. n PROVE a[i] = b[i]
  <2>1. a[i] \in Showable(f) /\ b[i] \in Showable(g) BY <1>3, <1>6, ElementOfSeq
  <2> QED BY <1>4, <1>5, <1>6, <2>1
<1>8. a = [i \in 1 .. n |-> a[i]] /\ b = [i \in 1 .. n |-> b[i]]
  <2>1. IsList(a) /\ IsList(b) BY <1>3, ListIn
  <2> QED BY <1>6, <2>1, ListHas
<1> QED BY <1>1, <1>2, <1>7, <1>8

(***************************************************************************)
(* What is read back of a turn that was written                            *)
(***************************************************************************)

LEMMA ReadBack ==
  ASSUME NEW p \in Dialects, NEW t, IsDecoded(t)
  PROVE  /\ Equal(Decode(p, Encode(p, t)), t) <=> Writable(p, t)
         /\ Writable(p, t) => Decode(p, Encode(p, t)) = t
         /\ Writable(p, Decode(p, Encode(p, t)))
<1>1. PICK text \in Seq(Symbols), reason \in Symbols : \E tools : AsDecoded(tools) /\ t = Transcript(text, tools, reason)
  BY DEF IsDecoded
<1>2. PICK tools : AsDecoded(tools) /\ t = Transcript(text, tools, reason) BY <1>1
<1>3. Equal(Decode(p, Encode(p, t)), t) <=> Writable(p, t) BY <1>2, WrittenBack
<1>4. PICK u : u = Decode(p, Encode(p, t)) OBVIOUS
<1>5. tools \in Seq(ToolCalls) /\ Normalize(t) = t /\ Normalize(t) = Transcript(text, tools, reason)
  BY <1>2, DecodedNormal DEF AsDecoded
<1>6. PICK w : w = OnWire(p, tools) OBVIOUS
<1>7. PICK v : v = Canonized(w) OBVIOUS
<1>8. PICK s : s = Sorted(v) OBVIOUS
<1>9. u = Transcript(text, s, reason) BY <1>4, <1>5, <1>6, <1>7, <1>8, EncodedDecoded
<1>10. Normalize(u) = u
  <2>1. Sorted(s) = s BY <1>8, SortedTwice
  <2> QED BY <1>9, <2>1, NormalizedIs
<1>11. Equal(u, t) => u = t BY <1>5, <1>10 DEF Equal, Digest
<1>12. ASSUME p \notin Fragmented PROVE \A k \in DOMAIN s : Valid(s[k].args)
  <2>1. w = RawCalls(tools) BY <1>6, <1>12 DEF OnWire
  <2>2. /\ w \in Seq(ToolCalls) /\ DOMAIN w = DOMAIN tools
        /\ \A k \in DOMAIN tools : w[k].args = ArgsRaw(tools[k].args)
    BY <1>5, <2>1, RawIs
  <2>3. /\ v \in Seq(ToolCalls) /\ DOMAIN v = DOMAIN w
        /\ \A k \in DOMAIN w : v[k].args = Canonicalize(w[k].args)
    BY <1>7, <2>2, CanonizedIs
  <2>4. ASSUME NEW j \in DOMAIN v PROVE Valid(v[j].args)
    <3>1. PICK raw : raw = w[j].args OBVIOUS
    <3>2. raw = ArgsRaw(tools[j].args) BY <2>2, <2>3, <3>1
    <3>3. raw \in DOMAIN Canon BY <3>2, RawFragments
    <3>4. v[j].args = Canonicalize(raw) BY <2>3, <3>1
    <3> QED BY <3>3, <3>4, CanonAssumption DEF Canonicalize, Valid
  <2>5. \A k \in DOMAIN s : \E j \in DOMAIN v : s[k] = v[j] BY <1>8, <2>3, SortedTools
  <2> QED BY <2>4, <2>5
<1>13. u.tools = s BY <1>9, TranscriptIs
<1>14. Writable(p, u) BY <1>12, <1>13 DEF Writable
<1> QED BY <1>3, <1>4, <1>11, <1>14

LEMMA TripIs ==
  ASSUME NEW p, NEW ss
  PROVE  /\ RoundTrip(p, ss).failed = DecodeFails(p, ss)
         /\ RoundTrip(p, ss).stable = Equal(Decode(p, ss), Decode(p, Encode(p, Decode(p, ss))))
<1>1. PICK one : one = Decode(p, ss) OBVIOUS
<1>2. PICK two : two = Decode(p, Encode(p, one)) OBVIOUS
<1>3. RoundTrip(p, ss) = [failed |-> DecodeFails(p, ss), decoded |-> one, redecoded |-> two, stable |-> Equal(one, two)]
  BY <1>1, <1>2 DEF RoundTrip
<1> QED BY <1>1, <1>2, <1>3

\* codec verify finds a turn bad exactly when its dialect cannot write it.
LEMMA VerdictIs ==
  ASSUME NEW it, IsAnswer(Symbols, it)
  PROVE  CodecVerdict(it) = "bad" <=> /\ Streamed(it) /\ ~DecodeFails(it.dialect, it.body)
                                      /\ ~Writable(it.dialect, TurnOf(it))
<1>1. CASE ~Streamed(it) BY <1>1 DEF CodecVerdict
<1>2. CASE Streamed(it)
  <2>1. PICK trip : trip = RoundTrip(it.dialect, it.body) OBVIOUS
  <2>2. PICK t : t = TurnOf(it) OBVIOUS
  <2>3. it.dialect \in Dialects /\ t = Decode(it.dialect, it.body) /\ IsDecoded(t) BY <1>2, <2>2, TurnStreamed
  <2>4. trip.failed = DecodeFails(it.dialect, it.body) /\ trip.stable = Equal(t, Decode(it.dialect, Encode(it.dialect, t)))
    BY <2>1, <2>3, TripIs
  <2>5. trip.stable <=> Writable(it.dialect, t)
    <3>1. Equal(t, Decode(it.dialect, Encode(it.dialect, t))) <=> Equal(Decode(it.dialect, Encode(it.dialect, t)), t) BY DEF Equal
    <3> QED BY <2>3, <2>4, <3>1, ReadBack
  <2>6. CodecVerdict(it) = IF trip.failed THEN "skipped" ELSE IF trip.stable THEN "ok" ELSE "bad"
    BY <1>2, <2>1 DEF CodecVerdict
  <2> QED BY <1>2, <2>2, <2>4, <2>5, <2>6
<1> QED BY <1>1, <1>2

\* What is written in the place of an answer, and no worse than it.
AsGood(it, jt) ==
  /\ jt.kind = it.kind
  /\ DecodeInteraction(jt).renderable = DecodeInteraction(it).renderable
  /\ TurnOf(jt) = TurnOf(it)
  /\ CodecVerdict(jt) = "bad" => CodecVerdict(it) = "bad"

\* Canonicalize writes the turn anew if what it writes is read back as that turn.
LEMMA CanonicalGood ==
  ASSUME NEW it, IsTurn(it), IsAnswer(Symbols, it)
  PROVE  AsGood(it, CanonicalTurn(it))
<1>1. PICK jt : jt = CanonicalTurn(it) OBVIOUS
<1>2. CASE jt = it BY <1>1, <1>2 DEF AsGood
<1>3. CASE jt # it
  <2>1. Streamed(it) BY <1>1, <1>3 DEF CanonicalTurn
  <2>2. PICK t : t = TurnOf(it) OBVIOUS
  <2>3. PICK p \in Dialects : p = it.dialect BY <2>1, TurnStreamed
  <2>4. /\ it.streaming = TRUE /\ it.kind = "http" /\ t = Decode(p, it.body) /\ IsDecoded(t) /\ Told(t)
    BY <2>1, <2>2, <2>3, TurnStreamed DEF IsAnswer, Streamed
  <2>5. PICK trip : trip = RoundTrip(p, it.body) OBVIOUS
  <2>6. PICK body : body = Encode(p, t) OBVIOUS
  <2>7. trip.stable /\ jt = Answered(it, TRUE, body)
    BY <1>1, <1>3, <2>1, <2>2, <2>3, <2>4, <2>5, <2>6 DEF CanonicalTurn
  <2>8. Equal(t, Decode(p, Encode(p, t))) BY <2>4, <2>5, <2>7, TripIs
  <2>9. Equal(Decode(p, Encode(p, t)), t) BY <2>8 DEF Equal
  <2>10. Writable(p, t) /\ Decode(p, body) = t BY <2>4, <2>6, <2>9, ReadBack
  <2>11. body \in Streams BY <2>4, <2>6, EncodeTyped
  <2>12. jt.kind = "http" /\ jt.streaming = TRUE /\ jt.body = body /\ jt.dialect = p BY <2>3, <2>4, <2>7 DEF Answered
  <2>13. Streamed(jt) /\ TurnOf(jt) = t /\ DecodeInteraction(jt).renderable BY <2>10, <2>11, <2>12, StreamedIs
  <2>14. IsAnswer(Symbols, jt) BY <1>1, CanonicalHolds
  <2>15. CodecVerdict(jt) # "bad" BY <2>10, <2>12, <2>13, <2>14, VerdictIs
  <2>16. DecodeInteraction(it).renderable /\ DecodeInteraction(it).renderable \in BOOLEAN /\ DecodeInteraction(jt).renderable \in BOOLEAN
    BY <2>1 DEF Streamed, DecodeInteraction, Decoded
  <2> QED BY <1>1, <2>2, <2>4, <2>12, <2>13, <2>15, <2>16 DEF AsGood
<1> QED BY <1>2, <1>3

\* Fuzz writes the turn in other pieces if they are read back as that turn.
LEMMA ReframedGood ==
  ASSUME NEW it, IsTurn(it), IsAnswer(Symbols, it), Streamed(it),
         NEW answer \in Reframings(it.dialect, TurnOf(it)), Fuzzable(it, answer)
  PROVE  answer \in Streams /\ AsGood(it, Answered(it, TRUE, answer))
<1>1. PICK t : t = TurnOf(it) OBVIOUS
<1>2. PICK p \in Dialects : p = it.dialect BY TurnStreamed
<1>3. it.kind = "http" /\ IsDecoded(t) /\ Told(t) BY <1>1, TurnStreamed DEF Streamed
<1>4. answer \in Reframings(p, t) BY <1>1, <1>2
<1>5. answer \in Streams BY <1>3, <1>4, ReframedTyped
<1>6. PICK jt : jt = Answered(it, TRUE, answer) OBVIOUS
<1>7. jt.kind = "http" /\ jt.streaming = TRUE /\ jt.body = answer /\ jt.dialect = p BY <1>2, <1>3, <1>6 DEF Answered
<1>8. Streamed(jt) /\ TurnOf(jt) = Decode(p, answer) /\ DecodeInteraction(jt).renderable BY <1>5, <1>7, StreamedIs
<1>9. IsAnswer(Symbols, jt) BY <1>5, <1>6, AnsweredHolds
<1>10. PICK u : u = Decode(p, answer) OBVIOUS
<1>11. IsDecoded(u) BY <1>5, <1>10, DecodedIs
<1>12. Equal(u, t) BY <1>1, <1>2, <1>10 DEF Fuzzable
<1>13. u = t BY <1>3, <1>11, <1>12, DecodedNormal DEF Equal, Digest
<1>14. Writable(p, u)
  <2>1. CASE p = "anthropic" BY <2>1 DEF Writable, Fragmented
  <2>2. CASE p # "anthropic"
    <3>1. answer = Encode(p, t) BY <1>4, <2>2 DEF Reframings
    <3> QED BY <1>3, <1>10, <3>1, ReadBack
  <2> QED BY <2>1, <2>2
<1>15. CodecVerdict(jt) # "bad" BY <1>7, <1>8, <1>9, <1>10, <1>14, VerdictIs
<1>16. DecodeInteraction(it).renderable = DecodeInteraction(jt).renderable
  BY <1>8 DEF Streamed, DecodeInteraction, Decoded
<1> QED BY <1>1, <1>3, <1>5, <1>6, <1>7, <1>8, <1>10, <1>13, <1>15, <1>16 DEF AsGood

\* Port writes the turn in the other dialect, and changes it exactly when that cannot write it.
LEMMA PortedGood ==
  ASSUME NEW it, IsTurn(it), IsAnswer(Symbols, it), NEW to \in Dialects, NEW jt, jt = PortedTurn(it, to)
  PROVE  /\ jt.kind = it.kind
         /\ CodecVerdict(jt) = "bad" => CodecVerdict(it) = "bad"
         /\ Equal(TurnOf(jt), TurnOf(it)) <=> jt = it \/ Writable(to, TurnOf(it))
<1>1. CASE jt = it BY <1>1 DEF Equal
<1>2. CASE jt # it
  <2>1. /\ Streamed(it)
        /\ \E request, key : PortedTurn(it, to) = HTTP(to, request, TRUE, Encode(to, TurnOf(it)), key)
    BY <1>2, PortedIs
  <2>2. PICK request, key : jt = HTTP(to, request, TRUE, Encode(to, TurnOf(it)), key) BY <2>1
  <2>3. PICK t : t = TurnOf(it) OBVIOUS
  <2>4. PICK body : body = Encode(to, t) OBVIOUS
  <2>5. it.kind = "http" /\ IsDecoded(t) /\ Told(t) BY <2>1, <2>3, TurnStreamed DEF Streamed
  <2>6. body \in Streams BY <2>4, <2>5, EncodeTyped
  <2>7. jt.kind = "http" /\ jt.streaming = TRUE /\ jt.body = body /\ jt.dialect = to BY <2>2, <2>3, <2>4 DEF HTTP
  <2>8. Streamed(jt) /\ TurnOf(jt) = Decode(to, body) BY <2>6, <2>7, StreamedIs
  <2>9. IsAnswer(Symbols, jt) BY PortedHolds
  <2>10. Writable(to, TurnOf(jt)) /\ (Equal(TurnOf(jt), t) <=> Writable(to, t)) BY <2>4, <2>5, <2>8, ReadBack
  <2>11. CodecVerdict(jt) # "bad" BY <2>7, <2>9, <2>10, VerdictIs
  <2> QED BY <1>2, <2>3, <2>5, <2>7, <2>10, <2>11
<1> QED BY <1>1, <1>2

(***************************************************************************)
(* Files that show the same                                                *)
(***************************************************************************)

KeptFile(f, g) ==
  /\ BehaviorDigest(g) = BehaviorDigest(f)
  /\ \A i \in DOMAIN CodecVerify(g) : CodecVerify(g)[i] = "bad" => CodecVerify(f)[i] = "bad"
  /\ AssertHolds(g, NoContract) = AssertHolds(f, NoContract)

LEMMA SameKept ==
  ASSUME NEW f, NEW g, DOMAIN g.turns = DOMAIN f.turns, CollectTurns(g) = CollectTurns(f), g.expect = f.expect,
         \A i \in DOMAIN f.turns : /\ g.turns[i].kind = f.turns[i].kind
                                   /\ CodecVerdict(g.turns[i]) = "bad" => CodecVerdict(f.turns[i]) = "bad"
  PROVE  KeptFile(f, g)
<1>1. BehaviorDigest(g) = BehaviorDigest(f) BY DEF BehaviorDigest
<1>2. ASSUME NEW i \in DOMAIN CodecVerify(g), CodecVerify(g)[i] = "bad" PROVE CodecVerify(f)[i] = "bad"
  <2>1. i \in DOMAIN g.turns /\ g.turns[i].kind = "http" /\ CodecVerdict(g.turns[i]) = "bad" BY <1>2 DEF CodecVerify
  <2>2. i \in DOMAIN f.turns /\ f.turns[i].kind = "http" /\ CodecVerdict(f.turns[i]) = "bad" BY <2>1
  <2> QED BY <2>2 DEF CodecVerify
<1>3. AssertHolds(g, NoContract) = AssertHolds(f, NoContract)
  <2>1. PICK turns : turns = CollectTurns(f) /\ turns = CollectTurns(g) OBVIOUS
  <2>2. PICK contract : contract = f.expect /\ contract = g.expect OBVIOUS
  <2> DEFINE Bound == /\ \A n \in contract.noTools : NoToolCalled(turns, n)
                      /\ contract.once => NoDuplicateToolCall(turns)
                      /\ contract.clean => FinishesCleanly(turns)
  <2>3. AssertHolds(f, NoContract) = Bound BY <2>1, <2>2 DEF AssertHolds
  <2>4. AssertHolds(g, NoContract) = Bound BY <2>1, <2>2 DEF AssertHolds
  <2> QED BY <2>3, <2>4
<1> QED BY <1>1, <1>2, <1>3 DEF KeptFile

LEMMA GoodKept ==
  ASSUME NEW f, IsFile(f), NEW g, IsFile(g), DOMAIN g.turns = DOMAIN f.turns, g.expect = f.expect,
         \A i \in DOMAIN f.turns : AsGood(f.turns[i], g.turns[i])
  PROVE  KeptFile(f, g)
<1>1. CollectTurns(g) = CollectTurns(f) BY CollectedSame DEF AsGood
<1> QED BY <1>1, SameKept DEF AsGood

LEMMA GoodSelf == ASSUME NEW it PROVE AsGood(it, it)
BY DEF AsGood

(***************************************************************************)
(* The commands that preserve what a recording shows                       *)
(***************************************************************************)

Ported(f, g, to) ==
  \A i \in DOMAIN f.turns :
    Equal(TurnOf(g.turns[i]), TurnOf(f.turns[i])) <=> g.turns[i] = f.turns[i] \/ Writable(to, TurnOf(f.turns[i]))

\* BehaviorKept by its parts.
LEMMA KeptIs ==
  BehaviorKept <=> \A q \in Written :
                     /\ last.op \in {"canonicalize", "migrate", "fuzz"} => KeptFile(last.from[q], disk[q])
                     /\ last.op = "port" => Ported(last.from[q], disk[q], last.to)
BY DEF BehaviorKept, KeptFile, Ported

LEMMA OthersKeep == ASSUME last'.op \notin Preserving PROVE BehaviorKept'
BY DEF Preserving, BehaviorKept

\* One file, kept.
LEMMA OneKept ==
  ASSUME NEW p, NEW out, NEW g, Written' = {out}, disk'[out] = g, last'.from[out] = disk[p],
         last'.op \in {"canonicalize", "migrate", "fuzz"}, KeptFile(disk[p], g)
  PROVE  BehaviorKept'
<1>1. KeptFile(last'.from[out], disk'[out]) /\ last'.op # "port" OBVIOUS
<1>2. KeptFile(last.from[out], disk[out])' BY <1>1 DEF KeptFile
<1> QED BY <1>1, <1>2 DEF BehaviorKept, KeptFile

LEMMA CanonicalizeKeeps ==
  ASSUME DeriveInv, AnswersInv, NEW p \in DOMAIN disk, NEW out, Canonicalize1(p, out)
  PROVE  AnswersInv' /\ BehaviorKept'
<1>1. PICK f : f = disk[p] OBVIOUS
<1>2. IsFile(f) /\ AnswersHold(f) BY <1>1 DEF DeriveInv, FilesInv, AnswersInv
<1>3. PICK g : g = CanonicalizeFile(f) OBVIOUS
<1>4. AnswersHold(g) /\ g.turns = [i \in DOMAIN f.turns |-> CanonicalTurn(f.turns[i])] /\ g.expect = f.expect
  BY <1>2, <1>3, CanonicalizedHold
<1>5. IsFile(g) BY <1>2, <1>3, CanonicalDerived DEF Derived
<1>6. \A i \in DOMAIN f.turns : AsGood(f.turns[i], g.turns[i])
  <2>1. \A i \in DOMAIN f.turns : IsTurn(f.turns[i]) /\ IsAnswer(Symbols, f.turns[i]) BY <1>2 DEF IsFile, AnswersHold
  <2> QED BY <1>4, <2>1, CanonicalGood
<1>7. DOMAIN g.turns = DOMAIN f.turns BY <1>4
<1>8. KeptFile(f, g) BY <1>2, <1>4, <1>5, <1>6, <1>7, GoodKept
<1>9. SaveOne(EditOf("canonicalize", 0, <<>>, ""), p, out, g) BY <1>1, <1>3 DEF Canonicalize1, Command
<1>10. /\ AnswersInv' /\ last'.op = "canonicalize" /\ last'.to = ""
       /\ Written' = {out} /\ disk'[out] = g /\ last'.from[out] = disk[p]
  BY <1>4, <1>9, SavedOne
<1> QED BY <1>1, <1>8, <1>10, OneKept

LEMMA FuzzKeeps ==
  ASSUME DeriveInv, AnswersInv, NEW p \in DOMAIN disk, NEW n, NEW answer, Fuzz(p, n, answer),
         answer \in Reframings(disk[p].turns[NthHTTPIndex(disk[p], n)].dialect, TurnOf(disk[p].turns[NthHTTPIndex(disk[p], n)]))
  PROVE  AnswersInv' /\ BehaviorKept'
<1>1. PICK f : f = disk[p] OBVIOUS
<1>2. IsFile(f) /\ AnswersHold(f) BY <1>1 DEF DeriveInv, FilesInv, AnswersInv
<1>3. PICK i : i = NthHTTPIndex(f, n) OBVIOUS
<1>4. PICK it : it = f.turns[i] OBVIOUS
<1>5. i # 0 /\ Streamed(it) /\ Fuzzable(it, answer)
      /\ SaveOne(EditOf("fuzz", i, <<>>, ""), p, VariantOf(p, "reframe"), WithResponse(f, i, answer))
  BY <1>1, <1>3, <1>4 DEF Fuzz
<1>6. i \in DOMAIN f.turns /\ IsTurn(it) /\ IsAnswer(Symbols, it) BY <1>2, <1>3, <1>4, <1>5, NthIs DEF IsFile, AnswersHold
<1>7. answer \in Reframings(it.dialect, TurnOf(it)) BY <1>1, <1>3, <1>4
<1>8. answer \in Streams /\ AsGood(it, Answered(it, TRUE, answer)) BY <1>5, <1>6, <1>7, ReframedGood
<1>9. PICK g : g = WithResponse(f, i, answer) OBVIOUS
<1>10. AnswersHold(g) BY <1>2, <1>8, <1>9, ResponseHolds
<1>11. IsFile(g)
  <2>1. Derived("fuzz", f, WithResponse(f, i, answer)) BY <1>2, ResponseDerived DEF Stamps
  <2> QED BY <1>9, <2>1 DEF Derived
<1>12. g.turns = [f.turns EXCEPT ![i] = Answered(it, TRUE, answer)] /\ g.expect = f.expect
  BY <1>4, <1>9 DEF WithResponse, Remade
<1>13. DOMAIN g.turns = DOMAIN f.turns BY <1>12
<1>14. \A k \in DOMAIN f.turns : AsGood(f.turns[k], g.turns[k]) BY <1>4, <1>8, <1>12, GoodSelf
<1>15. KeptFile(f, g) BY <1>2, <1>11, <1>12, <1>13, <1>14, GoodKept
<1>16. PICK out : out = VariantOf(p, "reframe") OBVIOUS
<1>17. SaveOne(EditOf("fuzz", i, <<>>, ""), p, out, g) BY <1>5, <1>9, <1>16
<1>18. /\ AnswersInv' /\ last'.op = "fuzz" /\ last'.to = ""
       /\ Written' = {out} /\ disk'[out] = g /\ last'.from[out] = disk[p]
  BY <1>10, <1>17, SavedOne
<1> QED BY <1>1, <1>15, <1>18, OneKept

LEMMA PortKeeps ==
  ASSUME DeriveInv, AnswersInv, NEW p \in DOMAIN disk, NEW out, NEW to \in Targets, PortTo(p, out, to)
  PROVE  AnswersInv' /\ BehaviorKept'
<1>1. PICK f : f = disk[p] OBVIOUS
<1>2. IsFile(f) /\ AnswersHold(f) BY <1>1 DEF DeriveInv, FilesInv, AnswersInv
<1>3. to \in Dialects BY DeriveAssumption
<1>4. PICK g : g = Stamped(Port(f, to), f, "port") OBVIOUS
<1>5. AnswersHold(g) /\ g.turns = [i \in DOMAIN f.turns |-> PortedTurn(f.turns[i], to)]
  BY <1>2, <1>3, <1>4, PortHolds
<1>6. Ported(f, g, to)
  <2>1. ASSUME NEW i \in DOMAIN f.turns
        PROVE  Equal(TurnOf(g.turns[i]), TurnOf(f.turns[i])) <=> g.turns[i] = f.turns[i] \/ Writable(to, TurnOf(f.turns[i]))
    <3>1. PICK it : it = f.turns[i] OBVIOUS
    <3>2. IsTurn(it) /\ IsAnswer(Symbols, it) BY <1>2, <3>1 DEF IsFile, AnswersHold
    <3>3. PICK jt : jt = PortedTurn(it, to) OBVIOUS
    <3>4. Equal(TurnOf(jt), TurnOf(it)) <=> jt = it \/ Writable(to, TurnOf(it)) BY <1>3, <3>2, <3>3, PortedGood
    <3>5. g.turns[i] = jt BY <1>5, <3>1, <3>3
    <3> QED BY <3>1, <3>4, <3>5
  <2> QED BY <2>1 DEF Ported
<1>7. SaveOne(EditOf("port", 0, <<>>, to), p, out, g) BY <1>1, <1>4 DEF PortTo, Toward
<1>8. /\ AnswersInv' /\ last'.op = "port" /\ last'.to = to
      /\ Written' = {out} /\ disk'[out] = g /\ last'.from[out] = disk[p]
  BY <1>5, <1>7, SavedOne
<1>9. Ported(last'.from[out], disk'[out], last'.to) BY <1>1, <1>6, <1>8
<1>10. Ported(last.from[out], disk[out], last.to)' BY <1>9 DEF Ported
<1> QED BY <1>8, <1>10 DEF BehaviorKept, Ported

\* Migrate leaves out the files whose digest would change.
LEMMA MigratedKept ==
  ASSUME NEW f, IsFile(f), AnswersHold(f), NEW to \in Dialects,
         ~DigestDrift(CollectTurns(f), CollectTurns(Port(f, to))), NEW op
  PROVE  AnswersHold(Stamped(Port(f, to), f, op)) /\ KeptFile(f, Stamped(Port(f, to), f, op))
<1>1. PICK g : g = Stamped(Port(f, to), f, op) OBVIOUS
<1>2. PICK h : h = Port(f, to) OBVIOUS
<1>3. AnswersHold(g) /\ g.turns = [i \in DOMAIN f.turns |-> PortedTurn(f.turns[i], to)] /\ g.expect = f.expect
  BY <1>1, PortHolds
<1>4. AnswersHold(h) /\ h.turns = [i \in DOMAIN f.turns |-> PortedTurn(f.turns[i], to)] /\ h.expect = f.expect
  BY <1>2, PortHolds
<1>5. IsFile(g)
  <2>1. Derived("port", f, Stamped(Port(f, to), f, op)) BY PortDerived
  <2> QED BY <1>1, <2>1 DEF Derived
<1>6. IsFile(h)
  <2>1. PICK turns : turns = [i \in DOMAIN f.turns |-> PortedTurn(f.turns[i], to)] OBVIOUS
  <2>2. turns \in Seq(Range(turns)) /\ DOMAIN turns = DOMAIN f.turns
    <3>1. g.turns \in Seq(Range(g.turns)) BY <1>5 DEF IsFile
    <3> QED BY <1>3, <2>1, <3>1
  <2>3. \A i \in DOMAIN turns : IsTurn(turns[i]) BY <1>3, <1>5, <2>1 DEF IsFile
  <2>4. h = [notice |-> f.notice, expect |-> f.expect, match |-> "none", provenance |-> <<>>, turns |-> turns]
    BY <1>2, <2>1 DEF Port, Remade
  <2>5. <<>> \in Seq(Range(<<>>)) OBVIOUS
  <2> QED BY <2>2, <2>3, <2>4, <2>5 DEF IsFile
<1>7. CollectTurns(h) = CollectTurns(f) BY <1>2, <1>4, <1>6, DigestsTell
<1>8. CollectTurns(g) = CollectTurns(h) BY <1>3, <1>4, <1>5, <1>6, CollectedSame
<1>9. DOMAIN g.turns = DOMAIN f.turns BY <1>3
<1>10. ASSUME NEW i \in DOMAIN f.turns
       PROVE  g.turns[i].kind = f.turns[i].kind /\ (CodecVerdict(g.turns[i]) = "bad" => CodecVerdict(f.turns[i]) = "bad")
  <2>1. PICK it : it = f.turns[i] OBVIOUS
  <2>2. IsTurn(it) /\ IsAnswer(Symbols, it) BY <2>1 DEF IsFile, AnswersHold
  <2>3. PICK jt : jt = PortedTurn(it, to) OBVIOUS
  <2>4. g.turns[i] = jt BY <1>3, <2>1, <2>3
  <2>5. jt.kind = it.kind /\ (CodecVerdict(jt) = "bad" => CodecVerdict(it) = "bad") BY <2>2, <2>3, PortedGood
  <2> QED BY <2>1, <2>4, <2>5
<1>11. KeptFile(f, g) BY <1>3, <1>7, <1>8, <1>9, <1>10, SameKept
<1> QED BY <1>1, <1>3, <1>11

LEMMA MigrateKeeps ==
  ASSUME DeriveInv, AnswersInv, NEW dirs, NEW to \in Targets, Migrate(dirs, to)
  PROVE  AnswersInv' /\ BehaviorKept'
<1>1. PICK kept : kept = {p \in Listed(dirs[1]) : ~DigestDrift(CollectTurns(disk[p]), CollectTurns(Port(disk[p], to)))} OBVIOUS
<1>2. kept \subseteq DOMAIN disk BY <1>1 DEF Listed
<1>3. PICK from : from = Copies(kept, dirs[2]) OBVIOUS
<1>4. PICK written : written = [q \in DOMAIN from |-> Stamped(Port(disk[from[q]], to), disk[from[q]], "migrate")] OBVIOUS
<1>5. SaveAll(EditOf("migrate", 0, <<>>, to), written, from) BY <1>1, <1>3, <1>4 DEF Migrate, Toward
<1>6. DOMAIN written = DOMAIN from BY <1>4
<1>7. ASSUME NEW q \in DOMAIN from
      PROVE  AnswersHold(written[q]) /\ KeptFile(disk[from[q]], written[q])
  <2>1. from[q] \in kept BY <1>3, CopiesFrom
  <2>2. PICK f : f = disk[from[q]] OBVIOUS
  <2>3. ~DigestDrift(CollectTurns(f), CollectTurns(Port(f, to))) BY <1>1, <2>1, <2>2
  <2>4. IsFile(f) /\ AnswersHold(f) BY <1>2, <2>1, <2>2 DEF DeriveInv, FilesInv, AnswersInv
  <2>5. to \in Dialects BY DeriveAssumption
  <2>6. written[q] = Stamped(Port(f, to), f, "migrate") BY <1>4, <2>2
  <2> QED BY <2>2, <2>3, <2>4, <2>5, <2>6, MigratedKept
<1>8. /\ disk' = Over(written, disk) /\ last'.op = "migrate"
      /\ last'.from = [q \in DOMAIN written |-> disk[from[q]]]
      /\ Written' = DOMAIN written /\ \A q \in DOMAIN written : disk'[q] = written[q]
  BY <1>5, SavedAll
<1>9. AnswersInv' BY <1>6, <1>7, <1>8, AnswersOver
<1>10. ASSUME NEW q \in Written' PROVE KeptFile(last.from[q], disk[q])'
  <2>1. KeptFile(last'.from[q], disk'[q]) BY <1>6, <1>7, <1>8
  <2> QED BY <2>1 DEF KeptFile
<1> QED BY <1>8, <1>9, <1>10 DEF BehaviorKept, KeptFile

LEMMA InitKept == DeriveInit => BehaviorKept
<1> SUFFICES ASSUME DeriveInit PROVE BehaviorKept OBVIOUS
<1>1. last.op = "none" BY DEF DeriveInit, Command, EditOf
<1> QED BY <1>1 DEF BehaviorKept

\* Every step, as the ones of the invariant.
LEMMA NextKeeps ==
  ASSUME DeriveInv, AnswersInv, DeriveNext
  PROVE  AnswersInv' /\ BehaviorKept'
<1>1. \A p \in DOMAIN disk : Turns(p) = 1 .. Len(disk[p].turns) /\ Len(disk[p].turns) \in Nat
  BY LenProperties DEF DeriveInv, FilesInv, IsFile, Turns
<1>2. CASE \E p \in DOMAIN disk : \E out \in Outs(p), i \in Turns(p), edits \in EditLists :
             Graft(p, out, i, edits, {}, Len(disk[p].turns))
  <2>1. PICK p \in DOMAIN disk :
          \E out \in Outs(p), i \in Turns(p), edits \in EditLists : Graft(p, out, i, edits, {}, Len(disk[p].turns))
    BY <1>2
  <2>2. PICK out \in Outs(p), i \in Turns(p), edits \in EditLists : Graft(p, out, i, edits, {}, Len(disk[p].turns))
    BY <2>1
  <2>3. Len(disk[p].turns) \in 0 .. Len(disk[p].turns) BY <1>1
  <2> QED BY <2>2, <2>3, GraftAnswers, OthersKeep
<1>3. CASE \E p \in DOMAIN disk : \E i \in Turns(p) : \E keep \in i .. Len(disk[p].turns) :
             Graft(p, p, i, <<>>, {1}, keep)
  <2>1. PICK p \in DOMAIN disk : \E i \in Turns(p) : \E keep \in i .. Len(disk[p].turns) : Graft(p, p, i, <<>>, {1}, keep)
    BY <1>3
  <2>2. PICK i \in Turns(p) : \E keep \in i .. Len(disk[p].turns) : Graft(p, p, i, <<>>, {1}, keep) BY <2>1
  <2>3. PICK keep \in i .. Len(disk[p].turns) : Graft(p, p, i, <<>>, {1}, keep) BY <2>2
  <2>4. keep \in 0 .. Len(disk[p].turns) BY <1>1
  <2> QED BY <2>3, <2>4, GraftAnswers, OthersKeep
<1>4. CASE \E p \in DOMAIN disk : \E i \in Turns(p), edits \in EditLists \cup {<<>>} : Branch(p, Into("out", p), i, edits)
  BY <1>4, BranchAnswers, OthersKeep
<1>5. CASE \E p \in DOMAIN disk : \E i \in Turns(p), slot \in Slots : Distill(p, i, slot)
  BY <1>5, DistillAnswers, OthersKeep
<1>6. CASE \E p \in DOMAIN disk : \E out \in Outs(p), to \in Targets : PortTo(p, out, to)
  BY <1>6, PortKeeps
<1>7. CASE \E dirs \in Dirs, to \in Targets : Migrate(dirs, to)
  BY <1>7, MigrateKeeps
<1>8. CASE \E p \in DOMAIN disk : \E out \in Outs(p) : Canonicalize1(p, out)
  BY <1>8, CanonicalizeKeeps
<1>9. CASE \E p \in DOMAIN disk : \E n \in Turns(p) : ScenarioOf(p, n)
  BY <1>9, ScenarioAnswers, OthersKeep
<1>10. CASE \E p \in DOMAIN disk : \E n \in Turns(p) :
              \E answer \in (IF NthHTTPIndex(disk[p], n) = 0 THEN {}
                             ELSE LET it == disk[p].turns[NthHTTPIndex(disk[p], n)] IN Reframings(it.dialect, TurnOf(it))) :
                Fuzz(p, n, answer)
  <2>0. PICK p \in DOMAIN disk :
          \E n \in Turns(p) :
            \E answer \in (IF NthHTTPIndex(disk[p], n) = 0 THEN {}
                           ELSE LET it == disk[p].turns[NthHTTPIndex(disk[p], n)] IN Reframings(it.dialect, TurnOf(it))) :
              Fuzz(p, n, answer)
    BY <1>10
  <2>1. PICK n \in Turns(p) :
          \E answer \in (IF NthHTTPIndex(disk[p], n) = 0 THEN {}
                         ELSE LET it == disk[p].turns[NthHTTPIndex(disk[p], n)] IN Reframings(it.dialect, TurnOf(it))) :
            Fuzz(p, n, answer)
    BY <2>0
  <2>2. PICK it : it = disk[p].turns[NthHTTPIndex(disk[p], n)] OBVIOUS
  <2>3. PICK answer : answer \in Reframings(it.dialect, TurnOf(it)) /\ Fuzz(p, n, answer) BY <2>1, <2>2
  <2> QED BY <2>2, <2>3, FuzzKeeps
<1>11. CASE \E p \in DOMAIN disk : \E op \in MutationOps, n \in 0 .. 1 : Mutate(p, Into("out", p), op, n)
  BY <1>11, MutateAnswers, OthersKeep
<1>12. CASE \E dirs \in Dirs : ShrinkCorpus(dirs) BY <1>12, ShrinkAnswers, OthersKeep
<1>13. CASE \E s \in Screenplays : Author(<<"out", "authored">>, s) BY <1>13, AuthorAnswers, OthersKeep
<1> QED
  BY <1>2, <1>3, <1>4, <1>5, <1>6, <1>7, <1>8, <1>9, <1>10, <1>11, <1>12, <1>13 DEF DeriveNext

LEMMA StepKeeps == DeriveInv /\ AnswersInv /\ BehaviorKept /\ [DeriveNext]_deriveVars => AnswersInv' /\ BehaviorKept'
<1> SUFFICES ASSUME DeriveInv, AnswersInv, BehaviorKept, [DeriveNext]_deriveVars PROVE AnswersInv' /\ BehaviorKept' OBVIOUS
<1>1. CASE DeriveNext BY <1>1, NextKeeps
<1>2. CASE UNCHANGED deriveVars
  BY <1>2 DEF deriveVars, AnswersInv, AnswersHold, BehaviorKept, Written
<1> QED BY <1>1, <1>2

\* Canonicalize, migrate and fuzz change no behavior whatever was damaged or edited before: the
\* digest stays, codec verify finds no turn bad that was not, and the contract of the recording
\* holds as before; port changes a turn exactly when the other dialect cannot write its arguments
\* (canonicalize.go, migrate.go, fuzz.go, port.go).
THEOREM BehaviorKeptCorrect == DeriveSpec => []BehaviorKept
<1> DEFINE Inv == DeriveInv /\ AnswersInv /\ BehaviorKept
<1>1. DeriveInit => Inv BY InitDerive, InitAnswers, InitKept
<1>2. Inv /\ [DeriveNext]_deriveVars => Inv' BY DeriveStep, StepKeeps
<1> QED BY <1>1, <1>2, PTL DEF DeriveSpec

\* Whatever is derived from recordings whose answers are streams of a dialect holds such answers
\* again: no command writes an answer that no decoder can read (the derivation commands).
THEOREM AnswersHoldAlways == DeriveSpec => []AnswersInv
<1> DEFINE Inv == DeriveInv /\ AnswersInv /\ BehaviorKept
<1>1. DeriveInit => Inv BY InitDerive, InitAnswers, InitKept
<1>2. Inv /\ [DeriveNext]_deriveVars => Inv' BY DeriveStep, StepKeeps
<1> QED BY <1>1, <1>2, PTL DEF DeriveSpec

\* The answers are finite, and so are the calls they are read as.
LEMMA AnswersFinite == DeriveInv /\ AnswersInv => FiniteCalls
<1> SUFFICES ASSUME DeriveInv, AnswersInv, NEW p \in DOMAIN disk, NEW i \in DOMAIN disk[p].turns
             PROVE  IsFiniteSet(DOMAIN TurnOf(disk[p].turns[i]).tools)
  BY DEF FiniteCalls
<1>1. PICK it : it = disk[p].turns[i] OBVIOUS
<1>2. IsTurn(it) /\ IsAnswer(Symbols, it) BY <1>1 DEF DeriveInv, FilesInv, IsFile, AnswersInv, AnswersHold
<1>3. IsFiniteSet({}) BY FS_EmptySet
<1>4. CASE it.kind = "mcp"
  <2>1. \E text, c, reason : TurnOf(it) = [role |-> "tool", text |-> text, tools |-> <<c>>, finish |-> reason]
    BY <1>4, MCPTurnIs
  <2>2. PICK text, c, reason : TurnOf(it) = [role |-> "tool", text |-> text, tools |-> <<c>>, finish |-> reason] BY <2>1
  <2>3. DOMAIN TurnOf(it).tools = {1} BY <2>2
  <2> QED BY <1>1, <2>3, FS_Singleton
<1>5. CASE it.kind = "http" /\ Streamed(it)
  <2>1. IsDecoded(TurnOf(it)) BY <1>2, <1>5, TurnStreamed
  <2>2. PICK text \in Seq(Symbols), reason \in Symbols : \E tools : AsDecoded(tools) /\ TurnOf(it) = Transcript(text, tools, reason)
    BY <2>1 DEF IsDecoded
  <2>3. PICK tools : AsDecoded(tools) /\ TurnOf(it) = Transcript(text, tools, reason) BY <2>2
  <2>4. TurnOf(it).tools = tools BY <2>3, TranscriptIs
  <2>5. DOMAIN tools = 1 .. Len(tools) /\ Len(tools) \in Nat BY <2>3, LenProperties DEF AsDecoded
  <2>6. PICK n \in Nat : DOMAIN tools = 1 .. n BY <2>5
  <2>7. IsFiniteSet(1 .. n) BY FS_Interval, 1 \in Int, n \in Int
  <2> QED BY <1>1, <2>4, <2>6, <2>7
<1>6. CASE it.kind = "http" /\ ~Streamed(it)
  <2>1. ~DecodeInteraction(it).renderable BY <1>6 DEF Streamed
  <2>2. PICK unary : unary = Transcript(<<"unary", it.body[1].doc>>, <<>>, "") OBVIOUS
  <2>3. unary.tools = <<>> /\ Nothing.tools = <<>>
    <3>0. PICK text : text = <<"unary", it.body[1].doc>> OBVIOUS
    <3>1. unary.tools = <<>>
      <4>1. unary = Transcript(text, <<>>, "") BY <2>2, <3>0
      <4>2. unary = [role |-> "assistant", text |-> text, tools |-> <<>>, finish |-> ""] BY <4>1 DEF Transcript
      <4> QED BY <4>2
    <3>2. Nothing.tools = <<>> BY DEF Nothing, Transcript
    <3> QED BY <3>1, <3>2
  <2>4. DecodeInteraction(it) = Decoded(Nothing, FALSE, FALSE) \/ DecodeInteraction(it) = Decoded(unary, TRUE, FALSE)
    BY <1>6, <2>1, <2>2 DEF DecodeInteraction, Decoded
  <2>5. TurnOf(it) = Nothing \/ TurnOf(it) = unary BY <2>4 DEF TurnOf, Decoded
  <2>6. DOMAIN TurnOf(it).tools = {} BY <2>3, <2>5
  <2> QED BY <1>1, <1>3, <2>6
<1> QED BY <1>2, <1>4, <1>5, <1>6 DEF IsTurn

\* What shrink copied shows every digest and every cell of the corpus: its greedy choice leaves
\* nothing out, and what it writes does not touch the corpus (coverage.go, shrink.go).
THEOREM ShrinkCoversCorrect == DeriveSpec => []ShrinkCovers
<1>1. DeriveInit => ShrinkCovers
  <2>1. DeriveInit => last = Command("none") BY DEF DeriveInit
  <2>2. Command("none").op = "none" BY DEF Command, EditOf
  <2>3. DeriveInit => last.op = "none" BY <2>1, <2>2
  <2> QED BY <2>3 DEF ShrinkCovers
<1> QED BY <1>1, ShrinkCoversKept, AnswersFinite, DeriveInvHolds, AnswersHoldAlways, PTL DEF DeriveSpec

(***************************************************************************)
(* An edit, and what diff, bisect and an attestation say of it             *)
(***************************************************************************)

\* A place that was noted when it was reached stays where it is.
LEMMA NotedPlace ==
  ASSUME NEW n \in Nat, NEW numbers, NEW j \in 1 .. n, j \in numbers,
         NEW at, at = InOrder(n, numbers), NEW m, m = Len(InOrder(j, numbers))
  PROVE  m \in Nat \ {0} /\ m \in DOMAIN at /\ at[m] = j
<1>1. PICK ss : ss = [i \in 1 .. n |-> i] OBVIOUS
<1>2. PICK tt : tt = [i \in 1 .. j |-> i] OBVIOUS
<1>3. Len(ss) = n /\ \A k \in 1 .. n : ss[k] = k BY <1>1
<1>4. Len(tt) = j /\ j \in Nat /\ Len(tt) \in Nat /\ \A k \in 1 .. j : tt[k] = k BY <1>2
<1>5. InOrder(n, numbers) = NotedIn(numbers, ss) BY <1>1 DEF InOrder, NotedIn
<1>6. InOrder(j, numbers) = NotedIn(numbers, tt) BY <1>2 DEF InOrder, NotedIn
<1>7. \E f : /\ f = [k \in 0 .. Len(ss) |-> IF k = 0 THEN <<>> ELSE Noted(numbers, f[k - 1], ss[k])]
              /\ NotedIn(numbers, ss) = f[Len(ss)]
  BY <1>3, NotedDef, Zenon
<1>8. PICK f : /\ f = [k \in 0 .. n |-> IF k = 0 THEN <<>> ELSE Noted(numbers, f[k - 1], ss[k])]
               /\ NotedIn(numbers, ss) = f[n]
  <2>1. PICK l : l = n /\ Len(ss) = l BY <1>3
  <2> QED BY <1>7, <2>1
<1>9. \E g : /\ g = [k \in 0 .. Len(tt) |-> IF k = 0 THEN <<>> ELSE Noted(numbers, g[k - 1], tt[k])]
              /\ NotedIn(numbers, tt) = g[Len(tt)]
  BY <1>4, NotedDef, Zenon
<1>10. PICK g : /\ g = [k \in 0 .. j |-> IF k = 0 THEN <<>> ELSE Noted(numbers, g[k - 1], tt[k])]
                /\ NotedIn(numbers, tt) = g[j]
  BY <1>4, <1>9
<1>11. \A k \in 1 .. n : f[k] = Noted(numbers, f[k - 1], k) BY <1>3, <1>8
<1>12. \A k \in 1 .. j : g[k] = Noted(numbers, g[k - 1], k) BY <1>4, <1>10
<1>13. f[0] = <<>> /\ g[0] = <<>> BY <1>8, <1>10
<1> DEFINE P == {k \in 0 .. j : f[k] = g[k] /\ IsList(f[k])}
<1>14. 0 \in P
  <2>1. IsList(<<>>) BY EmptyList DEF IsList
  <2> QED BY <1>13, <2>1
<1>15. ASSUME NEW k \in 0 .. (j - 1), k \in P PROVE k + 1 \in P
  <2>1. k + 1 \in 1 .. j /\ k + 1 \in 1 .. n /\ (k + 1) - 1 = k /\ k + 1 \in 0 .. j OBVIOUS
  <2>2. f[k + 1] = Noted(numbers, f[k], k + 1) /\ g[k + 1] = Noted(numbers, g[k], k + 1) BY <1>11, <1>12, <2>1
  <2>3. f[k] = g[k] /\ IsList(f[k]) BY <1>15
  <2>4. f[k + 1] = g[k + 1] BY <2>2, <2>3
  <2>5. PICK s : s = f[k] OBVIOUS
  <2>6. IsList(s) BY <2>3, <2>5
  <2>7. PICK x : x = k + 1 OBVIOUS
  <2>8. IsList(Append(s, x)) BY <2>6, AppendAny DEF IsList
  <2>9. f[k + 1] = s \/ f[k + 1] = Append(s, x) BY <2>2, <2>5, <2>7 DEF Noted
  <2>10. IsList(f[k + 1]) BY <2>6, <2>8, <2>9
  <2> QED BY <2>1, <2>4, <2>10
<1> HIDE DEF P
<1>16. \A k \in 0 .. j : k \in P BY <1>14, <1>15, SetInduction
<1>17. j - 1 \in 0 .. j /\ j \in 0 .. j OBVIOUS
<1>18. f[j] = g[j] /\ IsList(f[j - 1]) BY <1>16, <1>17 DEF P
<1>19. PICK s : s = f[j - 1] OBVIOUS
<1>20. IsList(s) BY <1>18, <1>19
<1>21. f[j] = Append(s, j) BY <1>11, <1>19 DEF Noted
<1>23. Len(s) \in Nat /\ Len(Append(s, j)) = Len(s) + 1 /\ Append(s, j)[Len(s) + 1] = j /\ IsList(Append(s, j))
  BY <1>20, AppendAny DEF IsList
<1>22. m = Len(s) + 1
  <2>1. InOrder(j, numbers) = f[j] BY <1>6, <1>10, <1>18
  <2> QED BY <1>21, <1>23, <2>1
<1>24. m \in Nat \ {0} /\ f[j][m] = j /\ IsList(f[j]) /\ m <= Len(f[j]) BY <1>21, <1>22, <1>23
<1> DEFINE Q == {d \in 0 .. (n - j) : IsList(f[j + d]) /\ m <= Len(f[j + d]) /\ f[j + d][m] = j}
<1>25. 0 \in Q
  <2>1. j + 0 = j OBVIOUS
  <2> QED BY <1>24, <2>1
<1>26. ASSUME NEW d \in 0 .. ((n - j) - 1), d \in Q PROVE d + 1 \in Q
  <2>1. PICK k \in 1 .. n : k = j + d BY <1>26
  <2>2. j + (d + 1) = k + 1 /\ k + 1 \in 1 .. n /\ (k + 1) - 1 = k /\ d + 1 \in 0 .. (n - j) BY <2>1
  <2>3. f[k + 1] = Noted(numbers, f[k], k + 1) BY <1>11, <2>2
  <2>4. PICK u : u = f[k] OBVIOUS
  <2>5. IsList(u) /\ m <= Len(u) /\ u[m] = j BY <1>26, <2>1, <2>4
  <2>6. PICK x : x = k + 1 OBVIOUS
  <2>7. PICK v : v = Append(u, x) OBVIOUS
  <2>8. Len(u) \in Nat /\ IsList(v) /\ Len(v) = Len(u) + 1 /\ \A i \in 1 .. Len(u) : v[i] = u[i]
    BY <2>5, <2>7, AppendAny DEF IsList
  <2>9. m \in 1 .. Len(u) BY <1>24, <2>5, <2>8
  <2>10. IsList(v) /\ m <= Len(v) /\ v[m] = j BY <1>24, <2>5, <2>8, <2>9
  <2>11. f[k + 1] = u \/ f[k + 1] = v BY <2>3, <2>4, <2>6, <2>7 DEF Noted
  <2>12. IsList(f[k + 1]) /\ m <= Len(f[k + 1]) /\ f[k + 1][m] = j BY <2>5, <2>10, <2>11
  <2> QED BY <2>2, <2>12
<1> HIDE DEF Q
<1>27. n - j \in Nat OBVIOUS
<1>28. \A d \in 0 .. (n - j) : d \in Q BY <1>25, <1>26, <1>27, SetInduction
<1>29. n - j \in Q /\ j + (n - j) = n BY <1>27, <1>28
<1>30. IsList(f[n]) /\ m <= Len(f[n]) /\ f[n][m] = j BY <1>29 DEF Q
<1>31. at = f[n] BY <1>5, <1>8
<1>32. DOMAIN at = 1 .. Len(at) /\ Len(at) \in Nat BY <1>30, <1>31, ListHas
<1>33. m \in DOMAIN at /\ at[m] = j BY <1>24, <1>30, <1>31, <1>32
<1> QED BY <1>24, <1>33

\* Only the numbers up to the end count.
LEMMA NotedAlike ==
  ASSUME NEW n \in Nat, NEW A, NEW B, \A k \in 1 .. n : k \in A <=> k \in B
  PROVE  InOrder(n, A) = InOrder(n, B)
<1>1. PICK ss : ss = [i \in 1 .. n |-> i] OBVIOUS
<1>2. Len(ss) = n /\ \A k \in 1 .. n : ss[k] = k BY <1>1
<1>3. InOrder(n, A) = NotedIn(A, ss) /\ InOrder(n, B) = NotedIn(B, ss) BY <1>1 DEF InOrder, NotedIn
<1>4. \E f : /\ f = [k \in 0 .. Len(ss) |-> IF k = 0 THEN <<>> ELSE Noted(A, f[k - 1], ss[k])]
              /\ NotedIn(A, ss) = f[Len(ss)]
  BY <1>2, NotedDef, Zenon
<1>5. PICK f : /\ f = [k \in 0 .. n |-> IF k = 0 THEN <<>> ELSE Noted(A, f[k - 1], ss[k])]
               /\ NotedIn(A, ss) = f[n]
  BY <1>2, <1>4
<1>6. \E g : /\ g = [k \in 0 .. Len(ss) |-> IF k = 0 THEN <<>> ELSE Noted(B, g[k - 1], ss[k])]
              /\ NotedIn(B, ss) = g[Len(ss)]
  BY <1>2, NotedDef, Zenon
<1>7. PICK g : /\ g = [k \in 0 .. n |-> IF k = 0 THEN <<>> ELSE Noted(B, g[k - 1], ss[k])]
               /\ NotedIn(B, ss) = g[n]
  BY <1>2, <1>6
<1> DEFINE P == {k \in 0 .. n : f[k] = g[k]}
<1>8. 0 \in P BY <1>5, <1>7
<1>9. ASSUME NEW k \in 0 .. (n - 1), k \in P PROVE k + 1 \in P
  <2>1. k + 1 \in 1 .. n /\ (k + 1) - 1 = k /\ k + 1 \in 0 .. n OBVIOUS
  <2>2. f[k + 1] = Noted(A, f[k], k + 1) /\ g[k + 1] = Noted(B, g[k], k + 1) BY <1>2, <1>5, <1>7, <2>1
  <2>3. f[k] = g[k] /\ (k + 1 \in A <=> k + 1 \in B) BY <1>9, <2>1
  <2>4. f[k + 1] = g[k + 1] BY <2>2, <2>3 DEF Noted
  <2> QED BY <2>1, <2>4
<1> HIDE DEF P
<1>10. \A k \in 0 .. n : k \in P BY <1>8, <1>9, SetInduction
<1>11. f[n] = g[n] BY <1>10 DEF P
<1> QED BY <1>3, <1>5, <1>7, <1>11

(***************************************************************************)
(* Two recordings that differ in one answer                                *)
(***************************************************************************)

\* The places of the http turns among the first n.
HTTPPlaces(f, n) == InOrder(n, {i \in DOMAIN f.turns : f.turns[i].kind = "http"})

LEMMA HTTPTurnsAre ==
  ASSUME NEW f, NEW n, n = Len(f.turns)
  PROVE  HTTPTurns(f) = [k \in DOMAIN HTTPPlaces(f, n) |-> f.turns[HTTPPlaces(f, n)[k]]]
BY DEF HTTPTurns, Where, HTTPPlaces

LEMMA HTTPPlacesAre ==
  ASSUME NEW f, IsFile(f), NEW n, n = Len(f.turns), NEW at, at = HTTPPlaces(f, n)
  PROVE  /\ Ascends(at) /\ IsList(at) /\ DOMAIN at = 1 .. Len(at) /\ Len(at) \in Nat
         /\ \A k \in DOMAIN at : at[k] \in DOMAIN f.turns /\ f.turns[at[k]].kind = "http"
         /\ \A i \in DOMAIN f.turns : f.turns[i].kind = "http" => \E k \in DOMAIN at : at[k] = i
<1>1. n \in Nat /\ DOMAIN f.turns = 1 .. n BY LenProperties DEF IsFile
<1>2. PICK N : N = {i \in DOMAIN f.turns : f.turns[i].kind = "http"} OBVIOUS
<1>3. at = InOrder(n, N) BY <1>2 DEF HTTPPlaces
<1>4. NotedTo(at, N, n) BY <1>1, <1>3, InOrderIs
<1>5. at \in Seq((1 .. n) \cap N) /\ Ascends(at) /\ \A i \in (1 .. n) \cap N : \E k \in DOMAIN at : at[k] = i
  BY <1>4 DEF NotedTo
<1>6. PICK E : E = (1 .. n) \cap N OBVIOUS
<1>7. at \in Seq(E) BY <1>5, <1>6
<1>8. DOMAIN at = 1 .. Len(at) /\ Len(at) \in Nat /\ IsList(at) BY <1>7, LenProperties, ListIn
<1>9. \A k \in DOMAIN at : at[k] \in E BY <1>7, <1>8, ElementOfSeq
<1>10. N \subseteq 1 .. n BY <1>1, <1>2
<1> QED BY <1>1, <1>2, <1>5, <1>6, <1>8, <1>9, <1>10

\* The http turns among the first i.
HTTPCount(f, i) == Len(HTTPTurns([f EXCEPT !.turns = SubSeq(f.turns, 1, i)]))

\* Where turns are counted from the front, an http turn has the number of its place.
LEMMA HTTPNumber ==
  ASSUME NEW f, IsFile(f), NEW n, n = Len(f.turns), NEW at, at = HTTPPlaces(f, n),
         NEW i \in DOMAIN f.turns, f.turns[i].kind = "http",
         NEW m, m = HTTPCount(f, i)
  PROVE  m \in Nat \ {0} /\ m \in DOMAIN at /\ at[m] = i
<1>1. n \in Nat /\ DOMAIN f.turns = 1 .. n BY LenProperties DEF IsFile
<1>2. PICK N : N = {k \in DOMAIN f.turns : f.turns[k].kind = "http"} OBVIOUS
<1>3. i \in 1 .. n /\ i \in N /\ i \in Nat /\ i \in 0 .. Len(f.turns) BY <1>1, <1>2
<1>4. PICK x : x = Len(InOrder(i, N)) OBVIOUS
<1>19. at = InOrder(n, N) BY <1>2 DEF HTTPPlaces
<1>20. x \in Nat \ {0} /\ x \in DOMAIN at /\ at[x] = i BY <1>1, <1>3, <1>4, <1>19, NotedPlace
<1>5. PICK h : h = Shortened(f, i) OBVIOUS
<1>6. DOMAIN h.turns = 1 .. i /\ \A k \in 1 .. i : h.turns[k] = f.turns[k] BY <1>3, <1>5, ShortenedTurns
<1>7. IsFile(h)
  <2>1. Follows(f, f) BY SelfFollows
  <2>2. Follows(f, Shortened(f, i)) BY <1>3, <2>1, FollowsShortened
  <2> QED BY <1>5, <2>2 DEF Follows
<1>8. Len(h.turns) = i
  <2>1. Len(h.turns) \in Nat /\ DOMAIN h.turns = 1 .. Len(h.turns) BY <1>7, LenProperties DEF IsFile
  <2> QED BY <1>3, <1>6, <2>1
<1>9. PICK M : M = {k \in DOMAIN h.turns : h.turns[k].kind = "http"} OBVIOUS
<1>10. \A k \in 1 .. i : k \in M <=> k \in N BY <1>1, <1>2, <1>3, <1>6, <1>9
<1>11. InOrder(i, M) = InOrder(i, N) BY <1>3, <1>10, NotedAlike
<1>12. PICK bt : bt = HTTPPlaces(h, i) OBVIOUS
<1>13. bt = InOrder(i, N) BY <1>9, <1>11, <1>12 DEF HTTPPlaces
<1>14. HTTPTurns(h) = [k \in DOMAIN bt |-> h.turns[bt[k]]] BY <1>8, <1>12, HTTPTurnsAre
<1>15. DOMAIN bt = 1 .. Len(bt) /\ Len(bt) \in Nat BY <1>7, <1>8, <1>12, HTTPPlacesAre
<1>16. Len(HTTPTurns(h)) = Len(bt) BY <1>14, <1>15
<1>17. m = Len(HTTPTurns(h)) BY <1>5 DEF Shortened, HTTPCount
<1> QED BY <1>4, <1>13, <1>16, <1>17, <1>20

\* A number leads back to the turn.
LEMMA HTTPIndexIs ==
  ASSUME NEW f, IsFile(f), NEW n, n = Len(f.turns), NEW at, at = HTTPPlaces(f, n), NEW m \in DOMAIN at
  PROVE  NthHTTPIndex(f, m) = at[m]
<1>1. /\ Ascends(at) /\ DOMAIN at = 1 .. Len(at) /\ Len(at) \in Nat
      /\ \A k \in DOMAIN at : at[k] \in DOMAIN f.turns /\ f.turns[at[k]].kind = "http"
  BY HTTPPlacesAre
<1>2. DOMAIN f.turns \subseteq Nat BY LenProperties DEF IsFile
<1>3. PICK i \in DOMAIN f.turns : i = at[m] /\ f.turns[i].kind = "http" BY <1>1
<1>4. PICK S : S = {j \in DOMAIN f.turns : f.turns[j].kind = "http" /\ HTTPCount(f, j) = m} OBVIOUS
<1>5. ASSUME NEW j \in S PROVE j = i
  <2>1. j \in DOMAIN f.turns /\ f.turns[j].kind = "http" /\ m = HTTPCount(f, j) BY <1>4
  <2>2. at[m] = j BY <2>1, HTTPNumber
  <2> QED BY <1>3, <2>2
<1>6. i \in S
  <2>1. PICK x : x = HTTPCount(f, i) OBVIOUS
  <2>2. x \in Nat /\ x \in DOMAIN at /\ at[x] = i BY <1>3, <2>1, HTTPNumber
  <2>3. m \in Nat BY <1>1
  <2>4. ~(x < m) /\ ~(m < x) BY <1>1, <1>2, <1>3, <2>2 DEF Ascends
  <2>5. x = m BY <2>2, <2>3, <2>4
  <2> QED BY <1>3, <1>4, <2>1, <2>5
<1>7. NthHTTPIndex(f, m) = IF S = {} THEN 0 ELSE CHOOSE j \in S : TRUE BY <1>4 DEF NthHTTPIndex, HTTPCount
<1>8. (CHOOSE j \in S : TRUE) \in S BY <1>6
<1> QED BY <1>3, <1>5, <1>6, <1>7, <1>8

(***************************************************************************)
(* Calls that are compared                                                 *)
(***************************************************************************)

\* The places of the calls of a name.
Own(tools, name) == InOrder(Len(tools), {k \in DOMAIN tools : tools[k].name = name})

LEMMA ArgsAre ==
  ASSUME NEW tools, NEW name
  PROVE  ArgsOf(tools, name) = [k \in DOMAIN Own(tools, name) |-> tools[Own(tools, name)[k]].args]
BY DEF ArgsOf, Where, Own

LEMMA OwnIs ==
  ASSUME NEW tools \in Seq(ToolCalls), NEW name, NEW own, own = Own(tools, name)
  PROVE  /\ Ascends(own) /\ DOMAIN own = 1 .. Len(own) /\ Len(own) \in Nat
         /\ \A k \in DOMAIN own : own[k] \in DOMAIN tools /\ tools[own[k]].name = name
         /\ \A i \in DOMAIN tools : tools[i].name = name => \E k \in DOMAIN own : own[k] = i
         /\ \A j, k \in DOMAIN own : own[j] = own[k] => j = k
<1>1. PICK n \in Nat : n = Len(tools) /\ DOMAIN tools = 1 .. n BY LenProperties
<1>2. PICK N : N = {i \in DOMAIN tools : tools[i].name = name} OBVIOUS
<1>3. own = InOrder(n, N) BY <1>1, <1>2 DEF Own
<1>4. NotedTo(own, N, n) BY <1>1, <1>3, InOrderIs
<1>5. own \in Seq((1 .. n) \cap N) /\ Ascends(own) /\ \A i \in (1 .. n) \cap N : \E k \in DOMAIN own : own[k] = i
  BY <1>4 DEF NotedTo
<1>6. PICK E : E = (1 .. n) \cap N OBVIOUS
<1>7. own \in Seq(E) BY <1>5, <1>6
<1>8. DOMAIN own = 1 .. Len(own) /\ Len(own) \in Nat BY <1>7, LenProperties
<1>9. \A k \in DOMAIN own : own[k] \in E BY <1>7, <1>8, ElementOfSeq
<1>10. N \subseteq 1 .. n BY <1>1, <1>2
<1>11. ASSUME NEW j \in DOMAIN own, NEW k \in DOMAIN own, own[j] = own[k] PROVE j = k
  <2>1. j \in Nat /\ k \in Nat /\ own[j] \in Nat BY <1>6, <1>8, <1>9
  <2>2. ~(j < k) /\ ~(k < j) BY <1>5, <1>11, <2>1 DEF Ascends
  <2> QED BY <2>1, <2>2
<1> QED BY <1>2, <1>5, <1>6, <1>8, <1>9, <1>10, <1>11

\* What changes in the calls of one name.
ArgsChanges(la, lb, n) ==
  {<<"args", n, k>> : k \in {i \in 1 .. Shorter(la, lb) : la[i] # lb[i]}}
  \cup {<<"removed", n, k>> : k \in (Len(lb) + 1) .. Len(la)}
  \cup {<<"added", n, k>> : k \in (Len(la) + 1) .. Len(lb)}

LEMMA ShorterIs ==
  ASSUME NEW la, NEW lb, Len(la) \in Nat, Len(lb) \in Nat
  PROVE  /\ Shorter(la, lb) \in {Len(la), Len(lb)} /\ Shorter(la, lb) <= Len(la) /\ Shorter(la, lb) <= Len(lb)
<1>1. PICK x \in Nat : x = Len(la) OBVIOUS
<1>2. PICK y \in Nat : y = Len(lb) OBVIOUS
<1>3. PICK S : S = {x, y} OBVIOUS
<1>4. \E z \in S : \A w \in S : z <= w
  <2>1. CASE x <= y BY <1>3, <2>1
  <2>2. CASE y <= x BY <1>3, <2>2
  <2> QED BY <2>1, <2>2
<1>5. PICK z : z = CHOOSE v \in S : \A w \in S : v <= w OBVIOUS
<1>6. z \in S /\ \A w \in S : z <= w BY <1>4, <1>5
<1>7. Shorter(la, lb) = z BY <1>1, <1>2, <1>3, <1>5 DEF Shorter, Min
<1> QED BY <1>1, <1>2, <1>3, <1>6, <1>7

LEMMA NoChanges ==
  ASSUME NEW la, NEW lb, NEW n, Len(la) \in Nat, Len(lb) \in Nat
  PROVE  ArgsChanges(la, lb, n) = {} <=> Len(la) = Len(lb) /\ \A i \in 1 .. Len(la) : la[i] = lb[i]
<1>1. PICK x \in Nat : x = Len(la) OBVIOUS
<1>2. PICK y \in Nat : y = Len(lb) OBVIOUS
<1>3. PICK z : z = Shorter(la, lb) OBVIOUS
<1>4. z \in {x, y} /\ z <= x /\ z <= y BY <1>1, <1>2, <1>3, ShorterIs
<1>5. ArgsChanges(la, lb, n) = {} <=> /\ {i \in 1 .. z : la[i] # lb[i]} = {}
                                      /\ (y + 1) .. x = {} /\ (x + 1) .. y = {}
  <2>1. ArgsChanges(la, lb, n) = {<<"args", n, k>> : k \in {i \in 1 .. z : la[i] # lb[i]}}
                                 \cup {<<"removed", n, k>> : k \in (y + 1) .. x}
                                 \cup {<<"added", n, k>> : k \in (x + 1) .. y}
    BY <1>1, <1>2, <1>3 DEF ArgsChanges
  <2>2. PICK A : A = {i \in 1 .. z : la[i] # lb[i]} OBVIOUS
  <2>3. PICK B : B = (y + 1) .. x OBVIOUS
  <2>4. PICK C : C = (x + 1) .. y OBVIOUS
  <2>5. ArgsChanges(la, lb, n) = {<<"args", n, k>> : k \in A} \cup {<<"removed", n, k>> : k \in B} \cup {<<"added", n, k>> : k \in C}
    BY <2>1, <2>2, <2>3, <2>4
  <2>6. {<<"args", n, k>> : k \in A} \cup {<<"removed", n, k>> : k \in B} \cup {<<"added", n, k>> : k \in C} = {}
        <=> A = {} /\ B = {} /\ C = {}
    OBVIOUS
  <2> QED BY <2>2, <2>3, <2>4, <2>5, <2>6
<1>6. (y + 1) .. x = {} <=> x <= y
  <2>1. x > y => y + 1 \in (y + 1) .. x OBVIOUS
  <2> QED BY <2>1
<1>7. (x + 1) .. y = {} <=> y <= x
  <2>1. y > x => x + 1 \in (x + 1) .. y OBVIOUS
  <2> QED BY <2>1
<1>8. CASE x = y
  <2>1. z = x BY <1>4, <1>8
  <2> QED BY <1>1, <1>2, <1>5, <1>6, <1>7, <1>8, <2>1
<1>9. CASE x # y BY <1>1, <1>2, <1>5, <1>6, <1>7, <1>9
<1> QED BY <1>8, <1>9

LEMMA DiffIs ==
  ASSUME NEW a, NEW b
  PROVE  DiffTools(a, b) = {} <=>
           \A n \in {a[k].name : k \in DOMAIN a} \cup {b[k].name : k \in DOMAIN b} : ArgsChanges(ArgsOf(a, n), ArgsOf(b, n), n) = {}
<1>1. PICK names : names = {a[k].name : k \in DOMAIN a} \cup {b[k].name : k \in DOMAIN b} OBVIOUS
<1>2. DiffTools(a, b) = UNION {ArgsChanges(ArgsOf(a, n), ArgsOf(b, n), n) : n \in names} BY <1>1 DEF DiffTools, ArgsChanges
<1>3. UNION {ArgsChanges(ArgsOf(a, n), ArgsOf(b, n), n) : n \in names} = {} <=> \A n \in names : ArgsChanges(ArgsOf(a, n), ArgsOf(b, n), n) = {}
  OBVIOUS
<1> QED BY <1>1, <1>2, <1>3

\* Each call of one turn has its like in the other.
LEMMA CallsMatched ==
  ASSUME NEW a \in Seq(ToolCalls), NEW b \in Seq(ToolCalls), DiffTools(a, b) = {}
  PROVE  \E p \in Bijection(DOMAIN a, DOMAIN b) : \A j \in DOMAIN a : a[j] = b[p[j]]
<1> DEFINE A(n) == Own(a, n)
           B(n) == Own(b, n)
<1>1. ASSUME NEW n, n \in {a[k].name : k \in DOMAIN a} \cup {b[k].name : k \in DOMAIN b}
      PROVE  DOMAIN A(n) = DOMAIN B(n) /\ \A k \in DOMAIN A(n) : a[A(n)[k]].args = b[B(n)[k]].args
  <2>1. PICK x : x = A(n) OBVIOUS
  <2>2. PICK y : y = B(n) OBVIOUS
  <2>3. PICK la : la = ArgsOf(a, n) OBVIOUS
  <2>4. PICK lb : lb = ArgsOf(b, n) OBVIOUS
  <2>5. la = [k \in DOMAIN x |-> a[x[k]].args] /\ lb = [k \in DOMAIN y |-> b[y[k]].args] BY <2>1, <2>2, <2>3, <2>4, ArgsAre
  <2>6. DOMAIN x = 1 .. Len(x) /\ Len(x) \in Nat /\ DOMAIN y = 1 .. Len(y) /\ Len(y) \in Nat BY <2>1, <2>2, OwnIs
  <2>7. Len(la) = Len(x) /\ Len(lb) = Len(y) BY <2>5, <2>6
  <2>8. ArgsChanges(la, lb, n) = {} BY <1>1, <2>3, <2>4, DiffIs
  <2>9. Len(la) \in Nat /\ Len(lb) \in Nat BY <2>6, <2>7
  <2>10. Len(la) = Len(lb) /\ \A i \in 1 .. Len(la) : la[i] = lb[i] BY <2>8, <2>9, NoChanges
  <2> QED BY <2>1, <2>2, <2>5, <2>6, <2>7, <2>10
<1>2. ASSUME NEW n
      PROVE  /\ \A k \in DOMAIN A(n) : A(n)[k] \in DOMAIN a /\ a[A(n)[k]].name = n
             /\ \A i \in DOMAIN a : a[i].name = n => \E k \in DOMAIN A(n) : A(n)[k] = i
             /\ \A j, k \in DOMAIN A(n) : A(n)[j] = A(n)[k] => j = k
  BY OwnIs
<1>3. ASSUME NEW n
      PROVE  /\ \A k \in DOMAIN B(n) : B(n)[k] \in DOMAIN b /\ b[B(n)[k]].name = n
             /\ \A i \in DOMAIN b : b[i].name = n => \E k \in DOMAIN B(n) : B(n)[k] = i
             /\ \A j, k \in DOMAIN B(n) : B(n)[j] = B(n)[k] => j = k
  BY OwnIs
<1> HIDE DEF A, B
<1> DEFINE Rank(j) == CHOOSE k \in DOMAIN A(a[j].name) : A(a[j].name)[k] = j
           p == [j \in DOMAIN a |-> B(a[j].name)[Rank(j)]]
<1>4. ASSUME NEW j \in DOMAIN a
      PROVE  /\ Rank(j) \in DOMAIN A(a[j].name) /\ A(a[j].name)[Rank(j)] = j
             /\ Rank(j) \in DOMAIN B(a[j].name)
             /\ p[j] \in DOMAIN b /\ b[p[j]].name = a[j].name /\ b[p[j]].args = a[j].args
  <2>1. PICK n : n = a[j].name OBVIOUS
  <2>2. \E k \in DOMAIN A(n) : A(n)[k] = j
    <3>1. \A i \in DOMAIN a : a[i].name = n => \E k \in DOMAIN A(n) : A(n)[k] = i BY <1>2
    <3> QED BY <2>1, <3>1
  <2>3. PICK r : r = Rank(j) OBVIOUS
  <2>4. r \in DOMAIN A(n) /\ A(n)[r] = j BY <2>1, <2>2, <2>3
  <2>5. n \in {a[k].name : k \in DOMAIN a} \cup {b[k].name : k \in DOMAIN b} BY <2>1
  <2>6. DOMAIN A(n) = DOMAIN B(n) /\ a[A(n)[r]].args = b[B(n)[r]].args BY <1>1, <2>4, <2>5
  <2>7. p[j] = B(n)[r] BY <2>1, <2>3
  <2>8. B(n)[r] \in DOMAIN b /\ b[B(n)[r]].name = n BY <1>3, <2>4, <2>6
  <2> QED BY <2>1, <2>3, <2>4, <2>6, <2>7, <2>8
<1> HIDE DEF Rank
<1>5. ASSUME NEW i \in DOMAIN a, NEW j \in DOMAIN a, p[i] = p[j] PROVE i = j
  <2>1. a[i].name = a[j].name BY <1>4, <1>5
  <2>2. PICK n : n = a[i].name OBVIOUS
  <2>3. B(n)[Rank(i)] = B(n)[Rank(j)] BY <1>5, <2>1, <2>2
  <2>4. Rank(i) = Rank(j) BY <1>3, <1>4, <2>1, <2>2, <2>3
  <2>5. A(n)[Rank(i)] = i /\ A(n)[Rank(j)] = j BY <1>4, <2>1, <2>2
  <2> QED BY <2>4, <2>5
<1>6. ASSUME NEW x \in DOMAIN b PROVE \E j \in DOMAIN a : p[j] = x
  <2>1. PICK n : n = b[x].name OBVIOUS
  <2>2. PICK k \in DOMAIN B(n) : B(n)[k] = x
    <3>1. \A i \in DOMAIN b : b[i].name = n => \E k \in DOMAIN B(n) : B(n)[k] = i BY <1>3
    <3> QED BY <2>1, <3>1
  <2>3. n \in {a[m].name : m \in DOMAIN a} \cup {b[m].name : m \in DOMAIN b} BY <2>1
  <2>4. k \in DOMAIN A(n) BY <1>1, <2>2, <2>3
  <2>5. PICK j \in DOMAIN a : j = A(n)[k] /\ a[j].name = n BY <1>2, <2>4
  <2>6. Rank(j) = k BY <1>2, <1>4, <2>4, <2>5
  <2>7. p[j] = x BY <2>2, <2>5, <2>6
  <2> QED BY <2>7
<1>7. p \in [DOMAIN a -> DOMAIN b] BY <1>4
<1>8. \A j \in DOMAIN a : a[j] = b[p[j]]
  <2>1. ASSUME NEW j \in DOMAIN a PROVE a[j] = b[p[j]]
    <3>1. PICK c : c = a[j] OBVIOUS
    <3>2. PICK d : d = b[p[j]] OBVIOUS
    <3>3. c \in ToolCalls /\ d \in ToolCalls BY <1>4, <3>1, <3>2, ElementOfSeq, LenProperties
    <3>4. c.name = d.name /\ c.args = d.args BY <1>4, <3>1, <3>2
    <3>5. c = d BY <3>3, <3>4, CallIs
    <3> QED BY <3>1, <3>2, <3>5
  <2> QED BY <2>1
<1> HIDE DEF p
<1>9. p \in Bijection(DOMAIN a, DOMAIN b)
  BY <1>5, <1>6, <1>7 DEF Bijection, Injection, Surjection, IsInjective
<1> QED BY <1>8, <1>9

\* Sorted calls that are compared and found alike are the same.
LEMMA DiffTells ==
  ASSUME NEW a, AsDecoded(a), NEW b, AsDecoded(b)
  PROVE  DiffTools(a, b) = {} <=> a = b
<1>1. a \in Seq(ToolCalls) /\ b \in Seq(ToolCalls) /\ Sorted(a) = a /\ Sorted(b) = b BY DEF AsDecoded
<1>2. PICK x \in Nat : DOMAIN a = 1 .. x BY <1>1, LenProperties
<1>3. PICK y \in Nat : DOMAIN b = 1 .. y BY <1>1, LenProperties
<1>4. ASSUME DiffTools(a, b) = {} PROVE a = b
  <2>1. PICK p \in Bijection(DOMAIN a, DOMAIN b) : \A j \in DOMAIN a : a[j] = b[p[j]] BY <1>1, <1>4, CallsMatched
  <2>2. p \in Bijection(1 .. x, 1 .. y) BY <1>2, <1>3, <2>1
  <2>3. ExistsBijection(1 .. x, 1 .. y) BY <2>2 DEF ExistsBijection
  <2>4. ExistsBijection(1 .. y, 1 .. y) BY Fun_ExistsBijReflexive
  <2>5. x = y BY <2>3, <2>4, Fun_NatBijSame
  <2>6. p \in Bijection(DOMAIN b, DOMAIN b) BY <1>2, <1>3, <2>1, <2>5
  <2>7. a = [j \in DOMAIN b |-> b[p[j]]]
    <3>1. a = [j \in DOMAIN a |-> a[j]]
      <4>1. IsList(a) BY <1>1, ListIn
      <4> QED BY <4>1, ListHas
    <3>2. \A j \in DOMAIN a : a[j] = b[p[j]] BY <2>1
    <3>3. DOMAIN a = DOMAIN b BY <1>2, <1>3, <2>5
    <3> QED BY <3>1, <3>2, <3>3
  <2>8. Rearrangements(a) = Rearrangements(b) BY <2>6, <2>7, Rearranged
  <2>9. Sorted(a) = Sorted(b) BY <2>8 DEF Sorted
  <2> QED BY <1>1, <2>9
<1>5. ASSUME a = b PROVE DiffTools(a, b) = {}
  <2>1. ASSUME NEW n PROVE ArgsChanges(ArgsOf(a, n), ArgsOf(b, n), n) = {}
    <3>1. PICK own : own = Own(a, n) OBVIOUS
    <3>2. PICK la : la = ArgsOf(a, n) OBVIOUS
    <3>3. la = [k \in DOMAIN own |-> a[own[k]].args] BY <3>1, <3>2, ArgsAre
    <3>4. DOMAIN own = 1 .. Len(own) /\ Len(own) \in Nat BY <1>1, <3>1, OwnIs
    <3>5. Len(la) \in Nat BY <3>3, <3>4
    <3>6. ArgsChanges(la, la, n) = {} BY <3>5, NoChanges
    <3> QED BY <1>5, <3>2, <3>6
  <2> QED BY <2>1, DiffIs
<1> QED BY <1>4, <1>5

(***************************************************************************)
(* What an edit asks for                                                   *)
(***************************************************************************)

\* A turn whose calls have their documents in canonical form.
InCanon(t) == Told(t) /\ \A k \in DOMAIN t.tools : Canonicalize(t.tools[k].args) = t.tools[k].args

LEMMA DecodedPlain == ASSUME NEW t, IsDecoded(t) PROVE InCanon(t)
<1>1. PICK text \in Seq(Symbols), reason \in Symbols : \E tools : AsDecoded(tools) /\ t = Transcript(text, tools, reason)
  BY DEF IsDecoded
<1>2. PICK tools : AsDecoded(tools) /\ t = Transcript(text, tools, reason) BY <1>1
<1>3. t.tools = tools BY <1>2, TranscriptIs
<1>4. \A k \in DOMAIN tools : Canonicalize(tools[k].args) = tools[k].args BY <1>2 DEF AsDecoded
<1> QED BY <1>3, <1>4, DecodedTold DEF InCanon

\* A turn: a record with a list of calls, whatever they are.
Turnlike(t) ==
  /\ t = [role |-> t.role, text |-> t.text, tools |-> t.tools, finish |-> t.finish]
  /\ IsList(t.tools)

LEMMA TurnlikeIs ==
  ASSUME NEW role, NEW text, NEW tools, IsList(tools), NEW reason,
         NEW t, t = [role |-> role, text |-> text, tools |-> tools, finish |-> reason]
  PROVE  Turnlike(t) /\ t.tools = tools
BY DEF Turnlike

LEMMA ListChanged ==
  ASSUME NEW s, IsList(s), NEW k, NEW x, NEW w, w = [s EXCEPT ![k] = x]
  PROVE  IsList(w) /\ DOMAIN w = DOMAIN s /\ \A j \in DOMAIN s : w[j] = IF j = k THEN x ELSE s[j]
<1>1. PICK n \in Nat : n = Len(s) /\ DOMAIN s = 1 .. n BY ListHas
<1>2. DOMAIN w = 1 .. n /\ w = [j \in DOMAIN w |-> w[j]] /\ \A j \in DOMAIN s : w[j] = IF j = k THEN x ELSE s[j] BY <1>1
<1> QED BY <1>1, <1>2, ListOf DEF IsList

\* What an edit may make of a call.
CallEdited(d, c, e) ==
  d = c \/ d = [c EXCEPT !.name = e.word] \/ d = [c EXCEPT !.args = Canonicalize(e.text)]

\* What an edit does to the calls.
LEMMA EditedTools ==
  ASSUME NEW t, Turnlike(t), NEW e \in EditsOf(Words), NEW q, q = Edited(t, e)
  PROVE  /\ Turnlike(q) /\ DOMAIN q.tools = DOMAIN t.tools
         /\ \A j \in DOMAIN t.tools : CallEdited(q.tools[j], t.tools[j], e)
<1>1. PICK role : role = t.role OBVIOUS
<1>2. PICK text : text = t.text OBVIOUS
<1>3. PICK tools : tools = t.tools OBVIOUS
<1>4. PICK reason : reason = t.finish OBVIOUS
<1>5. t = [role |-> role, text |-> text, tools |-> tools, finish |-> reason] /\ IsList(tools)
  BY <1>1, <1>2, <1>3, <1>4 DEF Turnlike
<1>0. \A j \in DOMAIN tools : CallEdited(tools[j], tools[j], e) BY DEF CallEdited
<1>6. e.slot \in {"text", "append", "finish", "name", "args"} BY DEF EditsOf
<1>7. CASE e.slot = "text"
  <2>1. q = [t EXCEPT !.text = e.text] BY <1>7 DEF Edited
  <2>2. PICK a : a = e.text OBVIOUS
  <2>3. q = [role |-> role, text |-> a, tools |-> tools, finish |-> reason] BY <1>5, <2>1, <2>2
  <2> QED BY <1>3, <1>5, <1>0, <2>3, TurnlikeIs
<1>8. CASE e.slot = "append"
  <2>1. PICK a : a = t.text \o e.text OBVIOUS
  <2>2. q = [t EXCEPT !.text = a] BY <1>8, <2>1 DEF Edited
  <2>3. q = [role |-> role, text |-> a, tools |-> tools, finish |-> reason] BY <1>5, <2>2
  <2> QED BY <1>3, <1>5, <1>0, <2>3, TurnlikeIs
<1>9. CASE e.slot = "finish"
  <2>1. q = [t EXCEPT !.finish = e.word] BY <1>9 DEF Edited
  <2>2. PICK a : a = e.word OBVIOUS
  <2>3. q = [role |-> role, text |-> text, tools |-> tools, finish |-> a] BY <1>5, <2>1, <2>2
  <2> QED BY <1>3, <1>5, <1>0, <2>3, TurnlikeIs
<1>10. CASE e.slot = "name"
  <2>1. PICK k : k = e.index OBVIOUS
  <2>2. PICK d : d = [tools[k] EXCEPT !.name = e.word] OBVIOUS
  <2>3. PICK w : w = [tools EXCEPT ![k] = d] OBVIOUS
  <2>4. q = [t EXCEPT !.tools[k].name = e.word] BY <1>10, <2>1 DEF Edited
  <2>5. q = [t EXCEPT !.tools = w] BY <1>5, <2>2, <2>3, <2>4
  <2>6. q = [role |-> role, text |-> text, tools |-> w, finish |-> reason] BY <1>5, <2>5
  <2>7. IsList(w) /\ DOMAIN w = DOMAIN tools /\ \A j \in DOMAIN tools : w[j] = IF j = k THEN d ELSE tools[j]
    BY <1>5, <2>3, ListChanged
  <2>8. Turnlike(q) /\ q.tools = w BY <2>6, <2>7, TurnlikeIs
  <2>9. ASSUME NEW j \in DOMAIN tools PROVE CallEdited(w[j], tools[j], e)
    <3>1. CASE j = k
      <4>1. w[j] = d BY <2>7, <3>1
      <4>2. CallEdited(d, tools[k], e) BY <2>2 DEF CallEdited
      <4> QED BY <3>1, <4>1, <4>2
    <3>2. CASE j # k
      <4>1. w[j] = tools[j] BY <2>7, <3>2
      <4> QED BY <1>0, <4>1
    <3> QED BY <3>1, <3>2
  <2> QED BY <1>3, <2>7, <2>8, <2>9
<1>11. CASE e.slot = "args"
  <2>1. PICK k : k = e.index OBVIOUS
  <2>2. PICK args : args = Canonicalize(e.text) OBVIOUS
  <2>3. PICK d : d = [tools[k] EXCEPT !.args = args] OBVIOUS
  <2>4. PICK w : w = [tools EXCEPT ![k] = d] OBVIOUS
  <2>5. q = [t EXCEPT !.tools[k].args = args] BY <1>11, <2>1, <2>2 DEF Edited
  <2>6. q = [t EXCEPT !.tools = w] BY <1>5, <2>3, <2>4, <2>5
  <2>7. q = [role |-> role, text |-> text, tools |-> w, finish |-> reason] BY <1>5, <2>6
  <2>8. IsList(w) /\ DOMAIN w = DOMAIN tools /\ \A j \in DOMAIN tools : w[j] = IF j = k THEN d ELSE tools[j]
    BY <1>5, <2>4, ListChanged
  <2>9. Turnlike(q) /\ q.tools = w BY <2>7, <2>8, TurnlikeIs
  <2>10. ASSUME NEW j \in DOMAIN tools PROVE CallEdited(w[j], tools[j], e)
    <3>1. CASE j = k
      <4>1. w[j] = d BY <2>8, <3>1
      <4>2. CallEdited(d, tools[k], e) BY <2>2, <2>3 DEF CallEdited
      <4> QED BY <3>1, <4>1, <4>2
    <3>2. CASE j # k
      <4>1. w[j] = tools[j] BY <2>8, <3>2
      <4> QED BY <1>0, <4>1
    <3> QED BY <3>1, <3>2
  <2> QED BY <1>3, <2>8, <2>9, <2>10
<1> QED BY <1>6, <1>7, <1>8, <1>9, <1>10, <1>11

LEMMA ToldTurnlike == ASSUME NEW t, Told(t) PROVE Turnlike(t)
<1>1. PICK text \in Seq(Symbols), tools \in Seq(ToolCalls), reason \in Symbols : t = Transcript(text, tools, reason) BY DEF Told
<1>2. IsList(tools) BY ListIn
<1>3. PICK role : role = "assistant" OBVIOUS
<1>4. t = [role |-> role, text |-> text, tools |-> tools, finish |-> reason] BY <1>1, <1>3 DEF Transcript
<1> QED BY <1>2, <1>4, TurnlikeIs

LEMMA EditedPlain ==
  ASSUME NEW t, InCanon(t), NEW e \in EditsOf(Words), e.slot \in {"name", "args"} => e.index \in DOMAIN t.tools,
         NEW q, q = Edited(t, e)
  PROVE  InCanon(q) /\ DOMAIN q.tools = DOMAIN t.tools
<1>1. Told(t) /\ Told(q) /\ DOMAIN q.tools = DOMAIN t.tools BY EditedTold DEF InCanon
<1>2. Turnlike(t) BY <1>1, ToldTurnlike
<1>3. ASSUME NEW j \in DOMAIN q.tools PROVE Canonicalize(q.tools[j].args) = q.tools[j].args
  <2>1. PICK c : c = t.tools[j] OBVIOUS
  <2>2. c \in ToolCalls
    <3>1. PICK text \in Seq(Symbols), tools \in Seq(ToolCalls), reason \in Symbols : t = Transcript(text, tools, reason)
      BY <1>1 DEF Told
    <3>2. t.tools = tools BY <3>1, TranscriptIs
    <3> QED BY <1>1, <1>3, <2>1, <3>2, ElementOfSeq, LenProperties
  <2>3. Canonicalize(c.args) = c.args BY <1>1, <1>3, <2>1 DEF InCanon
  <2>4. PICK d : d = q.tools[j] OBVIOUS
  <2>5. PICK args : args = Canonicalize(e.text) OBVIOUS
  <2>6. Canonicalize(args) = args BY <2>5, CanonicalTwice
  <2>7. d = c \/ d = [c EXCEPT !.name = e.word] \/ d = [c EXCEPT !.args = args]
    <3>1. j \in DOMAIN t.tools BY <1>1, <1>3
    <3>2. CallEdited(d, c, e) BY <1>2, <2>1, <2>4, <3>1, EditedTools
    <3> QED BY <2>5, <3>2 DEF CallEdited
  <2>8. c = [name |-> c.name, args |-> c.args] BY <2>2, CallIs
  <2>9. d.args = c.args \/ d.args = args BY <2>7, <2>8
  <2> QED BY <2>3, <2>4, <2>6, <2>9
<1> QED BY <1>1, <1>3 DEF InCanon

LEMMA EditsPlain ==
  ASSUME NEW t, InCanon(t), NEW edits \in Seq(EditsOf(Words)), ~GraftEditsFail(t, edits)
  PROVE  InCanon(Folded(Edited, t, edits))
<1>1. PICK n \in Nat : n = Len(edits) /\ DOMAIN edits = 1 .. n BY LenProperties
<1>2. Len(edits) \in Nat BY <1>1
<1>3. \E f : /\ f = [k \in 0 .. Len(edits) |-> IF k = 0 THEN t ELSE Edited(f[k - 1], edits[k])]
              /\ EditsFold(t, edits) = f[Len(edits)]
  BY <1>2, EditsDef, Zenon
<1>4. PICK f : /\ f = [k \in 0 .. n |-> IF k = 0 THEN t ELSE Edited(f[k - 1], edits[k])]
               /\ EditsFold(t, edits) = f[n]
  BY <1>1, <1>3
<1> DEFINE P == {k \in 0 .. n : InCanon(f[k]) /\ DOMAIN f[k].tools = DOMAIN t.tools}
<1>5. 0 \in P BY <1>4
<1>6. ASSUME NEW k \in 0 .. (n - 1), k \in P PROVE k + 1 \in P
  <2>1. k + 1 \in 1 .. n /\ (k + 1) - 1 = k /\ k + 1 \in 0 .. n OBVIOUS
  <2>2. PICK e : e = edits[k + 1] OBVIOUS
  <2>3. e \in EditsOf(Words) BY <1>1, <2>1, <2>2, ElementOfSeq
  <2>4. ~EditFails(t, e) BY <1>1, <2>1, <2>2 DEF GraftEditsFail
  <2>5. PICK r : r = f[k] OBVIOUS
  <2>6. InCanon(r) /\ DOMAIN r.tools = DOMAIN t.tools BY <1>6, <2>5
  <2>7. e.slot \in {"name", "args"} => e.index \in DOMAIN r.tools BY <2>4, <2>6 DEF EditFails
  <2>8. PICK q : q = f[k + 1] OBVIOUS
  <2>9. q = Edited(r, e) BY <1>4, <2>1, <2>2, <2>5, <2>8
  <2>10. InCanon(q) /\ DOMAIN q.tools = DOMAIN r.tools BY <2>3, <2>6, <2>7, <2>9, EditedPlain
  <2> QED BY <2>1, <2>6, <2>8, <2>10
<1> HIDE DEF P
<1>7. \A k \in 0 .. n : k \in P BY <1>5, <1>6, SetInduction
<1>8. n \in P BY <1>7
<1>9. InCanon(f[n]) BY <1>8 DEF P
<1> QED BY <1>4, <1>9 DEF EditsFold

\* A set of all numbers up to n, in order.
LEMMA InOrderAll ==
  ASSUME NEW n \in Nat, NEW numbers, 1 .. n \subseteq numbers
  PROVE  InOrder(n, numbers) = [k \in 1 .. n |-> k]
<1>1. PICK ss : ss = [i \in 1 .. n |-> i] OBVIOUS
<1>2. Len(ss) = n /\ \A k \in 1 .. n : ss[k] = k BY <1>1
<1>3. InOrder(n, numbers) = NotedIn(numbers, ss) BY <1>1 DEF InOrder, NotedIn
<1>4. \E f : /\ f = [k \in 0 .. Len(ss) |-> IF k = 0 THEN <<>> ELSE Noted(numbers, f[k - 1], ss[k])]
              /\ NotedIn(numbers, ss) = f[Len(ss)]
  BY <1>2, NotedDef, Zenon
<1>5. PICK f : /\ f = [k \in 0 .. n |-> IF k = 0 THEN <<>> ELSE Noted(numbers, f[k - 1], ss[k])]
               /\ NotedIn(numbers, ss) = f[n]
  BY <1>2, <1>4
<1> DEFINE P == {k \in 0 .. n : f[k] \in Seq(Nat) /\ Len(f[k]) = k /\ \A j \in 1 .. k : f[k][j] = j}
<1>6. 0 \in P BY <1>5
<1>7. ASSUME NEW k \in 0 .. (n - 1), k \in P PROVE k + 1 \in P
  <2>1. k + 1 \in 1 .. n /\ (k + 1) - 1 = k /\ k + 1 \in 0 .. n /\ k + 1 \in numbers OBVIOUS
  <2>2. PICK s : s = f[k] OBVIOUS
  <2>3. s \in Seq(Nat) /\ Len(s) = k /\ \A j \in 1 .. k : s[j] = j BY <1>7, <2>2
  <2>4. PICK x \in Nat : x = k + 1
    <3>1. k + 1 \in Nat BY <2>1
    <3> QED BY <3>1
  <2>5. f[k + 1] = Append(s, x)
    <3>1. f[k + 1] = Noted(numbers, f[(k + 1) - 1], ss[k + 1]) BY <1>5, <2>1
    <3>2. ss[k + 1] = x BY <1>2, <2>1, <2>4
    <3>3. f[k + 1] = Noted(numbers, s, x) BY <2>1, <2>2, <3>1, <3>2
    <3> QED BY <2>1, <2>4, <3>3 DEF Noted
  <2>6. PICK v : v = Append(s, x) OBVIOUS
  <2>7. v \in Seq(Nat) /\ Len(v) = k + 1 /\ v[k + 1] = x /\ \A j \in 1 .. k : v[j] = s[j]
    BY <2>3, <2>6, AppendProperties
  <2>8. \A j \in 1 .. (k + 1) : v[j] = j
    <3>1. \A j \in 1 .. (k + 1) : j \in 1 .. k \/ j = k + 1 OBVIOUS
    <3> QED BY <2>3, <2>4, <2>7, <3>1
  <2> QED BY <2>1, <2>5, <2>6, <2>7, <2>8
<1> HIDE DEF P
<1>8. \A k \in 0 .. n : k \in P BY <1>6, <1>7, SetInduction
<1>9. f[n] \in Seq(Nat) /\ Len(f[n]) = n /\ \A j \in 1 .. n : f[n][j] = j BY <1>8 DEF P
<1>10. PICK s : s = f[n] OBVIOUS
<1>11. DOMAIN s = 1 .. n /\ s = [j \in DOMAIN s |-> s[j]] BY <1>9, <1>10, LenProperties
<1> QED BY <1>3, <1>5, <1>9, <1>10, <1>11

\* No call is dropped.
LEMMA WithoutNone ==
  ASSUME NEW t, Turnlike(t)
  PROVE  WithoutTools(t, {}) = t
<1>1. PICK role : role = t.role OBVIOUS
<1>2. PICK text : text = t.text OBVIOUS
<1>3. PICK tools : tools = t.tools OBVIOUS
<1>4. PICK reason : reason = t.finish OBVIOUS
<1>5. t = [role |-> role, text |-> text, tools |-> tools, finish |-> reason] /\ IsList(tools)
  BY <1>1, <1>2, <1>3, <1>4 DEF Turnlike
<1>6. PICK n \in Nat : n = Len(tools) /\ DOMAIN tools = 1 .. n /\ tools = [i \in DOMAIN tools |-> tools[i]] BY <1>5, ListHas
<1>7. PICK N : N = {k \in DOMAIN tools : k \notin {}} OBVIOUS
<1>8. 1 .. n \subseteq N BY <1>6, <1>7
<1>9. PICK kept : kept = InOrder(n, N) OBVIOUS
<1>10. kept = [k \in 1 .. n |-> k] BY <1>8, <1>9, InOrderAll
<1>11. kept = Where(t.tools, LAMBDA k : k \notin {}) BY <1>3, <1>6, <1>7, <1>9 DEF Where
<1>12. PICK w : w = [k \in DOMAIN kept |-> tools[kept[k]]] OBVIOUS
<1>13. w = tools BY <1>6, <1>10, <1>12
<1>14. WithoutTools(t, {}) = [t EXCEPT !.tools = w] BY <1>3, <1>11, <1>12 DEF WithoutTools
<1> QED BY <1>5, <1>13, <1>14

LEMMA OneEdit == ASSUME NEW t, NEW edits, Len(edits) = 1 PROVE Folded(Edited, t, edits) = Edited(t, edits[1])
<1>1. Len(edits) \in Nat OBVIOUS
<1>2. \E f : /\ f = [k \in 0 .. Len(edits) |-> IF k = 0 THEN t ELSE Edited(f[k - 1], edits[k])]
              /\ EditsFold(t, edits) = f[Len(edits)]
  BY <1>1, EditsDef, Zenon
<1>3. PICK f : /\ f = [k \in 0 .. 1 |-> IF k = 0 THEN t ELSE Edited(f[k - 1], edits[k])]
               /\ EditsFold(t, edits) = f[1]
  BY <1>2
<1>4. f[0] = t BY <1>3
<1>5. f[1] = Edited(f[1 - 1], edits[1]) BY <1>3
<1>6. f[1] = Edited(t, edits[1]) BY <1>4, <1>5
<1> QED BY <1>3, <1>6 DEF EditsFold

\* One edit is what is asked for.
LEMMA OneGraft ==
  ASSUME NEW t, Turnlike(t), NEW edits \in Seq(EditsOf(Words)), Len(edits) = 1
  PROVE  ApplyGraftEdits(t, edits, {}) = Edited(t, edits[1])
<1>1. PICK e : e = edits[1] OBVIOUS
<1>2. e \in EditsOf(Words) BY <1>1, ElementOfSeq
<1>3. PICK u : u = Edited(t, e) OBVIOUS
<1>4. Turnlike(u) BY <1>2, <1>3, EditedTools
<1>5. Folded(Edited, t, edits) = u BY <1>1, <1>3, OneEdit
<1>6. ApplyGraftEdits(t, edits, {}) = WithoutTools(u, {}) BY <1>5 DEF ApplyGraftEdits
<1> QED BY <1>1, <1>3, <1>4, <1>6, WithoutNone

LEMMA GraftPlain ==
  ASSUME NEW t, InCanon(t), NEW edits \in Seq(EditsOf(Words)), ~GraftEditsFail(t, edits)
  PROVE  InCanon(ApplyGraftEdits(t, edits, {}))
<1>1. PICK u : u = Folded(Edited, t, edits) OBVIOUS
<1>2. InCanon(u) BY <1>1, EditsPlain
<1>3. Turnlike(u) BY <1>2, ToldTurnlike DEF InCanon
<1>4. ApplyGraftEdits(t, edits, {}) = WithoutTools(u, {}) BY <1>1 DEF ApplyGraftEdits
<1> QED BY <1>2, <1>3, <1>4, WithoutNone

\* What was asked for is read back, if the dialect can write it.
LEMMA WantedBack ==
  ASSUME NEW p \in Dialects, NEW want, InCanon(want), Writable(p, want)
  PROVE  Equal(Decode(p, Encode(p, want)), want)
<1>1. PICK text \in Seq(Symbols), tools \in Seq(ToolCalls), reason \in Symbols : want = Transcript(text, tools, reason)
  BY DEF InCanon, Told
<1>2. want.tools = tools BY <1>1, TranscriptIs
<1>3. \A k \in DOMAIN tools : Canonicalize(tools[k].args) = tools[k].args BY <1>2 DEF InCanon
<1>4. PICK s : s = Sorted(tools) OBVIOUS
<1>5. AsDecoded(s) /\ s \in Seq(ToolCalls) BY <1>3, <1>4, SortedDecoded DEF AsDecoded
<1>6. \A k \in DOMAIN s : \E j \in DOMAIN tools : s[k] = tools[j] BY <1>4, SortedTools
<1>7. Normalize(want) = Transcript(text, s, reason) BY <1>1, <1>4, NormalizedIs
<1>8. PICK w : w = Canonized(OnWire(p, s)) OBVIOUS
<1>9. Decode(p, Encode(p, want)) = Transcript(text, Sorted(w), reason) BY <1>5, <1>7, <1>8, EncodedDecoded
<1>10. p \in Fragmented \/ \A k \in DOMAIN s : Valid(s[k].args) BY <1>2, <1>6 DEF Writable
<1>11. Sorted(w) = s BY <1>5, <1>8, <1>10, CallsBack
<1>12. Sorted(s) = s BY <1>5 DEF AsDecoded
<1>13. Normalize(Transcript(text, s, reason)) = Transcript(text, s, reason) BY <1>12, NormalizedIs
<1> QED BY <1>7, <1>9, <1>11, <1>13 DEF Equal, Digest

(***************************************************************************)
(* Two recordings that differ in one answer                                *)
(***************************************************************************)

\* g is the beginning of f with another answer to the same question at i.
EditedAt(f, g, i, jt) ==
  /\ IsFile(f) /\ IsFile(g) /\ i \in DOMAIN g.turns /\ DOMAIN g.turns \subseteq DOMAIN f.turns
  /\ AskedSame(f.turns[i], jt)
  /\ \A k \in DOMAIN g.turns : g.turns[k] = IF k = i THEN jt ELSE f.turns[k]

Edition(f, i, t) == Answered(f.turns[i], TRUE, Encode(f.turns[i].dialect, t))

LEMMA SplicedAt ==
  ASSUME NEW f, IsFile(f), NEW i \in DOMAIN f.turns, NEW t, NEW g, g = Spliced(f, i, t)
  PROVE  EditedAt(f, g, i, Edition(f, i, t)) /\ DOMAIN g.turns = DOMAIN f.turns
<1>1. PICK jt : jt = Edition(f, i, t) OBVIOUS
<1>2. PICK turns : turns = [f.turns EXCEPT ![i] = jt] OBVIOUS
<1>3. g = [f EXCEPT !.turns = turns] BY <1>1, <1>2 DEF Spliced, Edition
<1>4. g.turns = turns BY <1>3, FileChanged
<1>5. \A k \in DOMAIN g.turns : g.turns[k] = IF k = i THEN jt ELSE f.turns[k] BY <1>2, <1>4
<1>6. IsFile(g) /\ DOMAIN g.turns = DOMAIN f.turns BY SplicedFollows DEF Follows
<1>7. AskedSame(f.turns[i], jt) BY <1>1, AskedSelf DEF IsFile, Edition
<1> QED BY <1>1, <1>5, <1>6, <1>7 DEF EditedAt

\* The lengths of files with the same turns.
LEMMA SameLength ==
  ASSUME NEW f, IsFile(f), NEW g, IsFile(g), DOMAIN g.turns = DOMAIN f.turns
  PROVE  Len(g.turns) = Len(f.turns) /\ Len(f.turns) \in Nat /\ DOMAIN f.turns = 1 .. Len(f.turns)
<1>1. DOMAIN f.turns = 1 .. Len(f.turns) /\ Len(f.turns) \in Nat BY LenProperties DEF IsFile
<1>2. DOMAIN g.turns = 1 .. Len(g.turns) /\ Len(g.turns) \in Nat BY LenProperties DEF IsFile
<1> QED BY <1>1, <1>2

LEMMA ShortenedFile ==
  ASSUME NEW f, IsFile(f), NEW n \in 0 .. Len(f.turns), NEW h, h = Shortened(f, n)
  PROVE  IsFile(h) /\ DOMAIN h.turns = 1 .. n /\ 1 .. n \subseteq DOMAIN f.turns /\ \A k \in 1 .. n : h.turns[k] = f.turns[k]
<1>1. Follows(f, f) BY SelfFollows
<1>2. IsFile(h) BY <1>1, FollowsShortened DEF Follows
<1> QED BY <1>2, ShortenedTurns

LEMMA GraftedAt ==
  ASSUME NEW f, IsFile(f), NEW i \in DOMAIN f.turns, NEW t, NEW n, n = Len(f.turns), NEW l, l = Grafted(f, i, t, n)
  PROVE  EditedAt(f, l, i, Edition(f, i, t)) /\ DOMAIN l.turns = DOMAIN f.turns
<1>1. PICK g : g = Spliced(f, i, t) OBVIOUS
<1>2. PICK jt : jt = Edition(f, i, t) OBVIOUS
<1>3. EditedAt(f, g, i, jt) /\ DOMAIN g.turns = DOMAIN f.turns BY <1>1, <1>2, SplicedAt
<1>4. PICK x : x = IF g.notice = "" THEN "grafted" ELSE g.notice OBVIOUS
<1>5. PICK h : h = [g EXCEPT !.notice = x] OBVIOUS
<1>6. IsFile(g) BY <1>3 DEF EditedAt
<1>7. h.turns = g.turns BY <1>5, <1>6, FileChanged
<1>8. IsFile(h)
  <2>1. Follows(g, g) BY <1>6, SelfFollows
  <2> QED BY <1>5, <1>6, <2>1, FollowsNotice DEF Follows
<1>9. n \in Nat /\ DOMAIN f.turns = 1 .. n /\ n \in 0 .. Len(h.turns)
  BY <1>3, <1>7, <1>8, SameLength
<1>10. PICK s : s = Shortened(h, n) OBVIOUS
<1>11. IsFile(s) /\ DOMAIN s.turns = 1 .. n /\ \A k \in 1 .. n : s.turns[k] = h.turns[k] BY <1>8, <1>9, <1>10, ShortenedFile
<1>12. l = Linked(s, "graft", BehaviorDigest(f))
  <2>1. h = [g EXCEPT !.notice = IF g.notice = "" THEN "grafted" ELSE g.notice] BY <1>4, <1>5
  <2>2. PICK b : b = BehaviorDigest(f) OBVIOUS
  <2>3. PICK m : m = Linked(s, "graft", b) OBVIOUS
  <2>4. Grafted(f, i, t, n) = m BY <1>1, <1>10, <2>1, <2>2, <2>3 DEF Grafted
  <2> QED BY <2>2, <2>3, <2>4
<1>13. l.turns = s.turns BY <1>11, <1>12, LinkedTurns
<1>14. IsFile(l)
  <2>1. n \in 0 .. Len(f.turns) BY <1>9
  <2>2. Derived("graft", f, Grafted(f, i, t, n)) BY <2>1, GraftedDerived
  <2> QED BY <2>2 DEF Derived
<1>15. DOMAIN l.turns = DOMAIN f.turns /\ \A k \in DOMAIN l.turns : l.turns[k] = g.turns[k] BY <1>7, <1>9, <1>11, <1>13
<1> QED BY <1>2, <1>3, <1>14, <1>15 DEF EditedAt

LEMMA BranchedAt ==
  ASSUME NEW f, IsFile(f), NEW i \in DOMAIN f.turns, NEW t, NEW h, h = BranchSeed(Spliced(f, i, t), i)
  PROVE  EditedAt(f, h, i, Edition(f, i, t))
<1>1. PICK g : g = Spliced(f, i, t) OBVIOUS
<1>2. PICK jt : jt = Edition(f, i, t) OBVIOUS
<1>3. EditedAt(f, g, i, jt) /\ DOMAIN g.turns = DOMAIN f.turns BY <1>1, <1>2, SplicedAt
<1>4. IsFile(g) BY <1>3 DEF EditedAt
<1>5. DOMAIN g.turns = 1 .. Len(g.turns) /\ Len(g.turns) \in Nat BY <1>4, SameLength
<1>6. i \in 0 .. Len(g.turns) /\ i \in 1 .. i BY <1>3, <1>5
<1>7. PICK s : s = Shortened(g, i) OBVIOUS
<1>8. IsFile(s) /\ DOMAIN s.turns = 1 .. i /\ 1 .. i \subseteq DOMAIN g.turns /\ \A k \in 1 .. i : s.turns[k] = g.turns[k]
  BY <1>4, <1>6, <1>7, ShortenedFile
<1>9. h = [s EXCEPT !.notice = "seed"] BY <1>1, <1>7 DEF BranchSeed
<1>10. h.turns = s.turns BY <1>8, <1>9, FileChanged
<1>11. IsFile(h)
  <2>1. Follows(s, s) BY <1>8, SelfFollows
  <2>2. Follows(s, [s EXCEPT !.notice = "seed"]) BY <1>8, <2>1, FollowsNotice
  <2> QED BY <1>9, <2>2 DEF Follows
<1> QED BY <1>2, <1>3, <1>6, <1>8, <1>10, <1>11 DEF EditedAt

\* The beginning of f that is compared.
Cutting(f, g) == [f EXCEPT !.turns = SubSeq(f.turns, 1, Len(g.turns))]

LEMMA CutIs ==
  ASSUME NEW f, NEW g, NEW i, NEW jt, EditedAt(f, g, i, jt), NEW h, h = Cutting(f, g)
  PROVE  EditedAt(h, g, i, jt) /\ DOMAIN h.turns = DOMAIN g.turns /\ \A k \in DOMAIN h.turns : h.turns[k] = f.turns[k]
<1>1. IsFile(f) /\ IsFile(g) BY DEF EditedAt
<1>2. PICK n : n = Len(g.turns) OBVIOUS
<1>3. DOMAIN g.turns = 1 .. n /\ n \in Nat /\ DOMAIN f.turns = 1 .. Len(f.turns) /\ Len(f.turns) \in Nat BY <1>1, <1>2, SameLength
<1>4. n \in 0 .. Len(f.turns)
  <2>1. n = 0 \/ n \in DOMAIN f.turns BY <1>3 DEF EditedAt
  <2> QED BY <1>3, <2>1
<1>5. h = Shortened(f, n) BY <1>2 DEF Cutting, Shortened
<1>6. IsFile(h) /\ DOMAIN h.turns = 1 .. n /\ \A k \in 1 .. n : h.turns[k] = f.turns[k] BY <1>1, <1>4, <1>5, ShortenedFile
<1> QED BY <1>3, <1>6 DEF EditedAt

(***************************************************************************)
(* What diff and bisect find                                               *)
(***************************************************************************)

LEMMA PlacesAlike ==
  ASSUME NEW h, NEW g, NEW i, NEW jt, EditedAt(h, g, i, jt), DOMAIN h.turns = DOMAIN g.turns,
         NEW n, n = Len(h.turns), NEW at, at = HTTPPlaces(h, n), NEW ta, ta = HTTPTurns(h), NEW tb, tb = HTTPTurns(g)
  PROVE  /\ Len(at) \in Nat /\ DOMAIN at = 1 .. Len(at) /\ Len(ta) = Len(at) /\ Len(tb) = Len(at)
         /\ \A k \in DOMAIN at : ta[k] = h.turns[at[k]] /\ tb[k] = g.turns[at[k]]
<1>1. IsFile(h) /\ IsFile(g) BY DEF EditedAt
<1>2. n = Len(g.turns) BY <1>1, SameLength
<1>3. PICK A : A = {k \in DOMAIN h.turns : h.turns[k].kind = "http"} OBVIOUS
<1>4. A = {k \in DOMAIN g.turns : g.turns[k].kind = "http"}
  <2>1. \A k \in DOMAIN h.turns : g.turns[k].kind = h.turns[k].kind BY DEF EditedAt, AskedSame
  <2> QED BY <1>3, <2>1
<1>5. at = HTTPPlaces(g, n) BY <1>3, <1>4 DEF HTTPPlaces
<1>6. PICK L : L = Len(at) OBVIOUS
<1>7. L \in Nat /\ DOMAIN at = 1 .. L BY <1>1, <1>6, HTTPPlacesAre
<1>8. ta = [k \in DOMAIN at |-> h.turns[at[k]]] BY HTTPTurnsAre
<1>9. tb = [k \in DOMAIN at |-> g.turns[at[k]]] BY <1>2, <1>5, HTTPTurnsAre
<1>10. Len(ta) = L BY <1>7, <1>8
<1>11. Len(tb) = L BY <1>7, <1>9
<1> QED BY <1>6, <1>7, <1>8, <1>9, <1>10, <1>11

LEMMA NothingFound ==
  ASSUME NEW h, NEW g, NEW ta, ta = HTTPTurns(h), NEW tb, tb = HTTPTurns(g), Len(ta) \in Nat, Len(ta) = Len(tb),
         Divergent(ta, tb) = {}
  PROVE  ~Diverged(DiffRecordings(h, g)) /\ Bisect(h, g) = NoDivergence
<1>1. Shorter(ta, tb) = Len(ta) /\ Len(ta) - Shorter(ta, tb) = 0 /\ Len(tb) - Shorter(ta, tb) = 0 BY ShorterIs
<1>2. DiffRecordings(h, g) = [turns |-> {}, extraA |-> 0, extraB |-> 0]
  <2>1. PICK T : T = {TurnDiff(i, \A k \in Divergent(ta, tb) : i <= k, ta[i], tb[i]) : i \in Divergent(ta, tb)} OBVIOUS
  <2>2. T = {} BY <2>1
  <2>3. DiffRecordings(h, g) = [turns |-> T, extraA |-> Len(ta) - Shorter(ta, tb), extraB |-> Len(tb) - Shorter(ta, tb)]
    BY <2>1 DEF DiffRecordings
  <2> QED BY <1>1, <2>2, <2>3
<1>3. ~Diverged(DiffRecordings(h, g)) BY <1>2 DEF Diverged
<1>4. Bisect(h, g) = NoDivergence BY DEF Bisect
<1> QED BY <1>3, <1>4

\* One turn is found, and that.
FoundOne(h, g, m, d) == DiffRecordings(h, g).turns = {d} /\ Bisect(h, g).turn = m

OnlyOne(D, m) == D = {m}

\* What diff says of the first turn that differs.
RootDiff(m, it, jt) == TurnDiff(m, TRUE, it, jt)

Apart(it, jt) == Digest(TurnOf(it)) # Digest(TurnOf(jt))

LEMMA OneFound ==
  ASSUME NEW h, NEW g, NEW ta, ta = HTTPTurns(h), NEW tb, tb = HTTPTurns(g),
         NEW m \in Nat, NEW D, D = Divergent(ta, tb), OnlyOne(D, m),
         NEW d, d = RootDiff(m, ta[m], tb[m])
  PROVE  FoundOne(h, g, m, d)
<1>2. D = {m} BY DEF OnlyOne
<1>3. DiffRecordings(h, g).turns = {TurnDiff(i, \A k \in D : i <= k, ta[i], tb[i]) : i \in D}
  BY DEF DiffRecordings
<1>4. (\A k \in D : m <= k) = TRUE BY <1>2
<1>5. TurnDiff(m, \A k \in D : m <= k, ta[m], tb[m]) = TurnDiff(m, TRUE, ta[m], tb[m]) BY <1>4
<1>10. d = TurnDiff(m, TRUE, ta[m], tb[m]) BY DEF RootDiff
<1>6. DiffRecordings(h, g).turns = {d} BY <1>2, <1>3, <1>5, <1>10
<1>7. Min({m}) = m BY DEF Min
<1>8. Bisect(h, g) = [turn |-> m, axes |-> AxisDiff(ta[m].request, tb[m].request)]
  BY <1>2, <1>7 DEF Bisect
<1>9. Bisect(h, g).turn = m
  <2>1. PICK axes : axes = AxisDiff(ta[m].request, tb[m].request) OBVIOUS
  <2>2. Bisect(h, g) = [turn |-> m, axes |-> axes] BY <1>8, <2>1
  <2> QED BY <2>2
<1> QED BY <1>6, <1>9 DEF FoundOne

\* An answer to an MCP call is not compared.
LEMMA MCPNotFound ==
  ASSUME NEW h, NEW g, NEW i, NEW jt, EditedAt(h, g, i, jt), DOMAIN h.turns = DOMAIN g.turns, h.turns[i].kind # "http"
  PROVE  ~Diverged(DiffRecordings(h, g)) /\ Bisect(h, g) = NoDivergence
<1>1. PICK n : n = Len(h.turns) OBVIOUS
<1>2. PICK at : at = HTTPPlaces(h, n) OBVIOUS
<1>3. PICK ta : ta = HTTPTurns(h) OBVIOUS
<1>4. PICK tb : tb = HTTPTurns(g) OBVIOUS
<1>5. /\ Len(at) \in Nat /\ DOMAIN at = 1 .. Len(at) /\ Len(ta) = Len(at) /\ Len(tb) = Len(at)
      /\ \A k \in DOMAIN at : ta[k] = h.turns[at[k]] /\ tb[k] = g.turns[at[k]]
  BY <1>1, <1>2, <1>3, <1>4, PlacesAlike
<1>6. IsFile(h) BY DEF EditedAt
<1>7. \A k \in DOMAIN at : at[k] \in DOMAIN h.turns /\ h.turns[at[k]].kind = "http" BY <1>1, <1>2, <1>6, HTTPPlacesAre
<1>8. \A k \in DOMAIN at : ta[k] = tb[k]
  <2>1. ASSUME NEW k \in DOMAIN at PROVE ta[k] = tb[k]
    <3>1. at[k] # i /\ at[k] \in DOMAIN g.turns BY <1>7
    <3>2. g.turns[at[k]] = h.turns[at[k]] BY <3>1 DEF EditedAt
    <3> QED BY <1>5, <3>2
  <2> QED BY <2>1
<1>9. Shorter(ta, tb) = Len(at) BY <1>5, ShorterIs
<1>10. Divergent(ta, tb) = {} BY <1>5, <1>8, <1>9 DEF Divergent
<1> QED BY <1>3, <1>4, <1>5, <1>10, NothingFound

\* The places of http turns ascend, so that no two are the same.
LEMMA PlacesApart ==
  ASSUME NEW h, NEW g, NEW i, NEW jt, EditedAt(h, g, i, jt), DOMAIN h.turns = DOMAIN g.turns, h.turns[i].kind = "http",
         NEW n, n = Len(h.turns), NEW at, at = HTTPPlaces(h, n), NEW m, m = HTTPCount(h, i)
  PROVE  /\ m \in Nat \ {0} /\ m \in DOMAIN at /\ at[m] = i /\ NthHTTPIndex(h, m) = i
         /\ \A k \in DOMAIN at : k # m => at[k] # i
<1>1. IsFile(h) /\ i \in DOMAIN h.turns BY DEF EditedAt
<1>2. m \in Nat \ {0} /\ m \in DOMAIN at /\ at[m] = i BY <1>1, HTTPNumber
<1>3. NthHTTPIndex(h, m) = at[m] BY <1>1, <1>2, HTTPIndexIs
<1>4. Ascends(at) /\ DOMAIN at = 1 .. Len(at) /\ Len(at) \in Nat /\ \A k \in DOMAIN at : at[k] \in DOMAIN h.turns
  BY <1>1, HTTPPlacesAre
<1>5. DOMAIN h.turns = 1 .. n /\ n \in Nat BY <1>1, SameLength
<1>6. ASSUME NEW k \in DOMAIN at, k # m PROVE at[k] # i
  <2>1. k \in Nat /\ m \in Nat /\ at[k] \in Nat /\ at[m] \in Nat BY <1>2, <1>4, <1>5
  <2>2. CASE k < m
    <3>1. at[k] < at[m] BY <1>2, <1>4, <2>2 DEF Ascends
    <3> QED BY <1>2, <2>1, <3>1
  <2>3. CASE m < k
    <3>1. at[m] < at[k] BY <1>2, <1>4, <2>3 DEF Ascends
    <3> QED BY <1>2, <2>1, <3>1
  <2> QED BY <1>6, <2>1, <2>2, <2>3
<1> QED BY <1>2, <1>3, <1>6

\* An http answer that tells another turn.
HTTPEdit(h, g, i, jt) ==
  EditedAt(h, g, i, jt) /\ DOMAIN h.turns = DOMAIN g.turns /\ h.turns[i].kind = "http" /\ Apart(h.turns[i], jt)

\* An http answer is found if it tells another turn, and nothing else is.
LEMMA AnswerFound ==
  ASSUME NEW h, NEW g, NEW i, NEW jt, HTTPEdit(h, g, i, jt), NEW m, m = HTTPCount(h, i),
         NEW it, it = h.turns[i], NEW d, d = RootDiff(m, it, jt)
  PROVE  FoundOne(h, g, m, d) /\ NthHTTPIndex(h, m) = i
<1>0. EditedAt(h, g, i, jt) /\ DOMAIN h.turns = DOMAIN g.turns /\ it.kind = "http" /\ Apart(it, jt) BY DEF HTTPEdit
<1>1. PICK n : n = Len(h.turns) OBVIOUS
<1>2. PICK at : at = HTTPPlaces(h, n) OBVIOUS
<1>3. PICK ta : ta = HTTPTurns(h) OBVIOUS
<1>4. PICK tb : tb = HTTPTurns(g) OBVIOUS
<1>5. /\ Len(at) \in Nat /\ DOMAIN at = 1 .. Len(at) /\ Len(ta) = Len(at) /\ Len(tb) = Len(at)
      /\ \A k \in DOMAIN at : ta[k] = h.turns[at[k]] /\ tb[k] = g.turns[at[k]]
  BY <1>0, <1>1, <1>2, <1>3, <1>4, PlacesAlike
<1>6. /\ m \in Nat \ {0} /\ m \in DOMAIN at /\ at[m] = i /\ NthHTTPIndex(h, m) = i
      /\ \A k \in DOMAIN at : k # m => at[k] # i
  BY <1>0, <1>1, <1>2, PlacesApart
<1>7. IsFile(h) BY <1>0 DEF EditedAt
<1>8. \A k \in DOMAIN at : at[k] \in DOMAIN h.turns BY <1>1, <1>2, <1>7, HTTPPlacesAre
<1>9. ta[m] = it /\ tb[m] = jt
  <2>1. g.turns[i] = jt BY <1>0 DEF EditedAt
  <2> QED BY <1>5, <1>6, <2>1
<1>10. ASSUME NEW k \in DOMAIN at, k # m PROVE ta[k] = tb[k]
  <2>1. at[k] # i /\ at[k] \in DOMAIN g.turns BY <1>0, <1>6, <1>8, <1>10
  <2>2. g.turns[at[k]] = h.turns[at[k]] BY <1>0, <2>1 DEF EditedAt
  <2> QED BY <1>5, <2>2
<1>11. Shorter(ta, tb) = Len(at) BY <1>5, ShorterIs
<1>12. PICK D : D = Divergent(ta, tb) OBVIOUS
<1>13. OnlyOne(D, m)
  <2>1. PICK L : L = Len(at) OBVIOUS
  <2>2. D = {k \in 1 .. L : Digest(TurnOf(ta[k])) # Digest(TurnOf(tb[k]))} BY <1>11, <1>12, <2>1 DEF Divergent
  <2>3. m \in 1 .. L /\ DOMAIN at = 1 .. L BY <1>5, <1>6, <2>1
  <2>4. Digest(TurnOf(ta[m])) # Digest(TurnOf(tb[m])) BY <1>0, <1>9 DEF Apart
  <2>5. m \in D BY <2>2, <2>3, <2>4
  <2>6. ASSUME NEW k \in D PROVE k = m
    <3>1. k \in DOMAIN at /\ Digest(TurnOf(ta[k])) # Digest(TurnOf(tb[k])) BY <2>2, <2>3
    <3> QED BY <1>10, <3>1
  <2> QED BY <2>5, <2>6 DEF OnlyOne
<1>14. m \in Nat BY <1>6
<1>15. d = RootDiff(m, ta[m], tb[m]) BY <1>9
<1>16. FoundOne(h, g, m, d)
  BY <1>3, <1>4, <1>12, <1>13, <1>14, <1>15, OneFound
<1> QED BY <1>6, <1>16

LEMMA AnswerNotFound ==
  ASSUME NEW h, NEW g, NEW i, NEW jt, EditedAt(h, g, i, jt), DOMAIN h.turns = DOMAIN g.turns,
         Digest(TurnOf(h.turns[i])) = Digest(TurnOf(jt))
  PROVE  ~Diverged(DiffRecordings(h, g)) /\ Bisect(h, g) = NoDivergence
<1>1. PICK n : n = Len(h.turns) OBVIOUS
<1>2. PICK at : at = HTTPPlaces(h, n) OBVIOUS
<1>3. PICK ta : ta = HTTPTurns(h) OBVIOUS
<1>4. PICK tb : tb = HTTPTurns(g) OBVIOUS
<1>5. /\ Len(at) \in Nat /\ DOMAIN at = 1 .. Len(at) /\ Len(ta) = Len(at) /\ Len(tb) = Len(at)
      /\ \A k \in DOMAIN at : ta[k] = h.turns[at[k]] /\ tb[k] = g.turns[at[k]]
  BY <1>1, <1>2, <1>3, <1>4, PlacesAlike
<1>6. IsFile(h) BY DEF EditedAt
<1>7. \A k \in DOMAIN at : at[k] \in DOMAIN h.turns BY <1>1, <1>2, <1>6, HTTPPlacesAre
<1>8. ASSUME NEW k \in DOMAIN at PROVE Digest(TurnOf(ta[k])) = Digest(TurnOf(tb[k]))
  <2>1. PICK j : j = at[k] OBVIOUS
  <2>2. j \in DOMAIN g.turns /\ ta[k] = h.turns[j] /\ tb[k] = g.turns[j] BY <1>5, <1>7, <2>1
  <2>3. g.turns[j] = IF j = i THEN jt ELSE h.turns[j] BY <2>2 DEF EditedAt
  <2> QED BY <2>2, <2>3
<1>9. Shorter(ta, tb) = Len(at) BY <1>5, ShorterIs
<1>10. Divergent(ta, tb) = {} BY <1>5, <1>8, <1>9 DEF Divergent
<1> QED BY <1>3, <1>4, <1>5, <1>10, NothingFound

(***************************************************************************)
(* The fields diff names                                                   *)
(***************************************************************************)

TurnFields(t) ==
  {x \in {"tool_calls", "finish_reason", "text"} :
     CASE x = "tool_calls" -> t.tools # {} [] x = "finish_reason" -> t.finish [] x = "text" -> t.text}

LEMMA ComparedAre ==
  ASSUME NEW a, IsDecoded(a), NEW b, IsDecoded(b), NEW fields, fields = Compare(Exact, a, b)
  PROVE  /\ fields \subseteq {"tool_calls", "finish_reason", "text"}
         /\ "tool_calls" \in fields <=> a.tools # b.tools
         /\ "finish_reason" \in fields <=> a.finish # b.finish
         /\ "text" \in fields <=> a.text # b.text
<1>1. Normalize(a) = a /\ Normalize(b) = b BY DecodedNormal
<1>2. Exact.ignoreText = FALSE /\ Exact.ignoreFinish = FALSE BY DEF Exact, Tolerance
<1>3. fields = {x \in {"tool_calls", "finish_reason", "text"} :
                  CASE x = "tool_calls"    -> a.tools # b.tools
                    [] x = "finish_reason" -> ~Exact.ignoreFinish /\ a.finish # b.finish
                    [] x = "text"          -> ~Exact.ignoreText /\ a.text # b.text}
  BY <1>1 DEF Compare
<1> QED BY <1>2, <1>3

LEMMA SameFields ==
  ASSUME NEW a, IsDecoded(a), NEW b, IsDecoded(b)
  PROVE  a = b <=> a.text = b.text /\ a.tools = b.tools /\ a.finish = b.finish
<1> DEFINE Formed(t) == t = [role |-> "assistant", text |-> t.text, tools |-> t.tools, finish |-> t.finish]
<1>1. ASSUME NEW t, IsDecoded(t) PROVE Formed(t)
  <2>1. PICK text \in Seq(Symbols), reason \in Symbols : \E tools : AsDecoded(tools) /\ t = Transcript(text, tools, reason)
    BY <1>1 DEF IsDecoded
  <2>2. PICK tools : AsDecoded(tools) /\ t = Transcript(text, tools, reason) BY <2>1
  <2>3. t = [role |-> "assistant", text |-> text, tools |-> tools, finish |-> reason] BY <2>2 DEF Transcript
  <2> QED BY <2>3
<1>2. Formed(a) /\ Formed(b) BY <1>1
<1> QED BY <1>2

LEMMA DiffNames ==
  ASSUME NEW a, IsDecoded(a), NEW b, IsDecoded(b), NEW fields, fields = Compare(Exact, a, b),
         NEW it, NEW jt, TurnOf(it) = a, TurnOf(jt) = b, NEW m, NEW d, d = RootDiff(m, it, jt)
  PROVE  TurnFields(d) = fields /\ d.turn = m /\ d.root
<1>1. AsDecoded(a.tools) /\ AsDecoded(b.tools)
  <2>1. ASSUME NEW t, IsDecoded(t) PROVE AsDecoded(t.tools)
    <3>1. PICK text \in Seq(Symbols), reason \in Symbols : \E tools : AsDecoded(tools) /\ t = Transcript(text, tools, reason)
      BY <2>1 DEF IsDecoded
    <3>2. PICK tools : AsDecoded(tools) /\ t = Transcript(text, tools, reason) BY <3>1
    <3>3. t.tools = tools BY <3>2, TranscriptIs
    <3> QED BY <3>2, <3>3
  <2> QED BY <2>1
<1>2. PICK T : T = DiffTools(a.tools, b.tools) OBVIOUS
<1>3. T # {} <=> a.tools # b.tools
  <2>1. PICK p : p = a.tools OBVIOUS
  <2>2. PICK q : q = b.tools OBVIOUS
  <2>3. AsDecoded(p) /\ AsDecoded(q) BY <1>1, <2>1, <2>2
  <2>4. DiffTools(p, q) = {} <=> p = q BY <2>3, DiffTells
  <2> QED BY <1>2, <2>1, <2>2, <2>4
<1>4. PICK X \in BOOLEAN : X = (a.text # b.text) OBVIOUS
<1>5. PICK F \in BOOLEAN : F = (a.finish # b.finish) OBVIOUS
<1>6. PICK A : A = AxisDiff(it.request, jt.request) OBVIOUS
<1>13. PICK root : root = TRUE OBVIOUS
<1>7. d = [turn |-> m, root |-> root, text |-> a.text # b.text, tools |-> T, finish |-> a.finish # b.finish, axes |-> A]
  BY <1>2, <1>6, <1>13 DEF TurnDiff, RootDiff
<1>8. d = [turn |-> m, root |-> root, text |-> X, tools |-> T, finish |-> F, axes |-> A] BY <1>4, <1>5, <1>7
<1>9. d.turn = m /\ d.root = root /\ d.text = X /\ d.tools = T /\ d.finish = F BY <1>8
<1>10. TurnFields(d) = {x \in {"tool_calls", "finish_reason", "text"} :
                          CASE x = "tool_calls" -> T # {} [] x = "finish_reason" -> F = TRUE [] x = "text" -> X = TRUE}
  BY <1>9 DEF TurnFields
<1>11. /\ fields \subseteq {"tool_calls", "finish_reason", "text"}
       /\ "tool_calls" \in fields <=> T # {}
       /\ "finish_reason" \in fields <=> F = TRUE
       /\ "text" \in fields <=> X = TRUE
  BY <1>3, <1>4, <1>5, ComparedAre
<1>12. TurnFields(d) = fields
  <2>1. PICK N : N = TurnFields(d) OBVIOUS
  <2>2. "tool_calls" \in N <=> T # {} BY <1>10, <2>1
  <2>3. "finish_reason" \in N <=> F = TRUE BY <1>10, <2>1
  <2>4. "text" \in N <=> X = TRUE BY <1>10, <2>1
  <2>5. N \subseteq {"tool_calls", "finish_reason", "text"} BY <1>10, <2>1
  <2>6. \A x \in {"tool_calls", "finish_reason", "text"} : x \in N <=> x \in fields BY <1>11, <2>2, <2>3, <2>4
  <2>7. N = fields
    <3>1. \A x : x \in N => x \in fields BY <2>5, <2>6
    <3>2. \A x : x \in fields => x \in N
      <4>1. fields \subseteq {"tool_calls", "finish_reason", "text"} BY <1>11
      <4> QED BY <2>6, <4>1
    <3> QED BY <3>1, <3>2
  <2> QED BY <2>1, <2>7
<1> QED BY <1>9, <1>12, <1>13

(***************************************************************************)
(* The attestation of the source                                           *)
(***************************************************************************)

\* A fold that reached an element keeps it at its place.
KeepsAt(s, p, t) == IsList(s) /\ p \in DOMAIN s /\ s[p] = t

LEMMA CollectedKeeps ==
  ASSUME NEW s, NEW p, NEW t, KeepsAt(s, p, t), NEW it
  PROVE  KeepsAt(Collected(s, it), p, t)
<1>1. CASE ~DecodeInteraction(it).renderable BY <1>1 DEF Collected
<1>2. CASE DecodeInteraction(it).renderable
  <2>1. PICK u : u = TurnOf(it) OBVIOUS
  <2>2. Collected(s, it) = Append(s, u) BY <1>2, <2>1 DEF Collected
  <2>3. PICK w : w = Append(s, u) OBVIOUS
  <2>4. s \in Seq(Range(s)) BY DEF KeepsAt, IsList
  <2>5. p \in 1 .. Len(s) /\ Len(s) \in Nat BY <2>4, LenProperties DEF KeepsAt
  <2>6. PICK S : S = Range(s) \cup {u} OBVIOUS
  <2>7. s \in Seq(S)
    <3>1. Range(s) \subseteq S BY <2>6
    <3> QED BY <2>4, <3>1, SeqMonotonic
  <2>8. w \in Seq(S) /\ Len(w) = Len(s) + 1 /\ \A k \in 1 .. Len(s) : w[k] = s[k] BY <2>3, <2>6, <2>7, AppendProperties
  <2>9. IsList(w) BY <2>8, ListIn
  <2>10. DOMAIN w = 1 .. Len(w) BY <2>8, LenProperties
  <2> QED BY <2>2, <2>3, <2>5, <2>8, <2>9, <2>10 DEF KeepsAt
<1> QED BY <1>1, <1>2

LEMMA CollectedLast ==
  ASSUME NEW s, IsList(s), NEW it, DecodeInteraction(it).renderable
  PROVE  KeepsAt(Collected(s, it), Len(s) + 1, TurnOf(it))
<1>1. PICK u : u = TurnOf(it) OBVIOUS
<1>2. PICK w : w = Append(s, u) OBVIOUS
<1>3. Collected(s, it) = w BY <1>1, <1>2 DEF Collected
<1>4. s \in Seq(Range(s)) BY DEF IsList
<1>5. PICK S : S = Range(s) \cup {u} OBVIOUS
<1>6. s \in Seq(S)
  <2>1. Range(s) \subseteq S BY <1>5
  <2> QED BY <1>4, <2>1, SeqMonotonic
<1>7. Len(s) \in Nat BY <1>4, LenProperties
<1>8. w \in Seq(S) /\ Len(w) = Len(s) + 1 /\ w[Len(s) + 1] = u BY <1>2, <1>5, <1>6, AppendProperties
<1>9. IsList(w) BY <1>8, ListIn
<1>10. DOMAIN w = 1 .. Len(w) BY <1>8, LenProperties
<1> QED BY <1>1, <1>3, <1>7, <1>8, <1>9, <1>10 DEF KeepsAt

\* The fold over the turns of a file, step by step.
CollectFold(f, a, n) ==
  /\ a = [k \in 0 .. n |-> IF k = 0 THEN <<>> ELSE Collected(a[k - 1], f.turns[k])]
  /\ CollectTurns(f) = a[n]

LEMMA CollectFolds ==
  ASSUME NEW f, IsFile(f), NEW n, n = Len(f.turns)
  PROVE  \E a : CollectFold(f, a, n)
<1>1. PICK ss : ss = f.turns OBVIOUS
<1>2. Len(ss) \in Nat /\ n = Len(ss) BY <1>1, SameLength
<1>3. \E a : /\ a = [k \in 0 .. Len(ss) |-> IF k = 0 THEN <<>> ELSE Collected(a[k - 1], ss[k])]
             /\ CollectTurns(f) = a[Len(ss)]
  BY <1>1, <1>2, CollectDef
<1>4. PICK a : /\ a = [k \in 0 .. n |-> IF k = 0 THEN <<>> ELSE Collected(a[k - 1], ss[k])]
               /\ CollectTurns(f) = a[n]
  BY <1>2, <1>3
<1>5. CollectFold(f, a, n) BY <1>1, <1>4 DEF CollectFold
<1> QED BY <1>5

LEMMA CollectSteps ==
  ASSUME NEW f, NEW n \in Nat, NEW a, CollectFold(f, a, n)
  PROVE  /\ a[0] = <<>> /\ \A k \in 1 .. n : a[k] = Collected(a[k - 1], f.turns[k])
         /\ CollectTurns(f) = a[n] /\ \A k \in 0 .. n : IsList(a[k])
<1>1. a[0] = <<>> /\ CollectTurns(f) = a[n] BY DEF CollectFold
<1>2. ASSUME NEW k \in 1 .. n PROVE a[k] = Collected(a[k - 1], f.turns[k])
  <2>1. k \in 0 .. n /\ k # 0 OBVIOUS
  <2> QED BY <2>1 DEF CollectFold
<1> DEFINE P == {k \in 0 .. n : IsList(a[k])}
<1>3. 0 \in P
  <2>1. IsList(<<>>) BY EmptyList DEF IsList
  <2> QED BY <1>1, <2>1
<1>4. ASSUME NEW k \in 0 .. (n - 1), k \in P PROVE k + 1 \in P
  <2>1. k + 1 \in 1 .. n /\ (k + 1) - 1 = k /\ k + 1 \in 0 .. n OBVIOUS
  <2>2. PICK it : it = f.turns[k + 1] OBVIOUS
  <2>3. PICK s : s = a[k] OBVIOUS
  <2>4. IsList(s) BY <1>4, <2>3
  <2>5. a[k + 1] = Collected(s, it) BY <1>2, <2>1, <2>2, <2>3
  <2>6. CASE ~DecodeInteraction(it).renderable
    <3>1. Collected(s, it) = s BY <2>6 DEF Collected
    <3> QED BY <2>1, <2>4, <2>5, <3>1
  <2>7. CASE DecodeInteraction(it).renderable
    <3>1. IsList(Collected(s, it)) BY <2>4, <2>7, CollectedLast DEF KeepsAt
    <3> QED BY <2>1, <2>5, <3>1
  <2> QED BY <2>6, <2>7
<1> HIDE DEF P
<1>5. \A k \in 0 .. n : k \in P BY <1>3, <1>4, SetInduction
<1>6. \A k \in 0 .. n : IsList(a[k]) BY <1>5 DEF P
<1> QED BY <1>1, <1>2, <1>6

\* Where the turn of an interaction is found.
LEMMA CollectedPlace ==
  ASSUME NEW f, NEW n \in Nat, NEW a, CollectFold(f, a, n), NEW i \in 1 .. n, DecodeInteraction(f.turns[i]).renderable
  PROVE  KeepsAt(CollectTurns(f), Len(a[i - 1]) + 1, TurnOf(f.turns[i]))
<1>1. PICK t : t = TurnOf(f.turns[i]) OBVIOUS
<1>2. PICK p : p = Len(a[i - 1]) + 1 OBVIOUS
<1>3. /\ a[0] = <<>> /\ \A k \in 1 .. n : a[k] = Collected(a[k - 1], f.turns[k])
      /\ CollectTurns(f) = a[n] /\ \A k \in 0 .. n : IsList(a[k])
  BY CollectSteps
<1> DEFINE P == {k \in 0 .. n : k >= i => KeepsAt(a[k], p, t)}
<1>4. 0 \in P OBVIOUS
<1>5. ASSUME NEW k \in 0 .. (n - 1), k \in P PROVE k + 1 \in P
  <2>1. k + 1 \in 1 .. n /\ (k + 1) - 1 = k /\ k + 1 \in 0 .. n /\ k \in 0 .. n OBVIOUS
  <2>2. PICK it : it = f.turns[k + 1] OBVIOUS
  <2>3. PICK s : s = a[k] OBVIOUS
  <2>4. a[k + 1] = Collected(s, it) BY <1>3, <2>1, <2>2, <2>3
  <2>5. CASE k + 1 = i
    <3>1. IsList(s) /\ p = Len(s) + 1 BY <1>2, <1>3, <2>1, <2>3, <2>5
    <3>2. DecodeInteraction(it).renderable /\ TurnOf(it) = t BY <1>1, <2>2, <2>5
    <3>3. KeepsAt(Collected(s, it), p, t) BY <3>1, <3>2, CollectedLast
    <3> QED BY <2>1, <2>4, <3>3
  <2>6. CASE k >= i
    <3>1. KeepsAt(s, p, t) BY <1>5, <2>3, <2>6
    <3>2. KeepsAt(Collected(s, it), p, t) BY <3>1, CollectedKeeps
    <3> QED BY <2>1, <2>4, <3>2
  <2>7. CASE k + 1 < i BY <2>1, <2>7
  <2> QED BY <2>5, <2>6, <2>7
<1> HIDE DEF P
<1>6. \A k \in 0 .. n : k \in P BY <1>4, <1>5, SetInduction
<1>7. KeepsAt(a[n], p, t) BY <1>6 DEF P
<1> QED BY <1>1, <1>2, <1>3, <1>7

\* What is collected before the answer that was replaced is the same.
LEMMA PrefixSame ==
  ASSUME NEW h, NEW g, NEW i, NEW jt, EditedAt(h, g, i, jt), DOMAIN h.turns = DOMAIN g.turns,
         NEW n \in Nat, DOMAIN g.turns = 1 .. n, NEW c, CollectFold(h, c, n), NEW b, CollectFold(g, b, n)
  PROVE  c[i - 1] = b[i - 1]
<1>1. IsFile(h) /\ IsFile(g) /\ i \in DOMAIN g.turns BY DEF EditedAt
<1>2. DOMAIN h.turns = 1 .. n /\ i \in 1 .. n BY <1>1
<1>3. /\ c[0] = <<>> /\ \A k \in 1 .. n : c[k] = Collected(c[k - 1], h.turns[k])
      /\ CollectTurns(h) = c[n] /\ \A k \in 0 .. n : IsList(c[k])
  BY CollectSteps
<1>4. /\ b[0] = <<>> /\ \A k \in 1 .. n : b[k] = Collected(b[k - 1], g.turns[k])
      /\ CollectTurns(g) = b[n] /\ \A k \in 0 .. n : IsList(b[k])
  BY CollectSteps
<1> DEFINE P == {k \in 0 .. (i - 1) : c[k] = b[k]}
<1>5. 0 \in P BY <1>2, <1>3, <1>4
<1>6. ASSUME NEW k \in 0 .. ((i - 1) - 1), k \in P PROVE k + 1 \in P
  <2>1. k + 1 \in 1 .. n /\ (k + 1) - 1 = k /\ k + 1 \in 0 .. (i - 1) /\ k + 1 # i BY <1>2
  <2>2. g.turns[k + 1] = h.turns[k + 1]
    <3>1. k + 1 \in DOMAIN g.turns BY <1>2, <2>1
    <3> QED BY <2>1, <3>1 DEF EditedAt
  <2>3. c[k] = b[k] BY <1>6
  <2>4. c[k + 1] = Collected(c[k], h.turns[k + 1]) BY <1>3, <2>1
  <2>5. b[k + 1] = Collected(b[k], g.turns[k + 1]) BY <1>4, <2>1
  <2> QED BY <2>1, <2>2, <2>3, <2>4, <2>5
<1> HIDE DEF P
<1>7. PICK l \in Nat : l = i - 1
  <2>1. i - 1 \in Nat BY <1>2
  <2> QED BY <2>1
<1>8. \A k \in 0 .. (l - 1) : k \in P => k + 1 \in P BY <1>6, <1>7
<1>9. \A k \in 0 .. l : k \in P BY <1>5, <1>8, SetInduction
<1>10. l \in P BY <1>9
<1> QED BY <1>7, <1>10 DEF P

\* Another turn is another behavior.
LEMMA DigestsApart ==
  ASSUME NEW h, NEW g, NEW i, NEW jt, EditedAt(h, g, i, jt), DOMAIN h.turns = DOMAIN g.turns,
         DecodeInteraction(h.turns[i]).renderable, DecodeInteraction(jt).renderable,
         Normalize(TurnOf(h.turns[i])) # Normalize(TurnOf(jt))
  PROVE  CombinedDigest(CollectTurns(h)) # CombinedDigest(CollectTurns(g))
<1>1. IsFile(h) /\ IsFile(g) /\ i \in DOMAIN g.turns /\ g.turns[i] = jt BY DEF EditedAt
<1>2. PICK n : n = Len(h.turns) OBVIOUS
<1>3. n \in Nat /\ n = Len(g.turns) /\ i \in 1 .. n /\ DOMAIN g.turns = 1 .. n BY <1>1, <1>2, SameLength
<1>4. PICK a : CollectFold(h, a, n) BY <1>1, <1>2, CollectFolds
<1>5. PICK b : CollectFold(g, b, n) BY <1>1, <1>3, CollectFolds
<1>6. a[i - 1] = b[i - 1] BY <1>2, <1>3, <1>4, <1>5, PrefixSame
<1>7. PICK p : p = Len(a[i - 1]) + 1 OBVIOUS
<1>8. PICK s : s = CollectTurns(h) OBVIOUS
<1>9. PICK t : t = CollectTurns(g) OBVIOUS
<1>10. KeepsAt(s, p, TurnOf(h.turns[i])) BY <1>3, <1>4, <1>7, <1>8, CollectedPlace
<1>11. KeepsAt(t, p, TurnOf(jt))
  <2>1. DecodeInteraction(g.turns[i]).renderable BY <1>1
  <2>2. KeepsAt(CollectTurns(g), Len(b[i - 1]) + 1, TurnOf(g.turns[i])) BY <1>3, <1>5, <2>1, CollectedPlace
  <2> QED BY <1>1, <1>6, <1>7, <1>9, <2>2
<1>12. CombinedDigest(s)[p] = Normalize(TurnOf(h.turns[i])) BY <1>10 DEF KeepsAt, CombinedDigest
<1>13. CombinedDigest(t)[p] = Normalize(TurnOf(jt)) BY <1>11 DEF KeepsAt, CombinedDigest
<1> QED BY <1>8, <1>9, <1>12, <1>13

\* So that the attestation of the one is refused for the other.
LEMMA Refused ==
  ASSUME NEW h, NEW g, CombinedDigest(CollectTurns(h)) # CombinedDigest(CollectTurns(g))
  PROVE  ~VerifiesAttest(g, h)
<1>1. ASSUME NEW f PROVE BuildAttestManifest(f).digests = CombinedDigest(CollectTurns(f))
  <2>1. PICK digests : digests = CombinedDigest(CollectTurns(f)) OBVIOUS
  <2>2. \E shapes, tools, expect, provenance :
          BuildAttestManifest(f) = [digests |-> digests, shapes |-> shapes, tools |-> tools, expect |-> expect,
                                    provenance |-> provenance]
    BY <2>1, Zenon DEF BuildAttestManifest
  <2>3. PICK shapes, tools, expect, provenance :
          BuildAttestManifest(f) = [digests |-> digests, shapes |-> shapes, tools |-> tools, expect |-> expect,
                                    provenance |-> provenance]
    BY <2>2
  <2> QED BY <2>1, <2>3
<1> QED BY <1>1 DEF VerifiesAttest

(***************************************************************************)
(* What is found of an edit                                                *)
(***************************************************************************)

\* The parts of the property.
FoundOf(h, g, i, fields) ==
  /\ \E t \in DiffRecordings(h, g).turns : /\ DiffRecordings(h, g).turns = {t} /\ t.root /\ NthHTTPIndex(h, t.turn) = i
                                           /\ Bisect(h, g).turn = t.turn /\ TurnFields(t) = fields
  /\ ~VerifiesAttest(g, h)

LostOf(h, g) == ~Diverged(DiffRecordings(h, g)) /\ Bisect(h, g) = NoDivergence

LEMMA FoundAsEdited ==
  ASSUME NEW h, NEW g, NEW i, NEW jt, EditedAt(h, g, i, jt), DOMAIN h.turns = DOMAIN g.turns,
         h.turns[i].kind = "http" =>
           /\ DecodeInteraction(h.turns[i]).renderable /\ DecodeInteraction(jt).renderable
           /\ IsDecoded(TurnOf(h.turns[i])) /\ IsDecoded(TurnOf(jt)),
         NEW fields, fields = Compare(Exact, TurnOf(h.turns[i]), TurnOf(jt))
  PROVE  IF h.turns[i].kind = "http" /\ fields # {} THEN FoundOf(h, g, i, fields) ELSE LostOf(h, g)
<1>1. CASE h.turns[i].kind # "http"
  BY <1>1, MCPNotFound DEF LostOf
<1>2. CASE h.turns[i].kind = "http"
  <2>1. PICK a : a = TurnOf(h.turns[i]) OBVIOUS
  <2>2. PICK b : b = TurnOf(jt) OBVIOUS
  <2>3. IsDecoded(a) /\ IsDecoded(b) BY <1>2, <2>1, <2>2
  <2>4. Normalize(a) = a /\ Normalize(b) = b BY <2>3, DecodedNormal
  <2>5. fields = Compare(Exact, a, b) BY <2>1, <2>2
  <2>6. fields = {} <=> a = b BY <2>3, <2>5, ComparedAre, SameFields
  <2>7. CASE a = b
    <3>1. Digest(TurnOf(h.turns[i])) = Digest(TurnOf(jt)) BY <2>1, <2>2, <2>7
    <3>2. LostOf(h, g) BY <3>1, AnswerNotFound DEF LostOf
    <3> QED BY <2>6, <2>7, <3>2
  <2>8. CASE a # b
    <3>1. Normalize(TurnOf(h.turns[i])) # Normalize(TurnOf(jt)) BY <2>1, <2>2, <2>4, <2>8
    <3>2. Apart(h.turns[i], jt) BY <3>1 DEF Digest, Apart
    <3>3. PICK m : m = HTTPCount(h, i) OBVIOUS
    <3>4. PICK it : it = h.turns[i] OBVIOUS
    <3>5. PICK d : d = RootDiff(m, it, jt) OBVIOUS
    <3>12. HTTPEdit(h, g, i, jt) BY <1>2, <3>2 DEF HTTPEdit
    <3>6. FoundOne(h, g, m, d) /\ NthHTTPIndex(h, m) = i BY <3>3, <3>4, <3>5, <3>12, AnswerFound
    <3>7. TurnFields(d) = fields /\ d.turn = m /\ d.root
      <4>1. TurnOf(it) = a /\ TurnOf(jt) = b BY <2>1, <2>2, <3>4
      <4> QED BY <2>3, <2>5, <3>5, <4>1, DiffNames
    <3>8. ~VerifiesAttest(g, h) BY <1>2, <3>1, DigestsApart, Refused
    <3>9. DiffRecordings(h, g).turns = {d} /\ Bisect(h, g).turn = d.turn /\ NthHTTPIndex(h, d.turn) = i
      BY <3>6, <3>7 DEF FoundOne
    <3>10. d \in DiffRecordings(h, g).turns /\ d.root BY <3>7, <3>9
    <3>11. FoundOf(h, g, i, fields) BY <3>7, <3>8, <3>9, <3>10 DEF FoundOf
    <3> QED BY <1>2, <2>6, <2>8, <3>11
  <2> QED BY <2>7, <2>8
<1> QED BY <1>1, <1>2

\* The answer that is written for an edited turn.
LEMMA EditionIs ==
  ASSUME NEW f, NEW i, NEW it, it = f.turns[i], IsAnswer(Symbols, it), it.kind = "http", DecodeInteraction(it).renderable,
         NEW edits \in Seq(EditsOf(Words)), ~GraftEditsFail(TurnOf(it), edits),
         NEW t, t = ApplyGraftEdits(TurnOf(it), edits, {}), NEW jt, jt = Edition(f, i, t)
  PROVE  /\ IsDecoded(TurnOf(it)) /\ IsDecoded(TurnOf(jt)) /\ DecodeInteraction(jt).renderable
         /\ Writable(it.dialect, t) => Equal(TurnOf(jt), t)
<1>1. it.dialect \in Dialects /\ IsDecoded(TurnOf(it)) BY TurnStreamed DEF Streamed
<1>2. PICK a : a = TurnOf(it) OBVIOUS
<1>3. InCanon(a) BY <1>1, <1>2, DecodedPlain
<1>4. InCanon(t) BY <1>2, <1>3, GraftPlain
<1>5. PICK p \in Dialects : p = it.dialect BY <1>1
<1>6. PICK body : body = Encode(p, t) OBVIOUS
<1>7. body \in Streams BY <1>4, <1>6, EncodeTyped DEF InCanon
<1>8. jt = Answered(it, TRUE, body) BY <1>5, <1>6 DEF Edition
<1>9. jt.kind = "http" /\ jt.streaming = TRUE /\ jt.body = body /\ jt.dialect = p BY <1>5, <1>8 DEF Answered
<1>10. TurnOf(jt) = Decode(p, body) /\ DecodeInteraction(jt).renderable BY <1>7, <1>9, StreamedIs
<1>11. IsDecoded(TurnOf(jt)) BY <1>7, <1>10, DecodedIs
<1>12. ASSUME Writable(it.dialect, t) PROVE Equal(TurnOf(jt), t)
  <2>1. Writable(p, t) BY <1>5, <1>12
  <2>2. Equal(Decode(p, Encode(p, t)), t) BY <1>4, <2>1, WantedBack
  <2> QED BY <1>6, <1>10, <2>2
<1> QED BY <1>1, <1>10, <1>11, <1>12

LEMMA TurnTurnlike ==
  ASSUME NEW it, IsTurn(it), IsAnswer(Symbols, it), DecodeInteraction(it).renderable
  PROVE  Turnlike(TurnOf(it))
<1>1. CASE it.kind = "http"
  <2>1. Told(TurnOf(it)) BY <1>1, TurnStreamed DEF Streamed
  <2> QED BY <2>1, ToldTurnlike
<1>2. CASE it.kind = "mcp"
  <2>0. \E text, c, reason : TurnOf(it) = [role |-> "tool", text |-> text, tools |-> <<c>>, finish |-> reason]
    BY <1>2, MCPTurnIs
  <2>1. PICK text, c, reason : TurnOf(it) = [role |-> "tool", text |-> text, tools |-> <<c>>, finish |-> reason] BY <2>0
  <2>2. PICK tools : tools = <<c>> OBVIOUS
  <2>3. PICK role : role = "tool" OBVIOUS
  <2>4. tools \in Seq({c}) BY <2>2
  <2>5. IsList(tools) BY <2>4, ListIn
  <2>6. TurnOf(it) = [role |-> role, text |-> text, tools |-> tools, finish |-> reason] BY <2>1, <2>2, <2>3
  <2> QED BY <2>5, <2>6, TurnlikeIs
<1> QED BY <1>1, <1>2 DEF IsTurn

\* What-if shows the behavior of the graft with the same edit.
LEMMA Foretold ==
  ASSUME NEW f, NEW g, NEW i, NEW it, it = f.turns[i], IsTurn(it), IsAnswer(Symbols, it), DecodeInteraction(it).renderable,
         NEW edits \in Seq(EditsOf(Words)), Len(edits) = 1,
         NEW t, t = ApplyGraftEdits(TurnOf(it), edits, {}), EditedAt(f, g, i, Edition(f, i, t)), DOMAIN g.turns = DOMAIN f.turns
  PROVE  BehaviorDigest(g) = WhatIf(f, i, edits[1])
<1>1. PICK e : e = edits[1] OBVIOUS
<1>2. PICK a : a = TurnOf(it) OBVIOUS
<1>3. t = Edited(a, e)
  <2>1. Turnlike(a) BY <1>2, TurnTurnlike
  <2> QED BY <1>1, <1>2, <2>1, OneGraft
<1>4. PICK body : body = Encode(it.dialect, t) OBVIOUS
<1>5. PICK w : w = WithResponse(f, i, body) OBVIOUS
<1>6. WhatIf(f, i, e) = BehaviorDigest(w) BY <1>2, <1>3, <1>4, <1>5 DEF WhatIf
<1>7. IsFile(f) /\ IsFile(g) /\ i \in DOMAIN f.turns BY DEF EditedAt
<1>8. IsFile(w)
  <2>1. Derived("fuzz", f, WithResponse(f, i, body)) BY <1>7, ResponseDerived DEF Stamps
  <2> QED BY <1>5, <2>1 DEF Derived
<1>9. PICK jt : jt = Answered(it, TRUE, body) OBVIOUS
<1>10. w.turns = [f.turns EXCEPT ![i] = jt] BY <1>5, <1>9 DEF WithResponse, Remade
<1>11. Edition(f, i, t) = jt BY <1>4, <1>9 DEF Edition
<1>12. \A k \in DOMAIN g.turns : g.turns[k] = IF k = i THEN jt ELSE f.turns[k] BY <1>11 DEF EditedAt
<1>13. DOMAIN w.turns = DOMAIN g.turns /\ \A k \in DOMAIN g.turns : w.turns[k] = g.turns[k] BY <1>7, <1>10, <1>12
<1>14. CollectTurns(w) = CollectTurns(g)
  <2>1. \A k \in DOMAIN g.turns : /\ DecodeInteraction(w.turns[k]).renderable = DecodeInteraction(g.turns[k]).renderable
                                  /\ TurnOf(w.turns[k]) = TurnOf(g.turns[k])
    BY <1>13
  <2> QED BY <1>7, <1>8, <1>13, <2>1, CollectedSame
<1>15. BehaviorDigest(g) = BehaviorDigest(w) BY <1>14 DEF BehaviorDigest
<1> QED BY <1>1, <1>6, <1>15

\* What is asked of one file.
AskedAs(f, g, op, i, edits) ==
  /\ f.turns[i].kind = "http" /\ Writable(f.turns[i].dialect, ApplyGraftEdits(TurnOf(f.turns[i]), edits, {})) =>
       Equal(TurnOf(g.turns[i]), ApplyGraftEdits(TurnOf(f.turns[i]), edits, {}))
  /\ op = "graft" /\ Len(edits) = 1 => BehaviorDigest(g) = WhatIf(f, i, edits[1])
  /\ IF Cutting(f, g).turns[i].kind = "http" /\ Compare(Exact, TurnOf(f.turns[i]), TurnOf(g.turns[i])) # {}
     THEN FoundOf(Cutting(f, g), g, i, Compare(Exact, TurnOf(f.turns[i]), TurnOf(g.turns[i])))
     ELSE LostOf(Cutting(f, g), g)

LEMMA EditAsked ==
  ASSUME NEW f, AnswersHold(f), NEW g, NEW i, NEW it, it = f.turns[i], DecodeInteraction(it).renderable,
         NEW edits \in Seq(EditsOf(Words)), ~GraftEditsFail(TurnOf(it), edits),
         NEW t, t = ApplyGraftEdits(TurnOf(it), edits, {}), EditedAt(f, g, i, Edition(f, i, t)),
         NEW op, op = "graft" => DOMAIN g.turns = DOMAIN f.turns
  PROVE  AskedAs(f, g, op, i, edits)
<1>1. PICK jt : jt = Edition(f, i, t) OBVIOUS
<1>2. EditedAt(f, g, i, jt) BY <1>1
<1>3. g.turns[i] = jt /\ IsFile(f) /\ i \in DOMAIN f.turns BY <1>2 DEF EditedAt
<1>4. IsTurn(it) /\ IsAnswer(Symbols, it) BY <1>3 DEF IsFile, AnswersHold
<1>5. ASSUME it.kind = "http"
      PROVE  /\ IsDecoded(TurnOf(it)) /\ IsDecoded(TurnOf(jt)) /\ DecodeInteraction(jt).renderable
             /\ Writable(it.dialect, t) => Equal(TurnOf(jt), t)
  BY <1>1, <1>4, <1>5, EditionIs
<1>6. ASSUME op = "graft", Len(edits) = 1 PROVE BehaviorDigest(g) = WhatIf(f, i, edits[1])
  BY <1>4, <1>6, Foretold
<1>7. PICK h : h = Cutting(f, g) OBVIOUS
<1>8. EditedAt(h, g, i, jt) /\ DOMAIN h.turns = DOMAIN g.turns /\ h.turns[i] = it
  <2>1. EditedAt(h, g, i, jt) /\ DOMAIN h.turns = DOMAIN g.turns /\ \A k \in DOMAIN h.turns : h.turns[k] = f.turns[k]
    BY <1>2, <1>7, CutIs
  <2>2. i \in DOMAIN h.turns BY <1>2, <2>1 DEF EditedAt
  <2> QED BY <2>1, <2>2
<1>9. PICK fields : fields = Compare(Exact, TurnOf(it), TurnOf(jt)) OBVIOUS
<1>10. IF h.turns[i].kind = "http" /\ fields # {} THEN FoundOf(h, g, i, fields) ELSE LostOf(h, g)
  <2>1. fields = Compare(Exact, TurnOf(h.turns[i]), TurnOf(jt)) BY <1>8, <1>9
  <2>2. h.turns[i].kind = "http" =>
           /\ DecodeInteraction(h.turns[i]).renderable /\ DecodeInteraction(jt).renderable
           /\ IsDecoded(TurnOf(h.turns[i])) /\ IsDecoded(TurnOf(jt))
    BY <1>5, <1>8
  <2> QED BY <1>8, <2>1, <2>2, FoundAsEdited
<1> QED BY <1>3, <1>5, <1>6, <1>7, <1>9, <1>10 DEF AskedAs

(***************************************************************************)
(* Every edit of a run                                                     *)
(***************************************************************************)

Asked ==
  last.op \in {"graft", "branch"} /\ last.edits # <<>> =>
    \A q \in Written : AskedAs(last.from[q], disk[q], last.op, last.at, last.edits)

LEMMA AskedIs == Asked => EditedAsAsked
<1> SUFFICES ASSUME Asked, last.op \in {"graft", "branch"}, last.edits # <<>>, NEW q \in Written
             PROVE  \A f \in {last.from[q]}, g \in {disk[q]} :
                      /\ (/\ f.turns[last.at].kind = "http"
                             /\ Writable(f.turns[last.at].dialect, ApplyGraftEdits(TurnOf(f.turns[last.at]), last.edits, {})) =>
                               Equal(TurnOf(g.turns[last.at]), ApplyGraftEdits(TurnOf(f.turns[last.at]), last.edits, {}))
                          /\ last.op = "graft" /\ Len(last.edits) = 1 => BehaviorDigest(g) = WhatIf(f, last.at, last.edits[1]))
                      /\ \A h \in {Cutting(f, g)} :
                           IF h.turns[last.at].kind = "http"
                              /\ Compare(Exact, TurnOf(f.turns[last.at]), TurnOf(g.turns[last.at])) # {}
                           THEN FoundOf(h, g, last.at, Compare(Exact, TurnOf(f.turns[last.at]), TurnOf(g.turns[last.at])))
                           ELSE LostOf(h, g)
  BY Zenon DEF EditedAsAsked, FoundOf, LostOf, TurnFields, Cutting
<1>1. AskedAs(last.from[q], disk[q], last.op, last.at, last.edits) BY DEF Asked
<1> QED BY <1>1 DEF AskedAs

\* What is asked of the one file a command saves.
LEMMA OneAsked ==
  ASSUME NEW op, NEW i, NEW edits, NEW to, NEW p, NEW out, NEW g, SaveOne(EditOf(op, i, edits, to), p, out, g),
         edits # <<>> => AskedAs(disk[p], g, op, i, edits)
  PROVE  Asked'
<1>1. PICK written : written = [q \in {out} |-> g] OBVIOUS
<1>2. PICK from : from = [q \in {out} |-> p] OBVIOUS
<1>3. SaveAll(EditOf(op, i, edits, to), written, from) BY <1>1, <1>2 DEF SaveOne
<1>4. DOMAIN written = {out} /\ written[out] = g /\ from[out] = p BY <1>1, <1>2
<1>5. PICK read : read = [q \in DOMAIN written |-> disk[from[q]]] OBVIOUS
<1>6. last' = [EditOf(op, i, edits, to) EXCEPT !.from = read] BY <1>3, <1>5 DEF SaveAll
<1>7. last' = [op |-> op, from |-> read, at |-> i, edits |-> edits, to |-> to] BY <1>6 DEF EditOf
<1>8. last'.at = i /\ last'.edits = edits BY <1>7
<1>9. /\ last'.op = op /\ last'.from = [q \in DOMAIN written |-> disk[from[q]]]
      /\ Written' = DOMAIN written /\ \A q \in DOMAIN written : disk'[q] = written[q]
  BY <1>3, SavedAll
<1>10. out \in DOMAIN written BY <1>4
<1>11. last'.from[out] = disk[p] /\ disk'[out] = g BY <1>4, <1>9, <1>10
<1>12. last'.edits # <<>> => AskedAs(last'.from[out], disk'[out], last'.op, last'.at, last'.edits) BY <1>8, <1>9, <1>11
<1>13. (last.edits # <<>> => AskedAs(last.from[out], disk[out], last.op, last.at, last.edits))' BY <1>12
<1>14. \A q \in Written' : q = out BY <1>4, <1>9
<1> QED BY <1>13, <1>14 DEF Asked

LEMMA OthersAsked == ASSUME last'.op \notin {"graft", "branch"} PROVE Asked'
BY DEF Asked

LEMMA GraftAsks ==
  ASSUME DeriveInv, AnswersInv, NEW p \in DOMAIN disk, NEW out, NEW i \in Turns(p), NEW edits \in EditLists,
         Graft(p, out, i, edits, {}, Len(disk[p].turns))
  PROVE  Asked'
<1>1. PICK f : f = disk[p] OBVIOUS
<1>2. IsFile(f) /\ AnswersHold(f) /\ i \in DOMAIN f.turns BY <1>1 DEF DeriveInv, FilesInv, AnswersInv, Turns
<1>3. PICK it : it = f.turns[i] OBVIOUS
<1>4. PICK t : t = ApplyGraftEdits(TurnOf(it), edits, {}) OBVIOUS
<1>5. edits \in Seq(EditsOf(Words)) BY DeriveAssumption
<1>6. DecodeInteraction(it).renderable /\ ~GraftEditsFail(TurnOf(it), edits) BY <1>1, <1>3 DEF Graft
<1>7. PICK n : n = Len(f.turns) OBVIOUS
<1>8. PICK g : g = Grafted(f, i, t, n) OBVIOUS
<1>9. EditedAt(f, g, i, Edition(f, i, t)) /\ DOMAIN g.turns = DOMAIN f.turns BY <1>2, <1>7, <1>8, GraftedAt
<1>10. PICK op : op = "graft" OBVIOUS
<1>11. op = "graft" => DOMAIN g.turns = DOMAIN f.turns BY <1>9
<1>12. AskedAs(f, g, op, i, edits) BY <1>2, <1>3, <1>4, <1>5, <1>6, <1>9, <1>11, EditAsked
<1>13. SaveOne(EditOf(op, i, edits, ""), p, out, g)
  BY <1>1, <1>3, <1>4, <1>7, <1>8, <1>10 DEF Graft
<1>14. PICK to : to = "" OBVIOUS
<1>15. SaveOne(EditOf(op, i, edits, to), p, out, g) BY <1>13, <1>14
<1>16. edits # <<>> => AskedAs(disk[p], g, op, i, edits) BY <1>1, <1>12
<1> QED BY <1>15, <1>16, OneAsked

LEMMA BranchAsks ==
  ASSUME DeriveInv, AnswersInv, NEW p \in DOMAIN disk, NEW out, NEW i \in Turns(p), NEW edits \in EditLists \cup {<<>>},
         Branch(p, out, i, edits)
  PROVE  Asked'
<1>1. PICK f : f = disk[p] OBVIOUS
<1>2. IsFile(f) /\ AnswersHold(f) /\ i \in DOMAIN f.turns BY <1>1 DEF DeriveInv, FilesInv, AnswersInv, Turns
<1>3. PICK it : it = f.turns[i] OBVIOUS
<1>4. PICK t : t = ApplyGraftEdits(TurnOf(it), edits, {}) OBVIOUS
<1>5. CASE edits = <<>>
  <2>1. PICK op : op = "branch" OBVIOUS
  <2>2. PICK to : to = "" OBVIOUS
  <2>3. PICK g : SaveOne(EditOf(op, i, edits, to), p, out, g) BY <2>1, <2>2 DEF Branch
  <2>4. edits # <<>> => AskedAs(disk[p], g, op, i, edits) BY <1>5
  <2> QED BY <2>3, <2>4, OneAsked
<1>6. CASE edits # <<>>
  <2>1. edits \in Seq(EditsOf(Words)) BY <1>6, DeriveAssumption
  <2>2. DecodeInteraction(it).renderable /\ ~GraftEditsFail(TurnOf(it), edits) BY <1>1, <1>3, <1>6 DEF Branch
  <2>3. PICK g : g = BranchSeed(Spliced(f, i, t), i) OBVIOUS
  <2>4. EditedAt(f, g, i, Edition(f, i, t)) BY <1>2, <2>3, BranchedAt
  <2>5. PICK op : op = "branch" OBVIOUS
  <2>6. op = "graft" => DOMAIN g.turns = DOMAIN f.turns BY <2>5
  <2>7. AskedAs(f, g, op, i, edits) BY <1>2, <1>3, <1>4, <2>1, <2>2, <2>4, <2>6, EditAsked
  <2>8. SaveOne(EditOf(op, i, edits, ""), p, out, g) BY <1>1, <1>3, <1>4, <1>6, <2>3, <2>5 DEF Branch
  <2>9. PICK to : to = "" OBVIOUS
  <2>10. SaveOne(EditOf(op, i, edits, to), p, out, g) BY <2>8, <2>9
  <2>11. edits # <<>> => AskedAs(disk[p], g, op, i, edits) BY <1>1, <2>7
  <2> QED BY <2>10, <2>11, OneAsked
<1> QED BY <1>5, <1>6

\* What the other commands are.
LEMMA SavedOther ==
  ASSUME NEW op, op \notin {"graft", "branch"}, NEW i, NEW edits, NEW to,
         \/ \E p, out, g : SaveOne(EditOf(op, i, edits, to), p, out, g)
         \/ \E p, made : SaveVariants(EditOf(op, i, edits, to), p, made)
         \/ \E written, from : SaveAll(EditOf(op, i, edits, to), written, from)
  PROVE  Asked'
<1>1. \E written, from : SaveAll(EditOf(op, i, edits, to), written, from)
  <2>1. CASE \E p, out, g : SaveOne(EditOf(op, i, edits, to), p, out, g) BY <2>1 DEF SaveOne
  <2>2. CASE \E p, made : SaveVariants(EditOf(op, i, edits, to), p, made) BY <2>2, Zenon DEF SaveVariants
  <2> QED BY <2>1, <2>2
<1>2. PICK written, from : SaveAll(EditOf(op, i, edits, to), written, from) BY <1>1
<1>3. last'.op = op BY <1>2, SavedAll
<1> QED BY <1>3, OthersAsked

LEMMA OthersAskNothing ==
  ASSUME NEW p, NEW i, NEW to,
         \/ \E out, keep : Graft(p, out, i, <<>>, {1}, keep)
         \/ \E slot : Distill(p, i, slot)
         \/ \E out : PortTo(p, out, to)
         \/ \E dirs : Migrate(dirs, to)
         \/ \E out : Canonicalize1(p, out)
         \/ ScenarioOf(p, i)
         \/ \E answer : Fuzz(p, i, answer)
         \/ \E out, op, n : Mutate(p, out, op, n)
         \/ \E dirs : ShrinkCorpus(dirs)
         \/ \E out, s : Author(out, s)
  PROVE  Asked'
<1>1. CASE \E out, keep : Graft(p, out, i, <<>>, {1}, keep)
  <2>1. PICK out, g : SaveOne(Command("graft-more"), p, out, g)
    <3>1. PICK out, keep : Graft(p, out, i, <<>>, {1}, keep) BY <1>1
    <3>2. {1} # {} OBVIOUS
    <3> QED BY <3>1, <3>2 DEF Graft
  <2>2. \E x, y : SaveOne(EditOf("graft-more", 0, <<>>, ""), p, x, y) BY <2>1 DEF Command
  <2> QED BY <2>2, SavedOther
<1>2. CASE \E slot : Distill(p, i, slot)
  <2>1. PICK slot : Distill(p, i, slot) BY <1>2
  <2>2. \E made : SaveVariants(EditOf("distill", i, slot, ""), p, made) BY <2>1, Zenon DEF Distill
  <2> QED BY <2>2, SavedOther
<1>3. CASE \E out : PortTo(p, out, to)
  <2>1. \E out, g : SaveOne(EditOf("port", 0, <<>>, to), p, out, g) BY <1>3, Zenon DEF PortTo, Toward
  <2> QED BY <2>1, SavedOther
<1>4. CASE \E dirs : Migrate(dirs, to)
  <2>1. \E written, from : SaveAll(EditOf("migrate", 0, <<>>, to), written, from) BY <1>4, Zenon DEF Migrate, Toward
  <2> QED BY <2>1, SavedOther
<1>5. CASE \E out : Canonicalize1(p, out)
  <2>1. \E out, g : SaveOne(EditOf("canonicalize", 0, <<>>, ""), p, out, g) BY <1>5, Zenon DEF Canonicalize1, Command
  <2> QED BY <2>1, SavedOther
<1>6. CASE ScenarioOf(p, i)
  <2>1. PICK n : n = NthHTTPIndex(disk[p], i) OBVIOUS
  <2>2. \E made : SaveVariants(EditOf("scenario", n, <<>>, ""), p, made) BY <1>6, <2>1, Zenon DEF ScenarioOf
  <2> QED BY <2>2, SavedOther
<1>7. CASE \E answer : Fuzz(p, i, answer)
  <2>1. PICK n : n = NthHTTPIndex(disk[p], i) OBVIOUS
  <2>2. \E out, g : SaveOne(EditOf("fuzz", n, <<>>, ""), p, out, g) BY <1>7, <2>1, Zenon DEF Fuzz
  <2> QED BY <2>2, SavedOther
<1>8. CASE \E out, op, n : Mutate(p, out, op, n)
  <2>1. \E out, g : SaveOne(EditOf("mutate", 0, <<>>, ""), p, out, g) BY <1>8, Zenon DEF Mutate, Command
  <2> QED BY <2>1, SavedOther
<1>9. CASE \E dirs : ShrinkCorpus(dirs)
  <2>1. PICK dirs : ShrinkCorpus(dirs) BY <1>9
  <2>2. last'.op = "shrink" BY <2>1 DEF ShrinkCorpus, Toward, EditOf
  <2> QED BY <2>2, OthersAsked
<1>10. CASE \E out, s : Author(out, s)
  <2>1. PICK out, s : Author(out, s) BY <1>10
  <2>2. last'.op = "author" BY <2>1 DEF Author, EditOf
  <2> QED BY <2>2, OthersAsked
<1> QED BY <1>1, <1>2, <1>3, <1>4, <1>5, <1>6, <1>7, <1>8, <1>9, <1>10

LEMMA NextAsks == ASSUME DeriveInv, AnswersInv, DeriveNext PROVE Asked'
<1>1. CASE \E p \in DOMAIN disk : \E out \in Outs(p), i \in Turns(p), edits \in EditLists :
             Graft(p, out, i, edits, {}, Len(disk[p].turns))
  BY <1>1, GraftAsks
<1>2. CASE \E p \in DOMAIN disk : \E i \in Turns(p), edits \in EditLists \cup {<<>>} : Branch(p, Into("out", p), i, edits)
  BY <1>2, BranchAsks
<1>3. CASE \/ \E p \in DOMAIN disk : \E i \in Turns(p) : \E keep \in i .. Len(disk[p].turns) :
                Graft(p, p, i, <<>>, {1}, keep)
           \/ \E p \in DOMAIN disk : \E i \in Turns(p), slot \in Slots : Distill(p, i, slot)
           \/ \E p \in DOMAIN disk : \E out \in Outs(p), to \in Targets : PortTo(p, out, to)
           \/ \E dirs \in Dirs, to \in Targets : Migrate(dirs, to)
  BY <1>3, OthersAskNothing
<1>4. CASE \/ \E p \in DOMAIN disk : \E out \in Outs(p) : Canonicalize1(p, out)
           \/ \E p \in DOMAIN disk : \E n \in Turns(p) : ScenarioOf(p, n)
           \/ \E p \in DOMAIN disk : \E n \in Turns(p) :
                \E answer \in (IF NthHTTPIndex(disk[p], n) = 0 THEN {}
                               ELSE LET it == disk[p].turns[NthHTTPIndex(disk[p], n)] IN Reframings(it.dialect, TurnOf(it))) :
                  Fuzz(p, n, answer)
  BY <1>4, OthersAskNothing
<1>5. CASE \/ \E p \in DOMAIN disk : \E op \in MutationOps, n \in 0 .. 1 : Mutate(p, Into("out", p), op, n)
           \/ \E dirs \in Dirs : ShrinkCorpus(dirs)
           \/ \E s \in Screenplays : Author(<<"out", "authored">>, s)
  BY <1>5, OthersAskNothing
<1> QED BY <1>1, <1>2, <1>3, <1>4, <1>5 DEF DeriveNext

LEMMA StepAsks == DeriveInv /\ AnswersInv /\ Asked /\ [DeriveNext]_deriveVars => Asked'
<1> SUFFICES ASSUME DeriveInv, AnswersInv, Asked, [DeriveNext]_deriveVars PROVE Asked' OBVIOUS
<1>1. CASE DeriveNext BY <1>1, NextAsks
<1>2. CASE UNCHANGED deriveVars BY <1>2 DEF deriveVars, Asked, Written
<1> QED BY <1>1, <1>2

\* A turn that graft or branch edits reads as it was asked for and as what-if foretold; if that is
\* a change, diff and bisect find that turn and no other, diff names the fields in which the two
\* answers differ and the attestation of the source is refused; if it is none, diff finds nothing
\* (graft.go, whatif.go, diffrec.go, bisect.go, attest.go).
THEOREM EditedAsAskedCorrect == DeriveSpec => []EditedAsAsked
<1>1. DeriveInit => Asked
  <2>1. DeriveInit => last = Command("none") BY DEF DeriveInit
  <2>2. Command("none").op = "none" BY DEF Command, EditOf
  <2>3. DeriveInit => last.op = "none" BY <2>1, <2>2
  <2> QED BY <2>3 DEF Asked
<1> QED BY <1>1, StepAsks, AskedIs, DeriveInvHolds, AnswersHoldAlways, PTL DEF DeriveSpec
=============================================================================
