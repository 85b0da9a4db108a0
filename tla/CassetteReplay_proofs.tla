------------------------ MODULE CassetteReplay_proofs ------------------------
(***************************************************************************)
(* The theorems of CassetteReplay, for every set of keys, clients,         *)
(* cassettes and chaos overlays.  Inv is inductive: the types, the groups  *)
(* that index has built so far, and what each client holds between the     *)
(* unlock and the delivery.  PlayInv ties every cursor to the number of    *)
(* plays of its key; with it a cassette implements a Tape, serves no       *)
(* recording twice, and Verify is exact.  FaultInv bounds the refusals of  *)
(* a key by the attempt ordinals it has passed.                            *)
(***************************************************************************)
EXTENDS CassetteReplay, TLAPS, SequenceTheorems, FiniteSetTheorems, WellFoundedInduction

(* The least member of a non-empty set of naturals is a member of it.      *)
LEMMA MinOfNat ==
    ASSUME NEW S \in SUBSET Nat, S # {}
    PROVE  Min(S) \in S /\ \A j \in S : Min(S) <= j
<1>1. \E x \in S : \A y \in S : ~ (<<y, x>> \in OpToRel(<, Nat))
  BY NatLessThanWellFounded, WFMin
<1>2. PICK x \in S : \A y \in S : ~ (<<y, x>> \in OpToRel(<, Nat))
  BY <1>1
<1>3. ASSUME NEW y \in S PROVE x <= y
  <2>1. ~ (<<y, x>> \in OpToRel(<, Nat)) BY <1>2
  <2>2. y \in Nat /\ x \in Nat OBVIOUS
  <2>3. ~ (y < x) BY <2>1, <2>2, Zenon DEF OpToRel
  <2> QED BY <2>2, <2>3
<1>4. \E z \in S : \A y \in S : z <= y BY <1>3
<1> QED BY <1>4 DEF Min

(* The overlay's "no fault" is a fault.                                    *)
LEMMA NoFaultType == NoFault \in Fault
<1>1. AnyPath \in Seq(Segments) BY EmptySeq DEF AnyPath
<1> QED BY <1>1, SMT DEF NoFault, Fault

(* FaultSet.lookup returns an entry of the set, or no fault.               *)
LEMMA LookupType ==
    ASSUME NEW fs \in Seq(Fault), NEW m, NEW p, NEW a
    PROVE  Lookup(fs, m, p, a) \in Fault
<1> DEFINE hits == {i \in DOMAIN fs : Matches(fs[i], m, p, a)}
<1>1. CASE hits = {}
  <2> QED BY <1>1, NoFaultType DEF Lookup
<1>2. CASE hits # {}
  <2>1. hits \in SUBSET Nat BY LenProperties DEF hits
  <2>2. Min(hits) \in hits BY <1>2, <2>1, MinOfNat
  <2>3. fs[Min(hits)] \in Fault BY <2>2, ElementOfSeq DEF hits
  <2> QED BY <1>2, <2>3 DEF Lookup
<1> QED BY <1>1, <1>2
-----------------------------------------------------------------------------
(* The inductive invariant.                                                *)

(* Past the key derivation a client has a real key.                        *)
Keyed == \A c \in Clients : pc[c] \in {"keyed", "taken"} => req[c].key \in Keys

(* The groups hold what the loop has passed, in order, under its own key.  *)
IndexInv ==
    /\ \A k \in Keys : \A n \in DOMAIN keys[k] :
            keys[k][n] \in 1..(pos - 1) /\ IndexKey(file[keys[k][n]]) = k
    /\ \A k \in Keys : \A m, n \in DOMAIN keys[k] : m < n => keys[k][m] < keys[k][n]
    /\ \A i \in 1..(pos - 1) :
            IndexKey(file[i]) # NoKey =>
                \E n \in DOMAIN keys[IndexKey(file[i])] : keys[IndexKey(file[i])][n] = i
    /\ phase = "ready" => pos = Len(file) + 1

(* What a client holds between the unlock and the delivery.                *)
HandInv ==
    \A c \in Clients :
        pc[c] = "taken" =>
            /\ hand[c].idx \in DOMAIN file
            /\ IndexKey(file[hand[c].idx]) = req[c].key
            /\ (req[c].kind = "mcp" \/ faults = <<>>) => hand[c].fault = NoFault

Inv == TypeOK /\ Keyed /\ IndexInv /\ HandInv

(* What the assumptions say of the opened cassette and its overlay.        *)
LEMMA FileFacts ==
    ASSUME TypeOK
    PROVE  /\ file \in Seq(Interactions)
           /\ DOMAIN file = 1..Len(file)
           /\ DOMAIN file \subseteq Positions
           /\ Len(file) \in Nat
           /\ \A i \in 1..Len(file) : file[i] \in Interactions
           /\ faults \in Seq(Fault)
<1>1. file \in Seq(Interactions) BY FilesAssumption DEF TypeOK
<1>2. faults \in Seq(Fault) BY FaultSetsAssumption DEF TypeOK
<1>3. DOMAIN file \subseteq Positions BY DEF TypeOK, Positions
<1> QED BY <1>1, <1>2, <1>3, LenProperties, ElementOfSeq

(* index files a recording under a key or under none.                      *)
LEMMA IndexKeyType ==
    ASSUME NEW it \in Interactions
    PROVE  IndexKey(it) \in Keys \cup {NoKey}
BY DEF Interactions, IndexKey

(* nextIndexLocked stays within the group and within its type.             *)
LEMMA NextIndexFacts ==
    ASSUME NEW g \in Seq(Positions), NEW n \in Nat, NEW p, CanServe(g, n, p)
    PROVE  /\ ServedIndex(g, n, p) \in Positions
           /\ \E j \in DOMAIN g : ServedIndex(g, n, p) = g[j]
           /\ NextCursor(g, n, p) \in Nat
<1>1. Len(g) \in Nat /\ Len(g) > 0 /\ DOMAIN g = 1..Len(g)
  BY LenProperties, EmptySeq DEF CanServe
<1>2. (n % Len(g)) + 1 \in 1..Len(g) BY <1>1
<1>3. n < Len(g) => n + 1 \in 1..Len(g) BY <1>1
<1>4. \E j \in DOMAIN g : ServedIndex(g, n, p) = g[j]
  BY <1>1, <1>2, <1>3 DEF ServedIndex, Exhausted
<1>5. \A j \in DOMAIN g : g[j] \in Positions BY <1>1, ElementOfSeq
<1> QED BY <1>4, <1>5 DEF NextCursor

(* Truncating and dropping the terminal event only shorten a stream.       *)
LEMMA ModifyFacts ==
    ASSUME NEW fr \in Nat, NEW f \in Fault
    PROVE  ApplyModify(fr, f) \in Nat /\ ApplyModify(fr, f) <= fr
<1> DEFINE cut == IF f.keep >= 0 /\ f.keep < fr THEN f.keep ELSE fr
<1>1. f.keep \in Int /\ f.drop \in BOOLEAN BY DEF Fault
<1>2. cut \in Nat /\ cut <= fr BY <1>1
<1>3. cut > 0 => cut - 1 \in Nat /\ cut - 1 <= fr BY <1>2
<1>4. ApplyModify(fr, f) \in {fr, cut} \/ (cut > 0 /\ ApplyModify(fr, f) = cut - 1)
  BY DEF ApplyModify
<1> HIDE DEF cut
<1> QED BY <1>2, <1>3, <1>4

(* Without a fault the recorded stream is replayed as it is.               *)
LEMMA NoModify == ASSUME NEW fr \in Nat PROVE ApplyModify(fr, NoFault) = fr
BY DEF ApplyModify, NoFault, Synthetic
-----------------------------------------------------------------------------
(* A cassette that newCassette has just built satisfies the invariant.     *)
LEMMA InitInv == Init => Inv
<1> SUFFICES ASSUME Init PROVE Inv OBVIOUS
<1>1. TypeOK
  <2>1. file \in Seq(Interactions) /\ Len(file) \in Nat
    BY FilesAssumption, LenProperties DEF Init
  <2>2. pos \in 1..(Len(file) + 1) BY <2>1 DEF Init
  <2>3. keys \in [Keys -> Seq(Positions)] /\ served \in [Keys -> Seq(Positions)]
    BY EmptySeq DEF Init
  <2>4. hand \in [Clients -> [idx : Positions \cup {0}, fault : Fault]]
    BY NoFaultType DEF Init, NoHand
  <2>5. reply \in [Clients -> Replies]
    BY DEF Init, NoReply, Replies
  <2>6. calls \in 0..MaxCalls BY MaxCallsAssumption DEF Init
  <2> QED BY <2>2, <2>3, <2>4, <2>5, <2>6 DEF Init, TypeOK, Zero
<1>2. Keyed BY DEF Init, Keyed
<1>3. IndexInv BY DEF Init, IndexInv
<1>4. HandInv BY DEF Init, HandInv
<1> QED BY <1>1, <1>2, <1>3, <1>4 DEF Inv

(* A request that matchResponse sees has a key or none.                    *)
LEMMA RequestKey ==
    ASSUME TypeOK, NEW c \in Clients
    PROVE  req[c].key \in Keys \cup {NoKey}
<1>1. req[c] \in Requests \cup {NoRequest} BY DEF TypeOK
<1>2. \A r \in Requests : r.key \in Keys \cup {NoKey} BY RequestsAssumption
<1>3. NoRequest.key = NoKey BY DEF NoRequest
<1> QED BY <1>1, <1>2, <1>3

(* No step lets a client past the key derivation without a key.            *)
LEMMA KeyedStep == Inv /\ [Next]_vars => Keyed'
<1> SUFFICES ASSUME Inv, [Next]_vars PROVE Keyed' OBVIOUS
<1> USE DEF Inv, TypeOK, Keyed
<1>1. CASE IndexOne \/ IndexSkip \/ IndexFail \/ OpenDone \/ Verify
  BY <1>1 DEF IndexOne, IndexSkip, IndexFail, OpenDone, Verify, client
<1>2. ASSUME NEW c \in Clients,
             Call(c) \/ ContextDone(c) \/ KeyFails(c) \/ InjectFault(c) \/ Miss(c) \/ Deliver(c)
      PROVE  Keyed'
  BY <1>2 DEF Call, ContextDone, KeyFails, InjectFault, Miss, Deliver, Return
<1>3. ASSUME NEW c \in Clients, KeyDerived(c) PROVE Keyed'
  <2>1. req[c].key \in Keys \cup {NoKey} BY RequestKey
  <2> QED BY <1>3, <2>1 DEF KeyDerived
<1>4. ASSUME NEW c \in Clients, TakeRecorded(c) PROVE Keyed'
  BY <1>4 DEF TakeRecorded, Take
<1>5. CASE UNCHANGED vars
  BY <1>5 DEF vars, client
<1> QED BY <1>1, <1>2, <1>3, <1>4, <1>5 DEF Next

(* Every step keeps the groups: only index writes them, in file order.     *)
LEMMA IndexStep == Inv /\ [Next]_vars => IndexInv'
<1> SUFFICES ASSUME Inv, [Next]_vars PROVE IndexInv' OBVIOUS
<1> USE DEF Inv
<1>1. CASE IndexOne
  <2> DEFINE K == IndexKey(file[pos])
  <2>1. /\ file' = file /\ phase' = phase /\ pos' = pos + 1 /\ phase = "indexing"
        /\ keys' = [keys EXCEPT ![K] = Append(@, pos)]
        /\ K # NoKey /\ pos \in 1..Len(file) /\ pos \in Positions
    BY <1>1, FileFacts DEF IndexOne, TypeOK
  <2>2. K \in Keys BY <2>1, FileFacts, IndexKeyType
  <2>3. /\ keys[K] \in Seq(Positions) /\ Len(keys[K]) \in Nat /\ DOMAIN keys[K] = 1..Len(keys[K])
        /\ keys'[K] = Append(keys[K], pos)
    BY <2>1, <2>2, LenProperties DEF TypeOK
  <2>4. /\ DOMAIN keys'[K] = 1..(Len(keys[K]) + 1)
        /\ \A n \in 1..Len(keys[K]) : keys'[K][n] = keys[K][n]
        /\ keys'[K][Len(keys[K]) + 1] = pos
    BY <2>1, <2>3, AppendProperties
  <2>5. \A k \in Keys : k # K => keys'[k] = keys[k]
    BY <2>1 DEF TypeOK
  <2> HIDE DEF K
  <2>6. \A n \in DOMAIN keys[K] : keys[K][n] \in 1..(pos - 1) /\ IndexKey(file[keys[K][n]]) = K
    BY <2>2 DEF IndexInv
  <2>7. ASSUME NEW k \in Keys, NEW n \in DOMAIN keys'[k]
        PROVE  keys'[k][n] \in 1..pos /\ IndexKey(file[keys'[k][n]]) = k
    <3>1. CASE k # K BY <3>1, <2>1, <2>5 DEF IndexInv
    <3>2. CASE k = K /\ n \in 1..Len(keys[K]) BY <3>2, <2>1, <2>3, <2>4, <2>6
    <3>3. CASE k = K /\ n = Len(keys[K]) + 1 BY <3>3, <2>1, <2>4 DEF K
    <3> QED BY <3>1, <3>2, <3>3, <2>3, <2>4
  <2>8. ASSUME NEW k \in Keys, NEW m \in DOMAIN keys'[k], NEW n \in DOMAIN keys'[k], m < n
        PROVE  keys'[k][m] < keys'[k][n]
    <3>1. CASE k # K BY <3>1, <2>5, <2>8 DEF IndexInv
    <3>2. CASE k = K /\ n \in 1..Len(keys[K])
      <4>1. m \in 1..Len(keys[K]) BY <3>2, <2>3, <2>4, <2>8
      <4>2. keys[K][m] < keys[K][n] BY <4>1, <3>2, <2>2, <2>3, <2>8 DEF IndexInv
      <4> QED BY <4>1, <4>2, <3>2, <2>4
    <3>3. CASE k = K /\ n = Len(keys[K]) + 1
      <4>1. m \in 1..Len(keys[K]) BY <3>3, <2>3, <2>4, <2>8
      <4>2. keys[K][m] \in 1..(pos - 1) BY <4>1, <2>3, <2>6
      <4> QED BY <4>1, <4>2, <3>3, <2>4, <2>1
    <3> QED BY <3>1, <3>2, <3>3, <2>3, <2>4
  <2>9. ASSUME NEW i \in 1..pos, IndexKey(file[i]) # NoKey
        PROVE  \E n \in DOMAIN keys'[IndexKey(file[i])] : keys'[IndexKey(file[i])][n] = i
    <3>1. IndexKey(file[i]) \in Keys BY <2>9, <2>1, FileFacts, IndexKeyType
    <3>2. CASE i = pos
      <4>1. Len(keys[K]) + 1 \in DOMAIN keys'[K] BY <2>3, <2>4
      <4> QED BY <4>1, <3>2, <2>4 DEF K
    <3>3. CASE i # pos
      <4>1. i \in 1..(pos - 1) BY <3>3, <2>1
      <4>2. PICK n \in DOMAIN keys[IndexKey(file[i])] : keys[IndexKey(file[i])][n] = i
        BY <4>1, <2>9 DEF IndexInv
      <4>3. CASE IndexKey(file[i]) = K BY <4>2, <4>3, <2>3, <2>4
      <4>4. CASE IndexKey(file[i]) # K BY <4>2, <4>4, <3>1, <2>5
      <4> QED BY <4>3, <4>4
    <3> QED BY <3>2, <3>3
  <2>10. pos' - 1 = pos BY <2>1
  <2> QED BY <2>1, <2>7, <2>8, <2>9, <2>10 DEF IndexInv
<1>2. CASE IndexSkip
  <2>1. /\ file' = file /\ phase' = phase /\ pos' = pos + 1 /\ phase = "indexing" /\ keys' = keys
        /\ IndexKey(file[pos]) = NoKey /\ pos \in 1..Len(file)
    BY <1>2 DEF IndexSkip, TypeOK
  <2>2. ASSUME NEW k \in Keys, NEW n \in DOMAIN keys[k] PROVE keys[k][n] \in 1..pos
    <3>1. keys[k][n] \in 1..(pos - 1) BY DEF IndexInv
    <3> QED BY <3>1, <2>1
  <2>3. \A i \in 1..pos : IndexKey(file[i]) # NoKey => i \in 1..(pos - 1)
    BY <2>1
  <2>4. pos' - 1 = pos BY <2>1
  <2> QED BY <2>1, <2>2, <2>3, <2>4 DEF IndexInv
<1>3. CASE IndexFail \/ OpenDone
  BY <1>3 DEF IndexFail, OpenDone, IndexInv
<1>4. CASE UNCHANGED opened
  BY <1>4 DEF opened, IndexInv
<1>5. ASSUME NEW c \in Clients,
             \/ Call(c) \/ ContextDone(c) \/ KeyFails(c) \/ KeyDerived(c)
             \/ InjectFault(c) \/ TakeRecorded(c) \/ Miss(c) \/ Deliver(c)
      PROVE  UNCHANGED opened
  BY <1>5 DEF Call, ContextDone, KeyFails, KeyDerived, InjectFault, TakeRecorded, Miss, Deliver
<1>6. Verify => UNCHANGED opened BY DEF Verify
<1>7. UNCHANGED vars => UNCHANGED opened BY DEF vars
<1> QED BY <1>1, <1>2, <1>3, <1>4, <1>5, <1>6, <1>7 DEF Next
-----------------------------------------------------------------------------
(* What the critical section takes.                                        *)
LEMMA TakeFacts ==
    ASSUME Inv, NEW c \in Clients, NEW k \in Keys, Hit(k)
    PROVE  LET idx == ServedIndex(keys[k], cursor[k], policy)
           IN  /\ idx \in DOMAIN file
               /\ idx \in Positions
               /\ IndexKey(file[idx]) = k
               /\ NextCursor(keys[k], cursor[k], policy) \in Nat
<1> DEFINE idx == ServedIndex(keys[k], cursor[k], policy)
<1>1. keys[k] \in Seq(Positions) /\ cursor[k] \in Nat BY DEF Inv, TypeOK
<1>2. CanServe(keys[k], cursor[k], policy) BY DEF Hit
<1>3. /\ idx \in Positions
      /\ \E j \in DOMAIN keys[k] : idx = keys[k][j]
      /\ NextCursor(keys[k], cursor[k], policy) \in Nat
  BY <1>1, <1>2, NextIndexFacts
<1>4. idx \in 1..(pos - 1) /\ IndexKey(file[idx]) = k BY <1>3 DEF Inv, IndexInv
<1>5. pos \in 1..(Len(file) + 1) BY DEF Inv, TypeOK
<1>6. idx \in DOMAIN file BY <1>4, <1>5, FileFacts DEF Inv
<1> QED BY <1>3, <1>4, <1>6

(* The fault a request meets is a fault.                                   *)
LEMMA OverlayType == ASSUME TypeOK, NEW c \in Clients PROVE Overlay(c) \in Fault
BY FileFacts, LookupType, NoFaultType DEF Overlay

(* Attempt counters stay natural numbers.                                  *)
LEMMA CountType ==
    ASSUME TypeOK, NEW c \in Clients, req[c].key \in Keys, CountAttempt(c)
    PROVE  attempts' \in [Keys -> Nat]
<1>1. attempts[req[c].key] + 1 \in Nat BY DEF TypeOK
<1> QED BY <1>1 DEF CountAttempt, TypeOK

(* Every step keeps the types.                                             *)
LEMMA TypeStep == Inv /\ [Next]_vars => TypeOK'
<1> SUFFICES ASSUME Inv, [Next]_vars PROVE TypeOK' OBVIOUS
<1>0. /\ TypeOK /\ file \in Seq(Interactions) /\ DOMAIN file \subseteq Positions
      /\ DOMAIN file = 1..Len(file) /\ Len(file) \in Nat
  BY FileFacts DEF Inv
<1>1. CASE IndexOne
  <2>0. pos \in 1..(Len(file) + 1) /\ pos <= Len(file) /\ pos' = pos + 1
    BY <1>0, <1>1 DEF IndexOne, TypeOK
  <2>1. pos \in Positions /\ pos' \in 1..(Len(file) + 1) BY <1>0, <2>0
  <2>2. IndexKey(file[pos]) \in Keys
    BY <1>0, <1>1, FileFacts, IndexKeyType DEF IndexOne, TypeOK
  <2>3. Append(keys[IndexKey(file[pos])], pos) \in Seq(Positions)
    BY <1>0, <2>1, <2>2, AppendProperties DEF TypeOK
  <2>4. keys' \in [Keys -> Seq(Positions)] BY <1>0, <1>1, <2>3 DEF IndexOne, TypeOK
  <2> QED BY <1>0, <1>1, <2>1, <2>4 DEF IndexOne, TypeOK, table, client, history
<1>2. CASE IndexSkip \/ IndexFail \/ OpenDone
  BY <1>0, <1>2 DEF IndexSkip, IndexFail, OpenDone, TypeOK, table, client, history
<1>3. ASSUME NEW c \in Clients, Call(c) PROVE TypeOK'
  <2>1. calls' \in 0..MaxCalls BY <1>0, <1>3, MaxCallsAssumption DEF Call, TypeOK
  <2>2. NoHand \in [idx : Positions \cup {0}, fault : Fault] BY NoFaultType DEF NoHand
  <2>3. hand' \in [Clients -> [idx : Positions \cup {0}, fault : Fault]]
    BY <1>0, <1>3, <2>2 DEF Call, TypeOK
  <2>4. req' \in [Clients -> Requests \cup {NoRequest}] BY <1>0, <1>3 DEF Call, TypeOK
  <2> QED BY <1>0, <1>3, <2>1, <2>3, <2>4 DEF Call, TypeOK, opened, table, history
<1>4. ASSUME NEW c \in Clients, ContextDone(c) \/ KeyFails(c) PROVE TypeOK'
  <2>1. reply' \in [Clients -> Replies]
    <3>1. CASE ContextDone(c) BY <1>0, <3>1 DEF ContextDone, Return, Replies, TypeOK
    <3>2. CASE KeyFails(c) BY <1>0, <3>2 DEF KeyFails, Return, Replies, TypeOK
    <3> QED BY <1>4, <3>1, <3>2
  <2> QED BY <1>0, <1>4, <2>1 DEF ContextDone, KeyFails, Return, TypeOK, opened, table, history
<1>5. ASSUME NEW c \in Clients, KeyDerived(c) PROVE TypeOK'
  BY <1>0, <1>5 DEF KeyDerived, TypeOK, opened, table, history
<1>6. ASSUME NEW c \in Clients, InjectFault(c) PROVE TypeOK'
  <2>1. attempts' \in [Keys -> Nat] BY <1>0, <1>6, CountType DEF InjectFault, Inv, Keyed
  <2>2. injected' \in [Keys -> Nat]
    <3>1. req[c].key \in Keys BY <1>6 DEF InjectFault, Inv, Keyed
    <3>2. injected[req[c].key] + 1 \in Nat BY <1>0, <3>1 DEF TypeOK
    <3> QED BY <1>0, <1>6, <3>2 DEF InjectFault, TypeOK
  <2>3. reply' \in [Clients -> Replies] BY <1>0, <1>6 DEF InjectFault, Return, Replies, TypeOK
  <2> QED BY <1>0, <1>6, <2>1, <2>2, <2>3 DEF InjectFault, Return, TypeOK, opened
<1>7. ASSUME NEW c \in Clients, TakeRecorded(c) PROVE TypeOK'
  <2> DEFINE k == req[c].key
             idx == ServedIndex(keys[k], cursor[k], policy)
  <2>1. k \in Keys /\ Hit(k) BY <1>7 DEF TakeRecorded, Take, Inv, Keyed
  <2>2. idx \in Positions /\ NextCursor(keys[k], cursor[k], policy) \in Nat
    BY <2>1, TakeFacts
  <2>3. /\ cursor' = [cursor EXCEPT ![k] = NextCursor(keys[k], cursor[k], policy)]
        /\ consumed' = consumed \cup {idx}
        /\ served' = [served EXCEPT ![k] = Append(served[k], idx)]
        /\ hand' = [hand EXCEPT ![c] = [idx |-> idx, fault |-> Overlay(c)]]
        /\ pc' = [pc EXCEPT ![c] = "taken"]
    BY <1>7, <1>0 DEF TakeRecorded, Take, TypeOK
  <2>4. attempts' \in [Keys -> Nat] BY <1>0, <1>7, CountType DEF TakeRecorded, Inv, Keyed
  <2>5. Append(served[k], idx) \in Seq(Positions)
    BY <1>0, <2>1, <2>2, AppendProperties DEF TypeOK
  <2>6. Overlay(c) \in Fault BY <1>0, OverlayType
  <2> HIDE DEF k, idx
  <2>7. cursor' \in [Keys -> Nat] BY <1>0, <2>2, <2>3 DEF TypeOK
  <2>8. served' \in [Keys -> Seq(Positions)] BY <1>0, <2>3, <2>5 DEF TypeOK
  <2>9. hand' \in [Clients -> [idx : Positions \cup {0}, fault : Fault]]
    BY <1>0, <2>2, <2>3, <2>6 DEF TypeOK
  <2>10. consumed' \in SUBSET Positions BY <1>0, <2>2, <2>3 DEF TypeOK
  <2>11. pc' \in [Clients -> {"idle", "called", "keyed", "taken"}]
    BY <1>0, <2>3 DEF TypeOK
  <2>12. UNCHANGED <<opened, req, reply, calls, missing, injected>>
    BY <1>7 DEF TakeRecorded
  <2> QED BY <1>0, <2>4, <2>7, <2>8, <2>9, <2>10, <2>11, <2>12 DEF TypeOK, opened
<1>8. ASSUME NEW c \in Clients, Miss(c) PROVE TypeOK'
  <2>1. attempts' \in [Keys -> Nat] BY <1>0, <1>8, CountType DEF Miss, Inv, Keyed
  <2>2. reply' \in [Clients -> Replies] BY <1>0, <1>8 DEF Miss, Return, Replies, TypeOK
  <2> QED BY <1>0, <1>8, <2>1, <2>2 DEF Miss, Return, TypeOK, opened, history
<1>9. ASSUME NEW c \in Clients, Deliver(c) PROVE TypeOK'
  <2>1. hand[c].idx \in DOMAIN file BY <1>9 DEF Deliver, Inv, HandInv
  <2>2. file[hand[c].idx].frames \in Nat
    BY <1>0, <2>1, FileFacts DEF Interactions
  <2>3. hand[c].fault \in Fault BY <1>0 DEF TypeOK
  <2>4. ApplyModify(file[hand[c].idx].frames, hand[c].fault) \in Nat
    BY <2>2, <2>3, ModifyFacts
  <2>5. reply' \in [Clients -> Replies]
    BY <1>0, <1>9, <2>1, <2>4 DEF Deliver, Replies, TypeOK
  <2> QED BY <1>0, <1>9, <2>5 DEF Deliver, TypeOK, opened, table, history
<1>10. CASE Verify
  <2>1. missing' \in SUBSET Positions BY <1>0, <1>10 DEF Verify, Unconsumed
  <2> QED BY <1>0, <1>10, <2>1 DEF Verify, TypeOK, opened, table, client, history
<1>11. CASE UNCHANGED vars
  BY <1>0, <1>11 DEF vars, TypeOK, opened, table, client, history
<1> QED
  BY <1>1, <1>2, <1>3, <1>4, <1>5, <1>6, <1>7, <1>8, <1>9, <1>10, <1>11 DEF Next

(* What a client took under the lock stays its own until it is delivered.  *)
LEMMA HandStep == Inv /\ [Next]_vars => HandInv'
<1> SUFFICES ASSUME Inv, [Next]_vars PROVE HandInv' OBVIOUS
<1>0. TypeOK /\ HandInv BY DEF Inv
<1>1. CASE IndexOne \/ IndexSkip \/ IndexFail \/ OpenDone \/ Verify
  BY <1>0, <1>1 DEF IndexOne, IndexSkip, IndexFail, OpenDone, Verify, HandInv, client, opened
<1>2. ASSUME NEW c \in Clients,
             \/ Call(c) \/ ContextDone(c) \/ KeyFails(c) \/ KeyDerived(c)
             \/ InjectFault(c) \/ Miss(c) \/ Deliver(c)
      PROVE  HandInv'
  BY <1>0, <1>2 DEF Call, ContextDone, KeyFails, KeyDerived, InjectFault, Miss, Deliver,
                    Return, HandInv, TypeOK, opened
<1>3. ASSUME NEW c \in Clients, TakeRecorded(c) PROVE HandInv'
  <2> DEFINE k == req[c].key
             idx == ServedIndex(keys[k], cursor[k], policy)
  <2>1. k \in Keys /\ Hit(k) BY <1>3 DEF TakeRecorded, Take, Inv, Keyed
  <2>2. idx \in DOMAIN file /\ IndexKey(file[idx]) = k BY <2>1, TakeFacts
  <2>3. /\ hand' = [hand EXCEPT ![c] = [idx |-> idx, fault |-> Overlay(c)]]
        /\ pc' = [pc EXCEPT ![c] = "taken"]
        /\ file' = file /\ req' = req /\ faults' = faults
    BY <1>3 DEF TakeRecorded, Take, opened
  <2>4. (req[c].kind = "mcp" \/ faults = <<>>) => Overlay(c) = NoFault
    BY DEF Overlay, Counted
  <2>5. k = req[c].key OBVIOUS
  <2> HIDE DEF k, idx
  <2>6. ASSUME NEW d \in Clients, pc'[d] = "taken"
        PROVE  /\ hand'[d].idx \in DOMAIN file
               /\ IndexKey(file[hand'[d].idx]) = req[d].key
               /\ (req[d].kind = "mcp" \/ faults = <<>>) => hand'[d].fault = NoFault
    <3>1. CASE d = c BY <3>1, <1>0, <2>2, <2>3, <2>4, <2>5 DEF TypeOK
    <3>2. CASE d # c BY <3>2, <1>0, <2>3, <2>6 DEF TypeOK, HandInv
    <3> QED BY <3>1, <3>2
  <2> QED BY <2>3, <2>6 DEF HandInv
<1>4. CASE UNCHANGED vars
  BY <1>0, <1>4 DEF vars, HandInv, client, opened
<1> QED BY <1>1, <1>2, <1>3, <1>4 DEF Next

(* The invariant holds in every reachable state, whatever the cassettes,   *)
(* the clients and the overlays are.                                       *)
THEOREM InvCorrect == Spec => []Inv
<1>1. Inv /\ [Next]_vars => Inv'
  BY TypeStep, KeyedStep, IndexStep, HandStep DEF Inv
<1> QED BY <1>1, InitInv, PTL DEF Spec

(* Every variable of a cassette in replay keeps its type: cursors stay     *)
(* natural, and groups, histories and hands hold positions of the file.    *)
THEOREM TypeCorrect == Spec => []TypeOK
<1>1. Inv => TypeOK BY DEF Inv
<1> QED BY <1>1, InvCorrect, PTL
-----------------------------------------------------------------------------
(* Opening a cassette: FiledKey, the reference, and IndexKey, the code,    *)
(* file a recording alike.                                                 *)
LEMMA FiledIsIndexKey ==
    ASSUME NEW it \in Interactions, NEW k \in Keys
    PROVE  (FiledKey(it) = k /\ (Matchable(it) \/ it.saved # NoKey)) <=> IndexKey(it) = k
BY NoKeyAssumption DEF FiledKey, IndexKey, Matchable, Interactions

(* Opening files every recording once, under its own key and in order.     *)
THEOREM IndexCorrect == Spec => []IndexSound
<1>1. Inv => IndexSound
  <2> SUFFICES ASSUME Inv, phase = "ready", NEW i \in DOMAIN file, NEW k \in Keys
               PROVE  LET places == {n \in DOMAIN keys[k] : keys[k][n] = i}
                          filed  == FiledKey(file[i]) = k /\
                                    (Matchable(file[i]) \/ file[i].saved # NoKey)
                      IN  /\ Cardinality(places) = IF filed THEN 1 ELSE 0
                          /\ \A m, n \in DOMAIN keys[k] : m < n => keys[k][m] < keys[k][n]
    BY DEF IndexSound
  <2> DEFINE places == {n \in DOMAIN keys[k] : keys[k][n] = i}
  <2>0. /\ TypeOK /\ IndexInv /\ pos = Len(file) + 1
        /\ i \in 1..(pos - 1) /\ file[i] \in Interactions
    BY FileFacts DEF Inv, IndexInv
  <2>1. (FiledKey(file[i]) = k /\ (Matchable(file[i]) \/ file[i].saved # NoKey))
            <=> IndexKey(file[i]) = k
    BY <2>0, FiledIsIndexKey
  <2>2. DOMAIN keys[k] \subseteq Nat /\ \A n \in DOMAIN keys[k] : keys[k][n] \in Nat
    <3>1. keys[k] \in Seq(Positions) BY <2>0 DEF TypeOK
    <3>2. DOMAIN keys[k] \subseteq Nat BY <3>1, LenProperties
    <3> QED BY <3>2, <2>0 DEF IndexInv, TypeOK
  <2>3. CASE IndexKey(file[i]) = k
    <3>1. PICK n \in DOMAIN keys[k] : keys[k][n] = i
      BY <2>0, <2>3, NoKeyAssumption DEF IndexInv
    <3>2. ASSUME NEW m \in DOMAIN keys[k], keys[k][m] = i PROVE m = n
      <4>1. ~ (m < n) BY <2>0, <2>2, <3>1, <3>2 DEF IndexInv
      <4>2. ~ (n < m) BY <2>0, <2>2, <3>1, <3>2 DEF IndexInv
      <4> QED BY <4>1, <4>2, <2>2
    <3>3. places = {n} BY <3>1, <3>2
    <3>4. Cardinality(places) = 1 BY <3>3, FS_Singleton
    <3> QED BY <2>0, <2>1, <2>3, <3>4 DEF IndexInv
  <2>4. CASE IndexKey(file[i]) # k
    <3>1. places = {} BY <2>0, <2>4 DEF IndexInv
    <3>2. Cardinality(places) = 0 BY <3>1, FS_EmptySet
    <3> QED BY <2>0, <2>1, <2>4, <3>2 DEF IndexInv
  <2> QED BY <2>3, <2>4
<1> QED BY <1>1, InvCorrect, PTL
-----------------------------------------------------------------------------
(* Playing it.                                                             *)

CursorLaw(k) ==
    cursor[k] = IF policy = "RepeatLast" /\ Len(served[k]) > Len(keys[k])
                THEN Len(keys[k]) ELSE Len(served[k])

(* The table and the history agree, key by key.                            *)
PlayInv ==
    /\ phase # "ready" => \A k \in Keys : served[k] = <<>>
    /\ phase # "ready" => \A c \in Clients : pc[c] = "idle"
    /\ \A k \in Keys : CursorLaw(k)
    /\ \A k \in Keys : policy = "Error" => Len(served[k]) <= Len(keys[k])
    /\ \A k \in Keys : \A n \in DOMAIN served[k] :
            served[k][n] = T!Answer(keys[k], n, policy)
    /\ consumed = Played

(* What nextIndexLocked hands out is the tape's answer to the next play,   *)
(* and the cursor it leaves keeps the law.                                 *)
LEMMA TakeIsPlay ==
    ASSUME NEW g \in Seq(Positions), NEW s \in Nat, NEW n \in Nat, NEW p \in Policies,
           CanServe(g, n, p),
           n = IF p = "RepeatLast" /\ s > Len(g) THEN Len(g) ELSE s,
           p = "Error" => s <= Len(g)
    PROVE  /\ ServedIndex(g, n, p) = T!Answer(g, s + 1, p)
           /\ NextCursor(g, n, p) = IF p = "RepeatLast" /\ s + 1 > Len(g) THEN Len(g) ELSE s + 1
           /\ p = "Error" => s + 1 <= Len(g)
           /\ g # <<>>
<1>1. Len(g) \in Nat /\ Len(g) > 0 /\ g # <<>>
  BY LenProperties, EmptySeq DEF CanServe
<1>2. CASE s < Len(g)
  <2>1. n = s /\ ~Exhausted(g, n) BY <1>1, <1>2 DEF Exhausted
  <2> QED BY <1>1, <1>2, <2>1 DEF ServedIndex, NextCursor, T!Answer
<1>3. CASE s >= Len(g) /\ p = "RepeatLast"
  <2>1. n = Len(g) /\ Exhausted(g, n) BY <1>1, <1>3 DEF Exhausted
  <2> QED BY <1>1, <1>3, <2>1 DEF ServedIndex, NextCursor, T!Answer
<1>4. CASE s >= Len(g) /\ p # "RepeatLast"
  <2>1. n = s /\ Exhausted(g, n) /\ p = "Cycle"
    BY <1>1, <1>4 DEF Exhausted, CanServe, Policies
  <2>2. (s + 1) - 1 = s OBVIOUS
  <2> QED BY <1>1, <1>4, <2>1, <2>2 DEF ServedIndex, NextCursor, T!Answer
<1> QED BY <1>1, <1>2, <1>3, <1>4

(* Nothing has been played when the cassette is new.                       *)
LEMMA PlayInit == Init => PlayInv
BY EmptySeq DEF Init, PlayInv, CursorLaw, Played, Zero

(* Every step keeps the law that ties each cursor to the plays of its key. *)
LEMMA PlayStep == Inv /\ PlayInv /\ [Next]_vars => PlayInv'
<1> SUFFICES ASSUME Inv, PlayInv, [Next]_vars PROVE PlayInv' OBVIOUS
<1>0. TypeOK BY DEF Inv
<1>1. CASE IndexOne
  <2>1. /\ phase # "ready" /\ phase' = phase /\ policy' = policy /\ cursor' = cursor
        /\ served' = served /\ consumed' = consumed /\ pc' = pc
    BY <1>1 DEF IndexOne, table, client, history
  <2>2. \A k \in Keys : served[k] = <<>> BY <2>1 DEF PlayInv
  <2>3. keys' \in [Keys -> Seq(Positions)]
    <3>1. TypeOK' BY TypeStep
    <3> QED BY <3>1 DEF TypeOK
  <2>4. \A k \in Keys : Len(keys[k]) \in Nat /\ Len(keys'[k]) \in Nat
    BY <1>0, <2>3, LenProperties DEF TypeOK
  <2>5. \A k \in Keys : Len(served[k]) = 0 /\ DOMAIN served[k] = {}
    BY <2>2, EmptySeq
  <2>6. \A k \in Keys : CursorLaw(k)' BY <2>1, <2>4, <2>5 DEF PlayInv, CursorLaw
  <2>7. Played' = Played BY <2>1 DEF Played
  <2> QED BY <2>1, <2>4, <2>5, <2>6, <2>7 DEF PlayInv
<1>2. CASE IndexSkip \/ IndexFail \/ OpenDone \/ Verify
  BY <1>2 DEF IndexSkip, IndexFail, OpenDone, Verify, PlayInv, CursorLaw, Played,
              opened, table, client, history
<1>3. ASSUME NEW c \in Clients, Call(c) PROVE PlayInv'
  BY <1>0, <1>3 DEF Call, PlayInv, CursorLaw, Played, TypeOK, opened, table, history
<1>4. ASSUME NEW c \in Clients,
             \/ ContextDone(c) \/ KeyFails(c) \/ KeyDerived(c)
             \/ InjectFault(c) \/ Miss(c) \/ Deliver(c)
      PROVE  PlayInv'
  <2>1. UNCHANGED <<opened, cursor, consumed, served>>
    BY <1>4 DEF ContextDone, KeyFails, KeyDerived, InjectFault, Miss, Deliver, table, history
  <2>2. phase = "ready" 
    BY <1>4 DEF ContextDone, KeyFails, KeyDerived, InjectFault, Miss, Deliver, PlayInv
  <2> QED BY <2>1, <2>2 DEF PlayInv, CursorLaw, Played, opened
<1>5. ASSUME NEW c \in Clients, TakeRecorded(c) PROVE PlayInv'
  <2> DEFINE k == req[c].key
             idx == ServedIndex(keys[k], cursor[k], policy)
             s == Len(served[k])
  <2>1. k \in Keys /\ Hit(k) BY <1>5 DEF TakeRecorded, Take, Inv, Keyed
  <2>2. phase = "ready" BY <1>5 DEF TakeRecorded, PlayInv
  <2>3. /\ cursor' = [cursor EXCEPT ![k] = NextCursor(keys[k], cursor[k], policy)]
        /\ consumed' = consumed \cup {idx}
        /\ served' = [served EXCEPT ![k] = Append(served[k], idx)]
        /\ UNCHANGED opened
    BY <1>5, <1>0 DEF TakeRecorded, Take, TypeOK
  <2>4. /\ keys[k] \in Seq(Positions) /\ served[k] \in Seq(Positions) /\ s \in Nat
        /\ Len(keys[k]) \in Nat /\ cursor[k] \in Nat /\ policy \in Policies
        /\ DOMAIN served[k] = 1..s
    BY <1>0, <2>1, LenProperties DEF TypeOK
  <2>5. idx \in Positions BY <2>1, TakeFacts
  <2>6. /\ idx = T!Answer(keys[k], s + 1, policy)
        /\ NextCursor(keys[k], cursor[k], policy) =
                IF policy = "RepeatLast" /\ s + 1 > Len(keys[k]) THEN Len(keys[k]) ELSE s + 1
        /\ policy = "Error" => s + 1 <= Len(keys[k])
    <3>1. CanServe(keys[k], cursor[k], policy) BY <2>1 DEF Hit
    <3>2. cursor[k] = IF policy = "RepeatLast" /\ s > Len(keys[k]) THEN Len(keys[k]) ELSE s
      BY <2>1 DEF PlayInv, CursorLaw
    <3>3. policy = "Error" => s <= Len(keys[k]) BY <2>1 DEF PlayInv
    <3> HIDE DEF k, s, idx
    <3>4. ServedIndex(keys[k], cursor[k], policy) = T!Answer(keys[k], s + 1, policy)
      BY <2>4, <3>1, <3>2, <3>3, TakeIsPlay
    <3>5. NextCursor(keys[k], cursor[k], policy) =
                IF policy = "RepeatLast" /\ s + 1 > Len(keys[k]) THEN Len(keys[k]) ELSE s + 1
      BY <2>4, <3>1, <3>2, <3>3, TakeIsPlay
    <3>6. policy = "Error" => s + 1 <= Len(keys[k])
      BY <2>4, <3>1, <3>2, <3>3, TakeIsPlay
    <3> QED BY <3>4, <3>5, <3>6 DEF idx
  <2>7. /\ served'[k] = Append(served[k], idx)
        /\ Len(served'[k]) = s + 1 /\ DOMAIN served'[k] = 1..(s + 1)
        /\ \A n \in 1..s : served'[k][n] = served[k][n]
        /\ served'[k][s + 1] = idx
        /\ cursor'[k] = NextCursor(keys[k], cursor[k], policy)
    <3>1. served'[k] = Append(served[k], idx) BY <1>0, <2>1, <2>3 DEF TypeOK
    <3>2. cursor'[k] = NextCursor(keys[k], cursor[k], policy) BY <1>0, <2>1, <2>3 DEF TypeOK
    <3> HIDE DEF idx, k
    <3> QED BY <3>1, <3>2, <2>4, <2>5, AppendProperties
  <2>8. \A j \in Keys : j # k => served'[j] = served[j] /\ cursor'[j] = cursor[j]
    BY <1>0, <2>3 DEF TypeOK
  <2> HIDE DEF k, idx, s
  <2>9. ASSUME NEW j \in Keys PROVE CursorLaw(j)'
    <3>1. CASE j = k BY <3>1, <2>3, <2>4, <2>6, <2>7 DEF CursorLaw, opened
    <3>2. CASE j # k BY <3>2, <2>3, <2>8 DEF CursorLaw, PlayInv, opened
    <3> QED BY <3>1, <3>2
  <2>10. ASSUME NEW j \in Keys, policy = "Error" PROVE Len(served'[j]) <= Len(keys[j])
    <3>1. CASE j = k BY <3>1, <2>6, <2>7, <2>10
    <3>2. CASE j # k BY <3>2, <2>8, <2>10 DEF PlayInv
    <3> QED BY <3>1, <3>2
  <2>11. ASSUME NEW j \in Keys, NEW n \in DOMAIN served'[j]
         PROVE  served'[j][n] = T!Answer(keys[j], n, policy)
    <3>1. CASE j # k BY <3>1, <2>8 DEF PlayInv
    <3>2. CASE j = k /\ n = s + 1 BY <3>2, <2>6, <2>7
    <3>3. CASE j = k /\ n \in 1..s
      <4>1. served[k][n] = T!Answer(keys[k], n, policy) BY <3>3, <2>1, <2>4 DEF PlayInv
      <4> QED BY <4>1, <3>3, <2>7
    <3>4. j = k => n \in 1..(s + 1) BY <2>7
    <3> QED BY <3>1, <3>2, <3>3, <3>4, <2>4
  <2>12. Played' = Played \cup {idx}
    <3>1. ASSUME NEW x PROVE x \in Played' <=> x \in Played \/ x = idx
      <4>1. x \in Played' <=> \E j \in Keys : \E n \in DOMAIN served'[j] : served'[j][n] = x
        BY DEF Played
      <4>2. x \in Played <=> \E j \in Keys : \E n \in DOMAIN served[j] : served[j][n] = x
        BY DEF Played
      <4>3. (\E n \in DOMAIN served'[k] : served'[k][n] = x)
                <=> ((\E n \in DOMAIN served[k] : served[k][n] = x) \/ x = idx)
        <5>1. 1..(s + 1) = (1..s) \cup {s + 1} BY <2>4
        <5> QED BY <5>1, <2>4, <2>7
      <4> QED BY <4>1, <4>2, <4>3, <2>1, <2>8
    <3> QED BY <3>1
  <2>13. consumed' = Played' BY <2>3, <2>12 DEF PlayInv
  <2> QED BY <2>2, <2>3, <2>9, <2>10, <2>11, <2>13 DEF PlayInv, opened
<1>6. CASE UNCHANGED vars
  BY <1>6 DEF vars, PlayInv, CursorLaw, Played, opened, table, client, history
<1> QED BY <1>1, <1>2, <1>3, <1>4, <1>5, <1>6 DEF Next

(* Both invariants hold throughout.                                        *)
LEMMA PlayCorrect == Spec => [](Inv /\ PlayInv)
<1>1. Inv /\ [Next]_vars => Inv'
  BY TypeStep, KeyedStep, IndexStep, HandStep DEF Inv
<1> QED BY <1>1, InitInv, PlayInit, PlayStep, PTL DEF Spec
-----------------------------------------------------------------------------
(* A cassette is a tape: whatever the clients, the overlay, cancellations  *)
(* and misses do, the n-th recording handed out for a key is the one the   *)
(* tape and the exhaustion policy fix for n (IsTape is T!Spec).            *)
THEOREM ImplementsTape == Spec => IsTape
<1>1. Init => T!Init
  BY DEF Init, T!Init, T!Empty, Policies
<1>2. Inv /\ PlayInv /\ [Next]_vars => [T!Next]_T!vars
  <2> SUFFICES ASSUME Inv, PlayInv, [Next]_vars PROVE [T!Next]_T!vars OBVIOUS
  <2>0. TypeOK BY DEF Inv
  <2>1. CASE IndexOne
    <3> DEFINE K == IndexKey(file[pos])
    <3>1. pos \in 1..Len(file) BY <2>0, <2>1 DEF IndexOne, TypeOK
    <3>2. K \in Keys /\ pos \in Positions
      BY <2>0, <2>1, <3>1, FileFacts, IndexKeyType DEF IndexOne
    <3>3. \A n \in DOMAIN keys[K] : keys[K][n] < pos
      <4>1. \A n \in DOMAIN keys[K] : keys[K][n] \in 1..(pos - 1)
        BY <3>2 DEF Inv, IndexInv
      <4> QED BY <4>1, <3>1
    <3>4. T!Put(K, pos)
      BY <2>1, <3>3 DEF IndexOne, T!Put, history
    <3> HIDE DEF K
    <3> QED BY <3>2, <3>4 DEF T!Next
  <2>2. CASE OpenDone
    BY <2>2 DEF OpenDone, T!Next, T!Seal, history
  <2>3. CASE IndexSkip \/ IndexFail \/ Verify
    BY <2>3 DEF IndexSkip, IndexFail, Verify, T!vars, opened, history
  <2>4. ASSUME NEW c \in Clients,
               \/ Call(c) \/ ContextDone(c) \/ KeyFails(c) \/ KeyDerived(c)
               \/ InjectFault(c) \/ Miss(c) \/ Deliver(c)
        PROVE  UNCHANGED T!vars
    BY <2>4 DEF Call, ContextDone, KeyFails, KeyDerived, InjectFault, Miss, Deliver,
                T!vars, opened, history
  <2>5. ASSUME NEW c \in Clients, TakeRecorded(c) PROVE T!Next
    <3> DEFINE k == req[c].key
               s == Len(served[k])
    <3>1. k \in Keys /\ Hit(k) BY <2>5 DEF TakeRecorded, Take, Inv, Keyed
    <3>2. phase = "ready" BY <2>5 DEF TakeRecorded, PlayInv
    <3>3. /\ keys[k] \in Seq(Positions) /\ s \in Nat /\ cursor[k] \in Nat
          /\ policy \in Policies
      BY <2>0, <3>1, LenProperties DEF TypeOK
    <3>4. /\ served' = [served EXCEPT ![k] =
                            Append(served[k], ServedIndex(keys[k], cursor[k], policy))]
          /\ UNCHANGED <<opened, injected>>
      BY <2>5, <2>0 DEF TakeRecorded, Take, TypeOK
    <3>5. CanServe(keys[k], cursor[k], policy) BY <3>1 DEF Hit
    <3>6. cursor[k] = IF policy = "RepeatLast" /\ s > Len(keys[k]) THEN Len(keys[k]) ELSE s
      BY <3>1 DEF PlayInv, CursorLaw
    <3>7. policy = "Error" => s <= Len(keys[k]) BY <3>1 DEF PlayInv
    <3>8. /\ ServedIndex(keys[k], cursor[k], policy) = T!Answer(keys[k], s + 1, policy)
          /\ policy = "Error" => s + 1 <= Len(keys[k])
          /\ keys[k] # <<>>
      <4> HIDE DEF k, s
      <4> QED BY <3>3, <3>5, <3>6, <3>7, TakeIsPlay
    <3>9. ~ (s + 1 <= Len(keys[k]) /\ s + 1 > Len(keys[k]))
      BY <3>3, LenProperties
    <3>10. T!Play(k)
      BY <3>2, <3>4, <3>8, <3>9 DEF T!Play, opened
    <3> HIDE DEF k
    <3> QED BY <3>1, <3>10 DEF T!Next
  <2>6. CASE UNCHANGED vars
    BY <2>6 DEF vars, T!vars, opened, history
  <2> QED BY <2>1, <2>2, <2>3, <2>4, <2>5, <2>6 DEF Next
<1> QED BY <1>1, <1>2, PlayCorrect, PTL DEF Spec, IsTape, T!Spec

(* Under the default exhaustion policy no recording is handed out twice.   *)
AtMostOnce ==
    policy = "Error" =>
        \A j, k \in Keys : \A m \in DOMAIN served[j], n \in DOMAIN served[k] :
            served[j][m] = served[k][n] => j = k /\ m = n

(* However many clients race for a key, a recording is played only once    *)
(* before matchResponse reports exhaustion.                                *)
THEOREM ServedAtMostOnce == Spec => []AtMostOnce
<1>1. Inv /\ PlayInv => AtMostOnce
  <2> SUFFICES ASSUME Inv, PlayInv, policy = "Error",
                      NEW j \in Keys, NEW k \in Keys,
                      NEW m \in DOMAIN served[j], NEW n \in DOMAIN served[k],
                      served[j][m] = served[k][n]
               PROVE  j = k /\ m = n
    BY DEF AtMostOnce
  <2>1. ASSUME NEW i \in Keys, NEW x \in DOMAIN served[i]
        PROVE  /\ x \in DOMAIN keys[i] /\ x \in Nat
               /\ served[i][x] = keys[i][x]
    <3>1. /\ served[i] \in Seq(Positions) /\ keys[i] \in Seq(Positions)
          /\ Len(served[i]) <= Len(keys[i])
      BY DEF Inv, TypeOK, PlayInv
    <3>2. /\ x \in 1..Len(served[i]) /\ x \in Nat /\ x <= Len(keys[i])
          /\ x \in DOMAIN keys[i]
      BY <3>1, LenProperties
    <3>3. served[i][x] = T!Answer(keys[i], x, policy) BY DEF PlayInv
    <3> QED BY <3>2, <3>3 DEF T!Answer
  <2>2. IndexKey(file[keys[j][m]]) = j /\ IndexKey(file[keys[k][n]]) = k
    BY <2>1 DEF Inv, IndexInv
  <2>3. j = k BY <2>1, <2>2
  <2>4. keys[k][m] \in Nat /\ keys[k][n] \in Nat /\ keys[k][m] = keys[k][n]
    BY <2>1, <2>3 DEF Inv, IndexInv, TypeOK
  <2>5. ~ (m < n) /\ ~ (n < m) BY <2>1, <2>3, <2>4 DEF Inv, IndexInv
  <2> QED BY <2>1, <2>3, <2>5
<1> QED BY <1>1, PlayCorrect, PTL

(* VerifyError's list of unreplayed recordings is exact.                   *)
THEOREM VerifyCorrect == Spec => VerifyExact
<1>1. PlayInv /\ [Next]_vars =>
        [Verify =>
            \A i \in DOMAIN file :
                IF i \in missing'
                THEN i \notin Played
                ELSE \/ i \in Played
                     \/ ~Matchable(file[i])
                     \/ \E j \in DOMAIN faults :
                            Synthetic(faults[j]) /\ faults[j].attempt = 0]_vars
  BY DEF Verify, Unconsumed, PlayInv, ShadowsEveryAttempt
<1> QED BY <1>1, PlayCorrect, PTL DEF Spec, VerifyExact

(* A recorded reply is a recording of the request's own key.               *)
THEOREM OwnRecordingCorrect == Spec => []OwnRecording
<1>1. Init => OwnRecording BY DEF Init, OwnRecording, NoReply
<1>2. Inv /\ OwnRecording /\ [Next]_vars => OwnRecording'
  <2> SUFFICES ASSUME Inv, OwnRecording, [Next]_vars PROVE OwnRecording' OBVIOUS
  <2>0. TypeOK BY DEF Inv
  <2>1. CASE IndexOne \/ IndexSkip \/ IndexFail \/ OpenDone \/ Verify
    BY <2>1 DEF IndexOne, IndexSkip, IndexFail, OpenDone, Verify, OwnRecording, opened, client
  <2>2. ASSUME NEW c \in Clients,
               \/ Call(c) \/ ContextDone(c) \/ KeyFails(c) \/ KeyDerived(c)
               \/ InjectFault(c) \/ Miss(c) \/ TakeRecorded(c)
        PROVE  OwnRecording'
    <3>1. file' = file /\ faults' = faults
      BY <2>2 DEF Call, ContextDone, KeyFails, KeyDerived, InjectFault, Miss, TakeRecorded, opened
    <3>2. \A d \in Clients : d # c => pc'[d] = pc[d] /\ reply'[d] = reply[d] /\ req'[d] = req[d]
      BY <2>0, <2>2 DEF Call, ContextDone, KeyFails, KeyDerived, InjectFault, Miss, TakeRecorded,
                        Take, Return, TypeOK
    <3>3. pc'[c] # "idle" \/ reply'[c].kind # "recorded"
      <4>1. CASE Call(c) \/ KeyDerived(c) \/ TakeRecorded(c)
        BY <2>0, <4>1 DEF Call, KeyDerived, TakeRecorded, Take, TypeOK
      <4>2. CASE ContextDone(c) \/ KeyFails(c) BY <2>0, <4>2 DEF ContextDone, KeyFails, Return, TypeOK
      <4>3. CASE InjectFault(c) \/ Miss(c) BY <2>0, <4>3 DEF InjectFault, Miss, Return, TypeOK
      <4> QED BY <2>2, <4>1, <4>2, <4>3
    <3> QED BY <3>1, <3>2, <3>3 DEF OwnRecording
  <2>3. ASSUME NEW c \in Clients, Deliver(c) PROVE OwnRecording'
    <3> DEFINE i == hand[c].idx
               fr == ApplyModify(file[i].frames, hand[c].fault)
    <3>1. /\ i \in DOMAIN file /\ IndexKey(file[i]) = req[c].key
          /\ (req[c].kind = "mcp" \/ faults = <<>>) => hand[c].fault = NoFault
          /\ req[c].key \in Keys
      BY <2>3 DEF Deliver, Inv, HandInv, Keyed
    <3>2. file[i] \in Interactions /\ file[i].frames \in Nat
      BY <2>0, <3>1, FileFacts DEF Interactions
    <3>3. FiledKey(file[i]) = req[c].key
      BY <3>1, <3>2, FiledIsIndexKey
    <3>4. fr <= file[i].frames
      <4>1. hand[c].fault \in Fault BY <2>0 DEF TypeOK
      <4> QED BY <3>2, <4>1, ModifyFacts
    <3>5. (req[c].kind = "mcp" \/ faults = <<>>) => fr = file[i].frames
      BY <3>1, <3>2, NoModify
    <3>6. /\ reply' = [reply EXCEPT ![c] = [kind |-> "recorded", idx |-> i, frames |-> fr]]
          /\ file' = file /\ faults' = faults /\ req' = req
          /\ pc' = [pc EXCEPT ![c] = "idle"]
      BY <2>3 DEF Deliver, opened
    <3> HIDE DEF i, fr
    <3>7. /\ reply'[c].idx = i /\ reply'[c].frames = fr
          /\ \A d \in Clients : d # c => reply'[d] = reply[d] /\ pc'[d] = pc[d]
      BY <2>0, <3>6 DEF TypeOK
    <3> QED BY <3>1, <3>3, <3>4, <3>5, <3>6, <3>7 DEF OwnRecording
  <2>4. CASE UNCHANGED vars
    BY <2>4 DEF vars, OwnRecording, opened, client
  <2> QED BY <2>1, <2>2, <2>3, <2>4 DEF Next
<1> QED BY <1>1, <1>2, InvCorrect, PTL DEF Spec
-----------------------------------------------------------------------------
(* Faults and retries.                                                     *)

Ordinals == {faults[i].attempt : i \in {j \in DOMAIN faults : Synthetic(faults[j])}}

Passed(k) == {a \in Ordinals : a <= attempts[k]}

(* A key is refused at most once per ordinal its attempts have passed.     *)
FaultInv == 0 \notin Ordinals => \A k \in Keys : injected[k] <= Cardinality(Passed(k))

(* A synthetic fault is met only at an attempt its entry names.            *)
LEMMA LookupHit ==
    ASSUME NEW fs \in Seq(Fault), NEW m, NEW p, NEW a, Synthetic(Lookup(fs, m, p, a))
    PROVE  \E i \in DOMAIN fs :
              /\ Synthetic(fs[i])
              /\ fs[i].attempt \in {0, a}
<1> DEFINE hits == {i \in DOMAIN fs : Matches(fs[i], m, p, a)}
<1>1. hits # {} BY DEF Lookup, NoFault, Synthetic
<1>2. hits \in SUBSET Nat BY LenProperties DEF hits
<1>3. Min(hits) \in hits BY <1>1, <1>2, MinOfNat
<1>4. Lookup(fs, m, p, a) = fs[Min(hits)] BY <1>1 DEF Lookup
<1>5. Matches(fs[Min(hits)], m, p, a) /\ Min(hits) \in DOMAIN fs BY <1>3
<1> QED BY <1>4, <1>5 DEF Matches

(* The ordinals an overlay names are finitely many.                        *)
LEMMA PassedFinite ==
    ASSUME TypeOK
    PROVE  /\ IsFiniteSet(Ordinals) /\ Ordinals \subseteq Nat
           /\ \A S \in SUBSET Ordinals :
                 IsFiniteSet(S) /\ Cardinality(S) \in Nat
                 /\ Cardinality(S) <= Cardinality(Ordinals)
<1> DEFINE D == {j \in DOMAIN faults : Synthetic(faults[j])}
<1>1. faults \in Seq(Fault) /\ Len(faults) \in Nat /\ DOMAIN faults = 1..Len(faults)
  BY FileFacts, LenProperties
<1>2. IsFiniteSet(1..Len(faults)) BY <1>1, FS_Interval
<1>3. IsFiniteSet(D) BY <1>1, <1>2, FS_Subset
<1> DEFINE f == [i \in D |-> faults[i].attempt]
<1>4. f \in Surjection(D, Ordinals) BY DEF Surjection, Ordinals
<1>5. IsFiniteSet(Ordinals) BY <1>3, <1>4, FS_Surjection
<1>6. Ordinals \subseteq Nat
  <2>1. \A i \in DOMAIN faults : faults[i] \in Fault BY <1>1, ElementOfSeq
  <2> QED BY <2>1 DEF Ordinals, Fault
<1> QED BY <1>5, <1>6, FS_Subset, FS_CardinalityType

(* Every step keeps the count of refusals behind the ordinals passed.      *)
LEMMA FaultStep == Inv /\ FaultInv /\ [Next]_vars => FaultInv'
<1> SUFFICES ASSUME Inv, FaultInv, [Next]_vars PROVE FaultInv' OBVIOUS
<1>0. TypeOK BY DEF Inv
<1>1. ASSUME faults' = faults, 0 \notin Ordinals,
             injected' = injected,
             \A k \in Keys : attempts'[k] \in Nat /\ attempts[k] <= attempts'[k]
      PROVE  FaultInv'
  <2>1. Ordinals' = Ordinals BY <1>1 DEF Ordinals
  <2>2. ASSUME NEW k \in Keys PROVE injected'[k] <= Cardinality(Passed(k)')
    <3>1. Passed(k) \subseteq Passed(k)' /\ Passed(k)' \in SUBSET Ordinals
      BY <1>0, <1>1, <2>1, PassedFinite DEF Passed, TypeOK
    <3>2. /\ IsFiniteSet(Passed(k)') /\ Cardinality(Passed(k)') \in Nat
          /\ Cardinality(Passed(k)) \in Nat
      BY <1>0, <3>1, PassedFinite
    <3>3. Cardinality(Passed(k)) <= Cardinality(Passed(k)')
      BY <3>1, <3>2, FS_Subset
    <3>4. injected[k] <= Cardinality(Passed(k)) /\ injected[k] \in Nat
      BY <1>0, <1>1 DEF FaultInv, TypeOK
    <3> QED BY <1>1, <3>2, <3>3, <3>4
  <2> QED BY <2>2 DEF FaultInv
<1>2. CASE 0 \in Ordinals
  <2>1. faults' = faults
    BY DEF Next, vars, opened, IndexOne, IndexSkip, IndexFail, OpenDone, Verify, Call, ContextDone,
           KeyFails, KeyDerived, InjectFault, TakeRecorded, Miss, Deliver
  <2> QED BY <1>2, <2>1 DEF FaultInv, Ordinals
<1>3. CASE /\ 0 \notin Ordinals
           /\ IndexOne \/ IndexSkip \/ IndexFail \/ OpenDone \/ Verify \/ UNCHANGED vars
  <2>1. UNCHANGED <<faults, attempts, injected>>
    BY <1>3 DEF IndexOne, IndexSkip, IndexFail, OpenDone, Verify, vars, opened, table, history
  <2>2. \A k \in Keys : attempts[k] \in Nat /\ attempts[k] <= attempts[k]
    BY <1>0 DEF TypeOK
  <2> QED BY <1>1, <1>3, <2>1, <2>2
<1>4. ASSUME 0 \notin Ordinals, NEW c \in Clients,
             Call(c) \/ ContextDone(c) \/ KeyFails(c) \/ KeyDerived(c) \/ Deliver(c)
      PROVE  FaultInv'
  <2>1. UNCHANGED <<faults, attempts, injected>>
    BY <1>4 DEF Call, ContextDone, KeyFails, KeyDerived, Deliver, opened, table, history
  <2>2. \A k \in Keys : attempts[k] \in Nat /\ attempts[k] <= attempts[k]
    BY <1>0 DEF TypeOK
  <2> QED BY <1>1, <1>4, <2>1, <2>2
<1>5. ASSUME 0 \notin Ordinals, NEW c \in Clients, TakeRecorded(c) \/ Miss(c)
      PROVE  FaultInv'
  <2>1. /\ UNCHANGED <<faults, injected>> /\ CountAttempt(c)
        /\ req[c].key \in Keys
    BY <1>5 DEF TakeRecorded, Miss, opened, history, Inv, Keyed
  <2>2. \A k \in Keys : attempts'[k] \in Nat /\ attempts[k] <= attempts'[k]
    BY <1>0, <2>1 DEF CountAttempt, TypeOK
  <2> QED BY <1>1, <1>5, <2>1, <2>2
<1>6. ASSUME 0 \notin Ordinals, NEW c \in Clients, InjectFault(c) PROVE FaultInv'
  <2> DEFINE k == req[c].key
             a == attempts[k] + 1
  <2>1. /\ faults' = faults /\ k \in Keys /\ Synthetic(Overlay(c)) /\ CountAttempt(c)
        /\ injected' = [injected EXCEPT ![k] = injected[k] + 1]
    BY <1>0, <1>6 DEF InjectFault, opened, Inv, Keyed, TypeOK
  <2>2. Counted(c) BY <2>1 DEF Overlay, NoFault, Synthetic
  <2>3. attempts' = [attempts EXCEPT ![k] = a] /\ a \in Nat /\ attempts[k] \in Nat
    BY <1>0, <2>1, <2>2 DEF CountAttempt, TypeOK
  <2>4. Synthetic(Lookup(faults, req[c].method, req[c].path, a))
    BY <2>1, <2>2 DEF Overlay, Attempt
  <2>5. faults \in Seq(Fault) BY <1>0, FileFacts
  <2> HIDE DEF a
  <2>6. PICK i \in DOMAIN faults : Synthetic(faults[i]) /\ faults[i].attempt \in {0, a}
    BY <2>4, <2>5, LookupHit
  <2>7. a \in Ordinals BY <1>6, <2>6 DEF Ordinals
  <2>8. Ordinals' = Ordinals BY <2>1 DEF Ordinals
  <2> HIDE DEF k
  <2>9. ASSUME NEW j \in Keys PROVE injected'[j] <= Cardinality(Passed(j)')
    <3>0. injected[j] <= Cardinality(Passed(j)) /\ injected[j] \in Nat
      BY <1>0, <1>6 DEF FaultInv, TypeOK
    <3>1. CASE j # k
      <4>1. Passed(j)' = Passed(j) BY <1>0, <2>3, <2>8, <3>1 DEF Passed, TypeOK
      <4>2. injected'[j] = injected[j] BY <1>0, <2>1, <3>1 DEF TypeOK
      <4> QED BY <3>0, <4>1, <4>2
    <3>2. CASE j = k
      <4>1. attempts'[j] = a BY <1>0, <2>3, <3>2 DEF TypeOK
      <4>2. a = attempts[j] + 1 /\ attempts[j] \in Nat BY <2>3, <3>2 DEF a
      <4>3. Passed(j)' = Passed(j) \cup {a} /\ a \notin Passed(j)
        <5>1. Ordinals \subseteq Nat BY <1>0, PassedFinite
        <5>2. Passed(j)' = {o \in Ordinals : o <= a} BY <2>8, <4>1 DEF Passed
        <5>3. \A o \in Ordinals : o <= a <=> (o <= attempts[j] \/ o = a)
          BY <5>1, <4>2
        <5>4. a \notin Passed(j) BY <4>2 DEF Passed
        <5>5. \A o : o \in Passed(j)' <=> o \in Passed(j) \cup {a}
          BY <5>2, <5>3, <2>7 DEF Passed
        <5> QED BY <5>4, <5>5
      <4>4. IsFiniteSet(Passed(j)) /\ Cardinality(Passed(j)) \in Nat
        BY <1>0, PassedFinite DEF Passed
      <4>5. Cardinality(Passed(j)') = Cardinality(Passed(j)) + 1
        BY <4>3, <4>4, FS_AddElement
      <4>6. injected'[j] = injected[j] + 1 BY <1>0, <2>1, <3>2 DEF TypeOK
      <4>7. injected[j] <= Cardinality(Passed(j)) /\ injected[j] \in Nat BY <3>0, <3>2
      <4>8. injected'[j] <= Cardinality(Passed(j)') BY <4>4, <4>5, <4>6, <4>7
      <4> QED BY <4>8
    <3> QED BY <3>1, <3>2
  <2> QED BY <2>9 DEF FaultInv
<1> QED BY <1>2, <1>3, <1>4, <1>5, <1>6 DEF Next

(* Bounded synthetic faults end: retries reach past them.                  *)
THEOREM RetriesCorrect == Spec => []RetriesOutlastFaults
<1>1. Init => FaultInv
  <2> SUFFICES ASSUME Init PROVE FaultInv OBVIOUS
  <2>1. TypeOK BY InitInv DEF Inv
  <2>2. ASSUME NEW k \in Keys PROVE injected[k] <= Cardinality(Passed(k))
    <3>1. Cardinality(Passed(k)) \in Nat BY <2>1, PassedFinite DEF Passed
    <3>2. injected[k] = 0 BY DEF Init, Zero
    <3> QED BY <3>1, <3>2
  <2> QED BY <2>2 DEF FaultInv
<1>2. Inv /\ FaultInv => RetriesOutlastFaults
  <2> SUFFICES ASSUME Inv, FaultInv, 0 \notin Ordinals, NEW k \in Keys
               PROVE  injected[k] <= Cardinality(Ordinals)
    BY DEF RetriesOutlastFaults, Ordinals
  <2>1. TypeOK /\ injected[k] \in Nat BY DEF Inv, TypeOK
  <2>2. /\ Cardinality(Passed(k)) \in Nat /\ Cardinality(Ordinals) \in Nat
        /\ Cardinality(Passed(k)) <= Cardinality(Ordinals)
    BY <2>1, PassedFinite DEF Passed
  <2>3. injected[k] <= Cardinality(Passed(k)) BY DEF FaultInv
  <2> QED BY <2>1, <2>2, <2>3
<1> QED BY <1>1, <1>2, FaultStep, InvCorrect, PTL DEF Spec
===============================================================================
