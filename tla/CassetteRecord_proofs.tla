------------------------ MODULE CassetteRecord_proofs ------------------------
(***************************************************************************)
(* The theorems of CassetteRecord, for every set of calls and every set of *)
(* server answers.  The inductive invariant follows one call: where its    *)
(* interaction is and what it holds (PhaseInv), how far its reader, its    *)
(* closer and finalize have come relative to each other (StreamInv), and   *)
(* what finalize has stored of the buffer it copied (StoreInv).  A step of *)
(* one call leaves the interactions of the others alone because a slot     *)
(* names the call it was kept for.                                         *)
(***************************************************************************)
EXTENDS CassetteRecord, TLAPS, SequenceTheorems

(* What an interaction is.                                                 *)
Record == [call : Calls, body : Nat, err : BOOLEAN, secret : BOOLEAN]

It(c) == mem[slot[c]]

PhaseInv(c) ==
    /\ slot[c] # 0 => It(c).call = c /\ net[c] \in Responses
    /\ pc[c] \in {"reading", "streaming", "returned"} => slot[c] # 0
    /\ pc[c] \in {"idle", "sent"} => slot[c] = 0
    /\ pc[c] # "streaming" => taken[c] = 0 /\ buf[c] = 0 /\ rd[c] = "idle"
                              /\ cl[c] = "no" /\ once[c] = "no"
    /\ pc[c] = "reading" => It(c).body = 0
    /\ pc[c] = "returned" => It(c).body = net[c].chunks
    /\ slot[c] # 0 => (net[c].streaming <=> pc[c] = "streaming")

StreamInv(c) ==
    pc[c] = "streaming" =>
        /\ taken[c] <= net[c].arrive
        /\ taken[c] = IF rd[c] \in {"tee", "teeEOF"} THEN buf[c] + 1 ELSE buf[c]
        /\ rd[c] \in {"teeEOF", "eof", "ended"} => taken[c] = net[c].chunks
        /\ once[c] # "no" => cl[c] # "no" \/ rd[c] \in {"eof", "ended"}
        /\ rd[c] = "ended" => once[c] = "done"
        /\ cl[c] = "done" => once[c] = "done"

StoreInv(c) ==
    pc[c] = "streaming" =>
        /\ once[c] # "done" => It(c).body = 0 /\ ~It(c).err
        /\ once[c] = "done" =>
              /\ It(c).body = IF Undecodable(c, snap[c]) THEN 0 ELSE snap[c]
              /\ It(c).err = Undecodable(c, snap[c])
        /\ once[c] = "stored" => Undecodable(c, snap[c])
        /\ once[c] # "no" => snap[c] \in {taken[c], taken[c] - 1}
        /\ once[c] # "no" /\ cl[c] = "no" => snap[c] = taken[c]

Inv == TypeOK /\ \A c \in Calls : PhaseInv(c) /\ StreamInv(c) /\ StoreInv(c)

(* A response's lengths are naturals, and what arrives is no more than     *)
(* what was meant.                                                         *)
LEMMA NetFacts ==
    ASSUME NEW r \in Responses
    PROVE  /\ r.chunks \in Nat /\ r.arrive \in Nat /\ r.arrive <= r.chunks
           /\ r.streaming \in BOOLEAN /\ r.gzip \in BOOLEAN /\ r.secret \in BOOLEAN
BY ResponsesAssumption

(* A call that has a slot has it in the file, and no two share one.        *)
LEMMA SlotFacts ==
    ASSUME Inv, NEW c \in Calls, slot[c] # 0
    PROVE  /\ slot[c] \in DOMAIN mem
           /\ It(c) \in Record
           /\ net[c] \in Responses
           /\ \A d \in Calls : slot[d] = slot[c] => d = c
<1>1. slot[c] \in 0..Len(mem) /\ Len(mem) \in Nat BY LenProperties DEF Inv, TypeOK, Slots
<1>2. slot[c] \in 1..Len(mem) BY <1>1
<1>3. slot[c] \in DOMAIN mem BY <1>2, LenProperties DEF Inv, TypeOK
<1>4. It(c) \in Record BY <1>2, ElementOfSeq DEF Inv, TypeOK, It, Record
<1>5. ASSUME NEW d \in Calls, slot[d] = slot[c] PROVE d = c
  BY <1>5 DEF Inv, PhaseInv, It
<1>6. net[c] \in Responses BY DEF Inv, PhaseInv
<1> QED BY <1>3, <1>4, <1>5, <1>6

(* The invariant of a call outlives a step that touches neither the call   *)
(* nor its interaction.                                                    *)
LEMMA Frame ==
    ASSUME Inv, NEW d \in Calls,
           net'[d] = net[d], pc'[d] = pc[d], slot'[d] = slot[d], taken'[d] = taken[d],
           buf'[d] = buf[d], rd'[d] = rd[d], cl'[d] = cl[d], once'[d] = once[d],
           snap'[d] = snap[d],
           slot[d] # 0 => mem'[slot[d]] = mem[slot[d]]
    PROVE  (PhaseInv(d) /\ StreamInv(d) /\ StoreInv(d))'
<1>1. PhaseInv(d) /\ StreamInv(d) /\ StoreInv(d) BY DEF Inv
<1>2. slot[d] # 0 => It(d)' = It(d) BY DEF It
<1>3. pc[d] = "streaming" => slot[d] # 0 BY <1>1 DEF PhaseInv
<1>4. PhaseInv(d)' BY <1>1, <1>2 DEF PhaseInv
<1>5. StreamInv(d)' BY <1>1 DEF StreamInv
<1>6. StoreInv(d)' BY <1>1, <1>2, <1>3 DEF StoreInv, Undecodable
<1> QED BY <1>4, <1>5, <1>6

(* A step that changes nothing of the other calls and keeps their          *)
(* interactions preserves the invariant if it does so for its own call.    *)
Others(c) ==
    \A d \in Calls \ {c} :
        /\ net'[d] = net[d] /\ pc'[d] = pc[d] /\ slot'[d] = slot[d]
        /\ taken'[d] = taken[d] /\ buf'[d] = buf[d] /\ rd'[d] = rd[d]
        /\ cl'[d] = cl[d] /\ once'[d] = once[d] /\ snap'[d] = snap[d]

(* The file grows by one complete envelope.                                *)
LEMMA AppendFacts ==
    ASSUME Inv, NEW r \in Record, mem' = Append(mem, r)
    PROVE  /\ mem' \in Seq(Record)
           /\ Len(mem') = Len(mem) + 1 /\ Len(mem) \in Nat
           /\ mem'[Len(mem) + 1] = r
           /\ \A i \in DOMAIN mem : i \in DOMAIN mem' /\ mem'[i] = mem[i]
           /\ \A c \in Calls : slot[c] # 0 => mem'[slot[c]] = mem[slot[c]]
<1>1. mem \in Seq(Record) BY DEF Inv, TypeOK, Record
<1>2. /\ mem' \in Seq(Record) /\ Len(mem') = Len(mem) + 1
      /\ mem'[Len(mem) + 1] = r
      /\ \A i \in 1..Len(mem) : mem'[i] = mem[i]
  BY <1>1, AppendProperties
<1>3. DOMAIN mem = 1..Len(mem) /\ Len(mem) \in Nat /\ DOMAIN mem' = 1..Len(mem')
  BY <1>1, <1>2, LenProperties
<1>4. \A i \in DOMAIN mem : i \in DOMAIN mem' /\ mem'[i] = mem[i]
  <2>1. \A i \in 1..Len(mem) : i \in 1..(Len(mem) + 1) BY <1>3
  <2> QED BY <1>2, <1>3, <2>1
<1>5. \A c \in Calls : slot[c] # 0 => mem'[slot[c]] = mem[slot[c]]
  BY <1>2, <1>3, SlotFacts
<1> QED BY <1>2, <1>3, <1>4, <1>5

(* An interaction is rewritten in its own place.                           *)
LEMMA RewriteFacts ==
    ASSUME Inv, NEW c \in Calls, slot[c] # 0, NEW r \in Record,
           mem' = [mem EXCEPT ![slot[c]] = r]
    PROVE  /\ mem' \in Seq(Record)
           /\ Len(mem') = Len(mem) /\ DOMAIN mem' = DOMAIN mem
           /\ mem'[slot[c]] = r
           /\ \A i \in DOMAIN mem : i # slot[c] => mem'[i] = mem[i]
           /\ \A d \in Calls \ {c} : slot[d] # 0 => mem'[slot[d]] = mem[slot[d]]
<1>1. mem \in Seq(Record) BY DEF Inv, TypeOK, Record
<1>2. slot[c] \in DOMAIN mem /\ DOMAIN mem = 1..Len(mem) BY <1>1, SlotFacts, LenProperties
<1>3. mem' \in Seq(Record) /\ Len(mem') = Len(mem) BY <1>1, <1>2, ExceptSeq
<1>4. DOMAIN mem' = DOMAIN mem BY <1>1, <1>3, LenProperties
<1>5. \A d \in Calls \ {c} : slot[d] # 0 => slot[d] # slot[c] /\ slot[d] \in DOMAIN mem
  BY SlotFacts
<1> QED BY <1>1, <1>2, <1>3, <1>4, <1>5

(* The two fields that finalize writes.                                    *)
LEMMA BodyFacts ==
    ASSUME Inv, NEW c \in Calls, slot[c] # 0, NEW n \in Nat, SetBody(c, n)
    PROVE  LET r == [It(c) EXCEPT !.body = n]
           IN  /\ r \in Record /\ mem' = [mem EXCEPT ![slot[c]] = r]
               /\ r.body = n /\ r.call = It(c).call /\ r.err = It(c).err
               /\ r.secret = It(c).secret
<1>1. It(c) \in Record BY SlotFacts
<1> QED BY <1>1 DEF SetBody, It, Record

-----------------------------------------------------------------------------
(* Nothing is recorded at first.                                           *)
LEMMA InitInv == Init => Inv
<1> SUFFICES ASSUME Init PROVE Inv OBVIOUS
<1>1. TypeOK
  <2>1. mem \in Seq(Record) /\ disk \in Seq(Record) BY EmptySeq DEF Init
  <2>2. 0 \in Slots BY <2>1, LenProperties DEF Slots
  <2> QED BY <2>1, <2>2 DEF Init, TypeOK, Record
<1>2. ASSUME NEW c \in Calls PROVE PhaseInv(c) /\ StreamInv(c) /\ StoreInv(c)
  BY DEF Init, PhaseInv, StreamInv, StoreInv
<1> QED BY <1>1, <1>2 DEF Inv

(* A step of one call.                                                     *)
LEMMA StepOf ==
    ASSUME Inv, NEW c \in Calls, TypeOK', Others(c),
           \A d \in Calls \ {c} : slot[d] # 0 => mem'[slot[d]] = mem[slot[d]],
           (PhaseInv(c) /\ StreamInv(c) /\ StoreInv(c))'
    PROVE  Inv'
<1>1. ASSUME NEW d \in Calls \ {c} PROVE (PhaseInv(d) /\ StreamInv(d) /\ StoreInv(d))'
  BY Frame DEF Others
<1> QED BY <1>1 DEF Inv

(* Reading, teeing and closing leave the file as it is.                    *)
LEMMA ReaderStep ==
    ASSUME Inv, NEW c \in Calls,
           \/ ReadChunk(c) \/ Tee(c) \/ ReadEnd(c) \/ Close(c)
           \/ EOFReturns(c) \/ CloseReturns(c) \/ FinalizeCopy(c)
    PROVE  Inv'
<1>0. /\ TypeOK /\ PhaseInv(c) /\ StreamInv(c) /\ StoreInv(c)
  BY DEF Inv
<1>1. pc[c] = "streaming" /\ slot[c] # 0 /\ UNCHANGED <<mem, disk, saved, raw, net, pc, slot>>
  BY <1>0 DEF ReadChunk, Tee, ReadEnd, Close, EOFReturns, CloseReturns, FinalizeCopy,
             Finalizing, Open, PhaseInv
<1>2. net[c] \in Responses /\ net[c].chunks \in Nat /\ net[c].arrive \in Nat
      /\ net[c].arrive <= net[c].chunks
  BY <1>1, SlotFacts, NetFacts
<1>3. taken[c] \in Nat /\ buf[c] \in Nat /\ snap[c] \in Nat BY <1>0 DEF TypeOK
<1>4. TypeOK' /\ Others(c) /\ PhaseInv(c)' /\ StreamInv(c)' /\ StoreInv(c)'
  <2>1. CASE ReadChunk(c)
    <3>1. taken[c] + 1 \in Nat BY <1>3
    <3>2. TypeOK' /\ Others(c) BY <1>0, <1>1, <2>1, <3>1 DEF ReadChunk, TypeOK, Others, Slots
    <3>3. PhaseInv(c)' BY <1>0, <1>1, <2>1 DEF ReadChunk, PhaseInv, It, Open, TypeOK
    <3>4. StreamInv(c)'
      BY <1>0, <1>1, <1>2, <1>3, <2>1 DEF ReadChunk, StreamInv, Whole, Open, TypeOK
    <3>5. StoreInv(c)'
      BY <1>0, <1>1, <1>3, <2>1 DEF ReadChunk, StoreInv, StreamInv, Undecodable, It, Open, TypeOK
    <3> QED BY <3>2, <3>3, <3>4, <3>5
  <2>2. CASE Tee(c)
    <3>1. buf[c] + 1 \in Nat BY <1>3
    <3>2. TypeOK' /\ Others(c) BY <1>0, <1>1, <2>2, <3>1 DEF Tee, TypeOK, Others, Slots
    <3>3. PhaseInv(c)' BY <1>0, <1>1, <2>2 DEF Tee, PhaseInv, It, TypeOK
    <3>4. StreamInv(c)' BY <1>0, <1>1, <1>2, <1>3, <2>2 DEF Tee, StreamInv, TypeOK
    <3>5. StoreInv(c)'
      BY <1>0, <1>1, <1>3, <2>2 DEF Tee, StoreInv, StreamInv, Undecodable, It, TypeOK
    <3> QED BY <3>2, <3>3, <3>4, <3>5
  <2>3. CASE ReadEnd(c)
    <3>2. TypeOK' /\ Others(c) BY <1>0, <1>1, <2>3 DEF ReadEnd, TypeOK, Others, Slots
    <3>3. PhaseInv(c)' BY <1>0, <1>1, <2>3 DEF ReadEnd, PhaseInv, It, TypeOK
    <3>4. StreamInv(c)' BY <1>0, <1>1, <1>2, <1>3, <2>3 DEF ReadEnd, StreamInv, Whole, TypeOK
    <3>5. StoreInv(c)' BY <1>0, <1>1, <1>3, <2>3 DEF ReadEnd, StoreInv, Undecodable, It, TypeOK
    <3> QED BY <3>2, <3>3, <3>4, <3>5
  <2>4. CASE Close(c)
    <3>2. TypeOK' /\ Others(c) BY <1>0, <1>1, <2>4 DEF Close, TypeOK, Others, Slots
    <3>3. PhaseInv(c)' BY <1>0, <1>1, <2>4 DEF Close, PhaseInv, It, TypeOK
    <3>4. StreamInv(c)' BY <1>0, <1>1, <1>2, <1>3, <2>4 DEF Close, StreamInv, TypeOK
    <3>5. StoreInv(c)' BY <1>0, <1>1, <1>3, <2>4 DEF Close, StoreInv, Undecodable, It, TypeOK
    <3> QED BY <3>2, <3>3, <3>4, <3>5
  <2>5. CASE EOFReturns(c)
    <3>2. TypeOK' /\ Others(c) BY <1>0, <1>1, <2>5 DEF EOFReturns, TypeOK, Others, Slots
    <3>3. PhaseInv(c)' BY <1>0, <1>1, <2>5 DEF EOFReturns, PhaseInv, It, TypeOK
    <3>4. StreamInv(c)' BY <1>0, <1>1, <1>2, <1>3, <2>5 DEF EOFReturns, StreamInv, TypeOK
    <3>5. StoreInv(c)' BY <1>0, <1>1, <1>3, <2>5 DEF EOFReturns, StoreInv, Undecodable, It, TypeOK
    <3> QED BY <3>2, <3>3, <3>4, <3>5
  <2>6. CASE CloseReturns(c)
    <3>2. TypeOK' /\ Others(c) BY <1>0, <1>1, <2>6 DEF CloseReturns, TypeOK, Others, Slots
    <3>3. PhaseInv(c)' BY <1>0, <1>1, <2>6 DEF CloseReturns, PhaseInv, It, TypeOK
    <3>4. StreamInv(c)' BY <1>0, <1>1, <1>2, <1>3, <2>6 DEF CloseReturns, StreamInv, TypeOK
    <3>5. StoreInv(c)'
      BY <1>0, <1>1, <1>3, <2>6 DEF CloseReturns, StoreInv, Undecodable, It, TypeOK
    <3> QED BY <3>2, <3>3, <3>4, <3>5
  <2>7. CASE FinalizeCopy(c)
    <3>2. TypeOK' /\ Others(c) BY <1>0, <1>1, <2>7 DEF FinalizeCopy, TypeOK, Others, Slots
    <3>3. PhaseInv(c)' BY <1>0, <1>1, <2>7 DEF FinalizeCopy, PhaseInv, It, TypeOK
    <3>4. StreamInv(c)'
      BY <1>0, <1>1, <1>2, <1>3, <2>7 DEF FinalizeCopy, Finalizing, StreamInv, TypeOK
    <3>5. StoreInv(c)'
      <4>1. /\ once[c] = "no" /\ once'[c] = "copied" /\ snap'[c] = buf[c]
            /\ taken'[c] = taken[c] /\ cl'[c] = cl[c]
        BY <1>0, <2>7 DEF FinalizeCopy, TypeOK
      <4>2. buf[c] \in {taken[c], taken[c] - 1} BY <1>0, <1>1, <1>3 DEF StreamInv
      <4>3. cl[c] = "no" => buf[c] = taken[c]
        BY <1>0, <1>1, <2>7 DEF FinalizeCopy, Finalizing, StreamInv
      <4>4. It(c).body = 0 /\ ~It(c).err /\ It(c)' = It(c)
        BY <1>0, <1>1, <4>1 DEF StoreInv, It
      <4> QED BY <4>1, <4>2, <4>3, <4>4 DEF StoreInv
    <3> QED BY <3>2, <3>3, <3>4, <3>5
  <2> QED BY <2>1, <2>2, <2>3, <2>4, <2>5, <2>6, <2>7
<1> QED BY <1>1, <1>4, StepOf

(* finalize writes the interaction of its own call.                        *)
LEMMA FinalizeStep ==
    ASSUME Inv, NEW c \in Calls, FinalizeStore(c) \/ FinalizeError(c)
    PROVE  Inv'
<1>0. /\ TypeOK /\ PhaseInv(c) /\ StreamInv(c) /\ StoreInv(c)
  BY DEF Inv
<1>1. /\ pc[c] = "streaming" /\ slot[c] # 0 /\ once[c] \in {"copied", "stored"}
      /\ UNCHANGED <<disk, saved, raw, net, pc, slot, taken, buf, rd, cl, snap>>
  BY <1>0 DEF FinalizeStore, FinalizeError, PhaseInv
<1>2. snap[c] \in Nat /\ It(c) \in Record BY <1>0, <1>1, SlotFacts DEF TypeOK
<1> DEFINE kept == IF Undecodable(c, snap[c]) THEN 0 ELSE snap[c]
<1>3. \E r \in Record :
        /\ mem' = [mem EXCEPT ![slot[c]] = r] /\ r.call = It(c).call
        /\ FinalizeStore(c) => r.body = kept /\ r.err = It(c).err
        /\ ~FinalizeStore(c) => r.body = It(c).body /\ r.err = TRUE
  <2>1. CASE FinalizeStore(c)
    <3>1. kept \in Nat BY <1>2
    <3>2. SetBody(c, kept) BY <2>1 DEF FinalizeStore
    <3> DEFINE r == [It(c) EXCEPT !.body = kept]
    <3> HIDE DEF kept
    <3>3. /\ r \in Record /\ mem' = [mem EXCEPT ![slot[c]] = r]
          /\ r.body = kept /\ r.call = It(c).call /\ r.err = It(c).err
      BY <1>1, <3>1, <3>2, BodyFacts
    <3> HIDE DEF r
    <3> QED BY <2>1, <3>3
  <2>2. CASE ~FinalizeStore(c)
    <3>1. mem' = [mem EXCEPT ![slot[c]] = [It(c) EXCEPT !.err = TRUE]]
      BY <2>2 DEF FinalizeError, It
    <3>2. [It(c) EXCEPT !.err = TRUE] \in Record BY <1>2 DEF Record
    <3> QED BY <1>2, <2>2, <3>1, <3>2 DEF Record
  <2> QED BY <2>1, <2>2
<1>4. PICK r \in Record :
        /\ mem' = [mem EXCEPT ![slot[c]] = r] /\ r.call = It(c).call
        /\ FinalizeStore(c) => r.body = kept /\ r.err = It(c).err
        /\ ~FinalizeStore(c) => r.body = It(c).body /\ r.err = TRUE
  BY <1>3
<1>5. /\ mem' \in Seq(Record) /\ Len(mem') = Len(mem) /\ It(c)' = r
      /\ \A d \in Calls \ {c} : slot[d] # 0 => mem'[slot[d]] = mem[slot[d]]
  <2>1. /\ mem' \in Seq(Record) /\ Len(mem') = Len(mem) /\ mem'[slot[c]] = r
        /\ \A d \in Calls \ {c} : slot[d] # 0 => mem'[slot[d]] = mem[slot[d]]
    BY <1>1, <1>4, RewriteFacts
  <2> QED BY <1>1, <2>1 DEF It
<1>6. TypeOK' /\ Others(c)
  <2>1. once' \in [Calls -> {"no", "copied", "stored", "done"}]
        /\ \A d \in Calls \ {c} : once'[d] = once[d]
    BY <1>0 DEF TypeOK, FinalizeStore, FinalizeError
  <2> QED BY <1>0, <1>1, <1>5, <2>1 DEF TypeOK, Others, Slots, Record
<1>7. PhaseInv(c)'
  BY <1>0, <1>1, <1>4, <1>5 DEF PhaseInv, It
<1>8. StreamInv(c)'
  <2>1. once'[c] \in {"stored", "done"}
    BY <1>0 DEF FinalizeStore, FinalizeError, TypeOK
  <2> QED BY <1>0, <1>1, <2>1 DEF StreamInv
<1>9. StoreInv(c)'
  <2>1. CASE FinalizeStore(c)
    <3>1. /\ once[c] = "copied"
          /\ once'[c] = IF Undecodable(c, snap[c]) THEN "stored" ELSE "done"
      BY <1>0, <2>1 DEF FinalizeStore, TypeOK
    <3>2. It(c)'.body = kept /\ ~It(c)'.err
      BY <1>0, <1>1, <1>4, <1>5, <2>1, <3>1 DEF StoreInv
    <3>3. It(c)'.err \in BOOLEAN BY <1>4, <1>5 DEF Record
    <3>4. Undecodable(c, snap[c])' = Undecodable(c, snap[c]) BY <1>1 DEF Undecodable
    <3>5. Undecodable(c, snap[c]) \in BOOLEAN
      BY <1>1, SlotFacts, NetFacts DEF Undecodable
    <3> QED BY <1>0, <1>1, <3>1, <3>2, <3>3, <3>4, <3>5 DEF StoreInv
  <2>2. CASE ~FinalizeStore(c)
    <3>1. once[c] = "stored" /\ once'[c] = "done" BY <1>0, <2>2 DEF FinalizeError, TypeOK
    <3>2. It(c)'.body = 0 /\ It(c)'.err = TRUE
      BY <1>0, <1>1, <1>4, <1>5, <2>2, <3>1 DEF StoreInv
    <3>3. Undecodable(c, snap[c]) BY <1>0, <1>1, <3>1 DEF StoreInv
    <3>4. Undecodable(c, snap[c])' = TRUE
      BY <1>1, <3>3, SlotFacts, NetFacts DEF Undecodable
    <3> QED BY <1>0, <1>1, <3>1, <3>2, <3>4 DEF StoreInv
  <2> QED BY <2>1, <2>2
<1> QED BY <1>1, <1>5, <1>6, <1>7, <1>8, <1>9, StepOf

(* The request goes out, or fails, and nothing is recorded.                *)
LEMMA SendStep ==
    ASSUME Inv, NEW c \in Calls, Send(c) \/ TransportFails(c) \/ UnaryFails(c)
    PROVE  Inv'
<1>0. /\ TypeOK /\ PhaseInv(c) /\ StreamInv(c) /\ StoreInv(c)
  BY DEF Inv
<1>1. /\ UNCHANGED <<mem, disk, saved, raw, net, slot, stream>>
      /\ pc[c] \in {"idle", "sent", "reading"}
      /\ \/ pc[c] = "idle" /\ pc' = [pc EXCEPT ![c] = "sent"]
         \/ pc' = [pc EXCEPT ![c] = "failed"]
  BY DEF Send, TransportFails, UnaryFails
<1>2. TypeOK' BY <1>0, <1>1 DEF TypeOK, stream, Slots
<1>3. Others(c) BY <1>0, <1>1 DEF Others, stream, TypeOK
<1>4. PhaseInv(c)' BY <1>0, <1>1 DEF PhaseInv, It, stream, TypeOK
<1>5. StreamInv(c)' /\ StoreInv(c)' BY <1>0, <1>1 DEF StreamInv, StoreInv, TypeOK
<1> QED BY <1>1, <1>2, <1>3, <1>4, <1>5, StepOf

(* The envelope, or a complete MCP result, is published.                   *)
LEMMA AppendStep ==
    ASSUME Inv, NEW c \in Calls, Respond(c) \/ ToolAnswers(c)
    PROVE  Inv'
<1>0. /\ TypeOK /\ PhaseInv(c) /\ StreamInv(c) /\ StoreInv(c)
  BY DEF Inv
<1>1. PICK r \in Responses :
        /\ net' = [net EXCEPT ![c] = r]
        /\ Respond(c) => mem' = Append(mem, Interaction(c, r))
        /\ ~Respond(c) => /\ ~r.streaming
                          /\ mem' = Append(mem, [Interaction(c, r) EXCEPT !.body = r.chunks])
        /\ pc' = [pc EXCEPT ![c] = IF ~Respond(c) THEN "returned"
                                   ELSE IF r.streaming THEN "streaming" ELSE "reading"]
  BY DEF Respond, ToolAnswers
<1>2. /\ pc[c] = "sent" /\ slot' = [slot EXCEPT ![c] = Len(mem) + 1]
      /\ UNCHANGED <<disk, saved, raw, stream>>
  BY DEF Respond, ToolAnswers
<1>3. r.chunks \in Nat /\ r.secret \in BOOLEAN /\ r.arrive \in Nat /\ r.streaming \in BOOLEAN
  BY NetFacts
<1>4. \E it \in Record :
        /\ mem' = Append(mem, it) /\ it.call = c /\ it.err = FALSE
        /\ it.body = IF Respond(c) THEN 0 ELSE r.chunks
  <2>1. CASE Respond(c)
    <3>1. Interaction(c, r) \in Record /\ Interaction(c, r).call = c
          /\ Interaction(c, r).err = FALSE /\ Interaction(c, r).body = 0
      BY <1>3 DEF Interaction, Record
    <3> QED BY <1>1, <2>1, <3>1
  <2>2. CASE ~Respond(c)
    <3> DEFINE it == [Interaction(c, r) EXCEPT !.body = r.chunks]
    <3>1. it \in Record /\ it.call = c /\ it.err = FALSE /\ it.body = r.chunks
      BY <1>3 DEF Interaction, Record
    <3>2. mem' = Append(mem, it) BY <1>1, <2>2
    <3> HIDE DEF it
    <3> QED BY <2>2, <3>1, <3>2
  <2> QED BY <2>1, <2>2
<1>5. PICK it \in Record :
        /\ mem' = Append(mem, it) /\ it.call = c /\ it.err = FALSE
        /\ it.body = IF Respond(c) THEN 0 ELSE r.chunks
  BY <1>4
<1>6. /\ mem' \in Seq(Record) /\ Len(mem') = Len(mem) + 1 /\ Len(mem) \in Nat
      /\ mem'[Len(mem) + 1] = it
      /\ \A d \in Calls : slot[d] # 0 => mem'[slot[d]] = mem[slot[d]]
  BY <1>5, AppendFacts
<1>7. slot'[c] = Len(mem) + 1 /\ slot'[c] # 0 /\ It(c)' = it
  BY <1>0, <1>2, <1>6 DEF TypeOK, It
<1>8. Others(c) BY <1>0, <1>1, <1>2 DEF Others, TypeOK, stream
<1>9. TypeOK'
  <2>1. slot' \in [Calls -> Slots']
    BY <1>0, <1>2, <1>6 DEF TypeOK, Slots
  <2>2. net' \in [Calls -> Responses \cup {NoResponse}] BY <1>0, <1>1 DEF TypeOK
  <2>3. pc' \in [Calls -> {"idle", "sent", "reading", "streaming", "returned", "failed"}]
    BY <1>0, <1>1 DEF TypeOK
  <2> QED BY <1>0, <1>2, <1>6, <2>1, <2>2, <2>3 DEF TypeOK, Record, stream
<1>10. /\ taken'[c] = 0 /\ buf'[c] = 0 /\ rd'[c] = "idle" /\ cl'[c] = "no"
       /\ once'[c] = "no" /\ net'[c] = r
       /\ pc'[c] = IF ~Respond(c) THEN "returned"
                   ELSE IF r.streaming THEN "streaming" ELSE "reading"
  BY <1>0, <1>1, <1>2 DEF PhaseInv, TypeOK, stream
<1>11. PhaseInv(c)' BY <1>1, <1>3, <1>5, <1>7, <1>10 DEF PhaseInv
<1>12. StreamInv(c)' BY <1>3, <1>10 DEF StreamInv
<1>13. StoreInv(c)' BY <1>5, <1>7, <1>10 DEF StoreInv
<1> QED BY <1>6, <1>8, <1>9, <1>11, <1>12, <1>13, StepOf

(* setResponseBody stores a unary body that arrived whole.                 *)
LEMMA UnaryStep ==
    ASSUME Inv, NEW c \in Calls, ReadUnary(c)
    PROVE  Inv'
<1>0. /\ TypeOK /\ PhaseInv(c) /\ StreamInv(c) /\ StoreInv(c)
  BY DEF Inv
<1>1. /\ pc[c] = "reading" /\ slot[c] # 0 /\ pc' = [pc EXCEPT ![c] = "returned"]
      /\ UNCHANGED <<disk, saved, raw, net, slot, stream>>
      /\ SetBody(c, net[c].chunks)
  BY <1>0 DEF ReadUnary, PhaseInv
<1>2. net[c] \in Responses /\ net[c].chunks \in Nat BY <1>1, SlotFacts, NetFacts
<1>3. \E r \in Record : /\ mem' = [mem EXCEPT ![slot[c]] = r]
                        /\ r.body = net[c].chunks /\ r.call = It(c).call
  <2> DEFINE r == [It(c) EXCEPT !.body = net[c].chunks]
  <2>1. /\ r \in Record /\ mem' = [mem EXCEPT ![slot[c]] = r]
        /\ r.body = net[c].chunks /\ r.call = It(c).call
    BY <1>1, <1>2, BodyFacts
  <2> HIDE DEF r
  <2> QED BY <2>1
<1>4. PICK r \in Record : /\ mem' = [mem EXCEPT ![slot[c]] = r]
                         /\ r.body = net[c].chunks /\ r.call = It(c).call
  BY <1>3
<1>5. /\ mem' \in Seq(Record) /\ Len(mem') = Len(mem) /\ mem'[slot[c]] = r
      /\ \A d \in Calls \ {c} : slot[d] # 0 => mem'[slot[d]] = mem[slot[d]]
  BY <1>1, <1>4, RewriteFacts
<1>6. TypeOK' /\ Others(c) BY <1>0, <1>1, <1>5 DEF TypeOK, Others, Slots, Record, stream
<1>7. PhaseInv(c)' BY <1>0, <1>1, <1>2, <1>4, <1>5 DEF PhaseInv, It, stream, TypeOK
<1>8. StreamInv(c)' /\ StoreInv(c)' BY <1>0, <1>1 DEF StreamInv, StoreInv, TypeOK
<1> QED BY <1>5, <1>6, <1>7, <1>8, StepOf

(* Saving reads the interactions and writes none of them.                  *)
LEMMA SaveStep ==
    ASSUME Inv, Save \/ SaveFails \/ SaveRefused \/ UNCHANGED vars
    PROVE  Inv'
<1>1. /\ UNCHANGED <<mem, raw, net, pc, slot, stream>> /\ disk' \in {disk, mem}
      /\ saved' \in {saved, "ok", "error"}
  BY DEF Save, SaveFails, SaveRefused, vars
<1>2. TypeOK' BY <1>1 DEF Inv, TypeOK, stream, Slots
<1>3. ASSUME NEW d \in Calls PROVE (PhaseInv(d) /\ StreamInv(d) /\ StoreInv(d))'
  BY <1>1, Frame DEF stream
<1> QED BY <1>2, <1>3 DEF Inv

(* The invariant holds in every reachable state.                           *)
THEOREM InvCorrect == Spec => []Inv
<1>1. Inv /\ [Next]_vars => Inv'
  BY ReaderStep, FinalizeStep, SendStep, AppendStep, UnaryStep, SaveStep DEF Next
<1> QED BY <1>1, InitInv, PTL DEF Spec

(* Every variable of a recording cassette keeps its type; in particular    *)
(* the index a call keeps always lies in the file.                         *)
THEOREM TypeCorrect == Spec => []TypeOK
<1>1. Inv => TypeOK BY DEF Inv
<1> QED BY <1>1, InvCorrect, PTL

-----------------------------------------------------------------------------
(* However readers, closers and finalize interleave, the interaction of a  *)
(* call holds what its caller heard: nothing another call heard, no chunk  *)
(* twice, and none lost but that of a Read that a Close overtook.          *)
THEOREM HeardIsRecordedCorrect == Spec => []HeardIsRecorded
<1>1. Inv => HeardIsRecorded
  <2> SUFFICES ASSUME Inv, NEW c \in Calls, slot[c] # 0
               PROVE  /\ It(c).call = c
                      /\ pc[c] = "returned" => It(c).body = net[c].chunks
                      /\ (rd[c] = "ended" /\ cl[c] = "no" /\ net[c].chunks > 0)
                            => It(c).body = net[c].chunks /\ ~It(c).err
                      /\ (once[c] = "done" /\ ~net[c].gzip)
                            => It(c).body \in {taken[c], taken[c] - 1}
    BY DEF HeardIsRecorded, It
  <2>1. TypeOK /\ PhaseInv(c) /\ StreamInv(c) /\ StoreInv(c) BY DEF Inv
  <2>2. net[c].chunks \in Nat /\ It(c) \in Record BY SlotFacts, NetFacts
  <2>3. It(c).call = c /\ (pc[c] = "returned" => It(c).body = net[c].chunks)
    BY <2>1 DEF PhaseInv
  <2>4. ASSUME rd[c] = "ended", cl[c] = "no", net[c].chunks > 0
        PROVE  It(c).body = net[c].chunks /\ ~It(c).err
    <3>1. pc[c] = "streaming" BY <2>1, <2>4 DEF PhaseInv
    <3>2. once[c] = "done" /\ taken[c] = net[c].chunks BY <2>1, <2>4, <3>1 DEF StreamInv
    <3>3. snap[c] = net[c].chunks BY <2>1, <2>4, <3>1, <3>2 DEF StoreInv
    <3>4. ~Undecodable(c, snap[c]) BY <2>2, <2>4, <3>3 DEF Undecodable
    <3> QED BY <2>1, <3>1, <3>2, <3>3, <3>4 DEF StoreInv
  <2>5. ASSUME once[c] = "done", ~net[c].gzip
        PROVE  It(c).body \in {taken[c], taken[c] - 1}
    <3>1. pc[c] = "streaming" BY <2>1, <2>5 DEF PhaseInv
    <3>2. ~Undecodable(c, snap[c]) BY <2>5 DEF Undecodable
    <3> QED BY <2>1, <2>5, <3>1, <3>2 DEF StoreInv
  <2> QED BY <2>3, <2>4, <2>5
<1> QED BY <1>1, InvCorrect, PTL

(* A compressed stream is stored whole or dropped with an error.           *)
THEOREM GzipCorrect == Spec => []GzipWholeOrExplained
<1>1. Inv => GzipWholeOrExplained
  <2> SUFFICES ASSUME Inv, NEW c \in Calls, slot[c] # 0, net[c].gzip, net[c].streaming
               PROVE  /\ It(c).body \in {0, net[c].chunks}
                      /\ (once[c] = "done" /\ It(c).body = 0) => It(c).err
    BY DEF GzipWholeOrExplained, It
  <2>1. pc[c] = "streaming" /\ StoreInv(c) BY DEF Inv, PhaseInv
  <2> QED BY <2>1 DEF StoreInv, Undecodable
<1> QED BY <1>1, InvCorrect, PTL

(* A file written while scrubbing is on holds no credential the scan       *)
(* names: Save decides under the lock it writes under.                     *)
THEOREM NoSecretOnDiskCorrect == Spec => []NoSecretOnDisk
<1>1. Init => NoSecretOnDisk BY DEF Init, NoSecretOnDisk
<1>2. NoSecretOnDisk /\ [Next]_vars => NoSecretOnDisk'
  <2> SUFFICES ASSUME NoSecretOnDisk, [Next]_vars PROVE NoSecretOnDisk' OBVIOUS
  <2>1. CASE Save BY <2>1 DEF Save, Refuses, Leaks, NoSecretOnDisk
  <2>2. CASE ~Save
    <3>1. UNCHANGED <<disk, raw>>
      BY <2>2 DEF Next, Send, TransportFails, Respond, ToolAnswers, ReadUnary, UnaryFails,
                  ReadChunk, Tee, ReadEnd, Close, FinalizeCopy, FinalizeStore,
                  FinalizeError, EOFReturns, CloseReturns, SaveFails, SaveRefused, vars
    <3> QED BY <3>1 DEF NoSecretOnDisk
  <2> QED BY <2>1, <2>2
<1> QED BY <1>1, <1>2, PTL DEF Spec

(* Once a body is in the cassette nothing replaces it: finalize finds its  *)
(* interaction still empty, and its error is written beside the body.      *)
THEOREM CaptureOnceCorrect == Spec => CaptureOnce
<1> DEFINE Kept == \A i \in DOMAIN mem :
                      /\ i \in DOMAIN mem'
                      /\ mem'[i].call = mem[i].call
                      /\ mem[i].body # 0 => mem'[i].body = mem[i].body
<1>1. Inv /\ [Next]_vars => [Kept]_vars
  <2> SUFFICES ASSUME Inv, [Next]_vars PROVE Kept OBVIOUS
  <2>1. ASSUME NEW c \in Calls, Respond(c) \/ ToolAnswers(c) PROVE Kept
    <3>1. \E r \in Record : mem' = Append(mem, r)
      <4>1. PICK r \in Responses :
              \/ mem' = Append(mem, Interaction(c, r))
              \/ mem' = Append(mem, [Interaction(c, r) EXCEPT !.body = r.chunks])
        BY <2>1 DEF Respond, ToolAnswers
      <4>2. /\ Interaction(c, r) \in Record
            /\ [Interaction(c, r) EXCEPT !.body = r.chunks] \in Record
        BY NetFacts DEF Interaction, Record
      <4> QED BY <4>1, <4>2
    <3> QED BY <3>1, AppendFacts
  <2>2. ASSUME NEW c \in Calls, NEW r \in Record, slot[c] # 0,
               mem' = [mem EXCEPT ![slot[c]] = r], r.call = It(c).call,
               It(c).body # 0 => r.body = It(c).body
        PROVE  Kept
    <3>1. /\ DOMAIN mem' = DOMAIN mem /\ mem'[slot[c]] = r
          /\ \A i \in DOMAIN mem : i # slot[c] => mem'[i] = mem[i]
      BY <2>2, RewriteFacts
    <3> QED BY <2>2, <3>1 DEF It
  <2>3. ASSUME NEW c \in Calls, NEW n \in Nat, SetBody(c, n), slot[c] # 0, It(c).body = 0
        PROVE  Kept
    <3> DEFINE r == [It(c) EXCEPT !.body = n]
    <3>1. r \in Record /\ mem' = [mem EXCEPT ![slot[c]] = r] /\ r.call = It(c).call
      BY <2>3, BodyFacts
    <3> HIDE DEF r
    <3> QED BY <2>2, <2>3, <3>1
  <2>4. ASSUME NEW c \in Calls, ReadUnary(c) PROVE Kept
    <3>1. slot[c] # 0 /\ It(c).body = 0 BY <2>4 DEF ReadUnary, Inv, PhaseInv
    <3>2. net[c].chunks \in Nat BY <3>1, SlotFacts, NetFacts
    <3> QED BY <2>3, <2>4, <3>1, <3>2 DEF ReadUnary
  <2>5. ASSUME NEW c \in Calls, FinalizeStore(c) PROVE Kept
    <3>1. slot[c] # 0 /\ It(c).body = 0
      BY <2>5 DEF FinalizeStore, Inv, PhaseInv, StoreInv
    <3>2. snap[c] \in Nat BY DEF Inv, TypeOK
    <3> DEFINE n == IF Undecodable(c, snap[c]) THEN 0 ELSE snap[c]
    <3>3. n \in Nat /\ SetBody(c, n) BY <2>5, <3>2 DEF FinalizeStore
    <3> HIDE DEF n
    <3> QED BY <2>3, <3>1, <3>3
  <2>6. ASSUME NEW c \in Calls, FinalizeError(c) PROVE Kept
    <3> DEFINE r == [It(c) EXCEPT !.err = TRUE]
    <3>1. slot[c] # 0 BY <2>6 DEF FinalizeError, Inv, PhaseInv
    <3>2. r \in Record /\ r.call = It(c).call /\ r.body = It(c).body
      BY <3>1, SlotFacts DEF Record
    <3>3. mem' = [mem EXCEPT ![slot[c]] = r] BY <2>6 DEF FinalizeError, It
    <3> HIDE DEF r
    <3> QED BY <2>2, <3>1, <3>2, <3>3
  <2>7. CASE mem' = mem BY <2>7
  <2>8. ASSUME NEW c \in Calls,
               \/ Send(c) \/ TransportFails(c) \/ UnaryFails(c) \/ ReadChunk(c) \/ Tee(c)
               \/ ReadEnd(c) \/ Close(c) \/ FinalizeCopy(c) \/ EOFReturns(c)
               \/ CloseReturns(c)
        PROVE  mem' = mem
    BY <2>8 DEF Send, TransportFails, UnaryFails, ReadChunk, Tee, ReadEnd, Close,
                FinalizeCopy, EOFReturns, CloseReturns
  <2>9. CASE Save \/ SaveFails \/ SaveRefused \/ UNCHANGED vars
    BY <2>9 DEF Save, SaveFails, SaveRefused, vars
  <2> QED BY <2>1, <2>4, <2>5, <2>6, <2>7, <2>8, <2>9 DEF Next
<1> QED BY <1>1, InvCorrect, PTL DEF Spec, CaptureOnce
===============================================================================
