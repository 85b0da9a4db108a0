---------------------------- MODULE SharedFiles_proofs ----------------------------
(***************************************************************************)
(* The theorems of the two modules of files that processes share: Store,   *)
(* for any number of processes, and Ledger, for every set of processes,    *)
(* scenarios and behaviors and any number of calls.                        *)
(*                                                                         *)
(* Of Ledger: until two writes overlap, a process that has truncated the   *)
(* file is alone with it, and what it will write is a ledger without churn *)
(* that its entry changes; until two calls overlap or one breaks off, what *)
(* it has loaded is all that was ever added.                               *)
(***************************************************************************)
EXTENDS Store, Ledger, TLAPS, SequenceTheorems

-----------------------------------------------------------------------------
(* Store *)

(* What a save is about to put in place is what its process has in memory, *)
(* which is nothing at first.                                              *)
WholeInv ==
    \A p \in Procs :
        /\ pc[p] = "open" => mem[p] = Empty
        /\ pc[p] = "commit" => temp[p] = mem[p]
        /\ pc[p] = "prove" => draft[p] = mem[p]

Busy(p) == pc[p] \in {"run", "create", "write", "commit"}

(* A process that knows the turns of the cassette has them and maybe more. *)
TurnsInv ==
    \A p \in Procs :
        Busy(p) /\ job[p] \notin {"edit", "author"} /\ "turns" \in knows[p]
        => IsPrefixOf(TurnsOf(cassette), mem[p].turns)

(* A process that knows the contract of the cassette has it.               *)
ContractInv ==
    \A p \in Procs :
        Busy(p) /\ job[p] \notin {"expect", "author"} /\ "contract" \in knows[p]
        => mem[p].expect = ExpectOf(cassette)

Inv == TypeOK /\ NoLitter /\ WholeInv /\ TurnsInv /\ ContractInv

(* Types of the parts of a file, of an empty one, and of a longer one.     *)
LEMMA FileFacts ==
    /\ Empty \in Files
    /\ \A f \in Files : f.turns \in Seq(Procs) /\ f.expect \in Contracts \cup {NoContract}
    /\ \A f \in Files, p \in Procs : [f EXCEPT !.turns = Append(@, p)] \in Files
    /\ \A f \in Files, s \in Seq(Procs) : [f EXCEPT !.turns = s] \in Files
    /\ \A f \in Files, c \in Contracts \cup {NoContract} : [f EXCEPT !.expect = c] \in Files
    /\ NoFile \notin Files /\ Torn \notin Files /\ NoFile # Torn
    /\ \A f \in Files, p \in Procs : [f EXCEPT !.turns = <<p>>] \in Files
<1>1. <<>> \in Seq(Procs)
  OBVIOUS
<1>2. Empty \in Files
  BY <1>1 DEF Empty, Files
<1>3. \A f \in Files : f.turns \in Seq(Procs) /\ f.expect \in Contracts \cup {NoContract}
  BY DEF Files
<1>4. \A f \in Files, s \in Seq(Procs) : [f EXCEPT !.turns = s] \in Files
  BY DEF Files
<1>5. \A f \in Files, p \in Procs : [f EXCEPT !.turns = Append(@, p)] \in Files
  <2> TAKE f \in Files, p \in Procs
  <2>1. Append(f.turns, p) \in Seq(Procs)
    BY <1>3
  <2> QED
    BY <1>4, <2>1
<1>6. \A f \in Files, c \in Contracts \cup {NoContract} : [f EXCEPT !.expect = c] \in Files
  BY DEF Files
<1>7. NoFile \notin Files /\ Torn \notin Files /\ NoFile # Torn
  BY MarkersAssumption
<1>8. \A f \in Files, p \in Procs : [f EXCEPT !.turns = <<p>>] \in Files
  <2> TAKE f \in Files, p \in Procs
  <2>1. <<p>> \in Seq(Procs)
    OBVIOUS
  <2> QED
    BY <1>4, <2>1
<1> QED
  BY <1>2, <1>3, <1>4, <1>5, <1>6, <1>7, <1>8

(* Every sequence begins with the empty one and with itself.               *)
LEMMA PrefixFacts ==
    ASSUME NEW s \in Seq(Procs)
    PROVE  IsPrefixOf(<<>>, s) /\ IsPrefixOf(s, s)
  BY DEF IsPrefixOf

(* A captured turn does not disturb what the sequence begins with.         *)
LEMMA PrefixAppend ==
    ASSUME NEW s \in Seq(Procs), NEW t \in Seq(Procs), NEW p \in Procs, IsPrefixOf(s, t)
    PROVE  IsPrefixOf(s, Append(t, p))
<1>1. Len(s) <= Len(t) /\ SubSeq(t, 1, Len(s)) = s
  BY DEF IsPrefixOf
<1>2. Len(s) \in Nat /\ Len(t) \in Nat /\ Append(t, p) \in Seq(Procs) /\ Len(Append(t, p)) = Len(t) + 1
  OBVIOUS
<1>3. \A i \in 1..Len(s) : Append(t, p)[i] = t[i]
  BY <1>1, <1>2
<1>4. SubSeq(Append(t, p), 1, Len(s)) = SubSeq(t, 1, Len(s))
  BY <1>1, <1>2, <1>3
<1> QED
  BY <1>1, <1>2, <1>4 DEF IsPrefixOf

(* The initial states have the invariant.                                  *)
LEMMA InvInit == Init => Inv
<1> SUFFICES ASSUME Init PROVE Inv
  OBVIOUS
<1>1. TypeOK
  BY FileFacts, InitAssumption DEF Init, TypeOK, Jobs, Recorders, Steps
<1>2. NoLitter /\ WholeInv /\ TurnsInv /\ ContractInv
  BY DEF Init, NoLitter, WholeInv, TurnsInv, ContractInv, Busy
<1> QED
  BY <1>1, <1>2 DEF Inv

(* What prune and the like keep of a recording is a recording.             *)
LEMMA EditedFacts ==
    ASSUME NEW s \in Seq(Procs), NEW t \in Edited(s)
    PROVE  t \in Seq(Procs)
<1>1. CASE t = s
  BY <1>1
<1>2. CASE t = SubSeq(s, 2, Len(s))
  <2>1. \A i \in 2..Len(s) : s[i] \in Procs
    OBVIOUS
  <2> QED
    BY <1>2, <2>1, SubSeqProperties
<1> QED
  BY <1>1, <1>2 DEF Edited

(* What a process makes of a file is a file, and keeps what it does not    *)
(* mean to change.                                                         *)
LEMMA ChangedFacts ==
    ASSUME TypeOK, NEW p \in Procs, job[p] \in {"branch", "expect", "edit"},
           NEW f \in Files, NEW g \in Changed(p, f)
    PROVE  /\ g \in Files
           /\ job[p] # "edit" => g.turns = f.turns
           /\ job[p] # "expect" => g.expect = f.expect
<1>1. CASE job[p] = "branch"
  BY <1>1 DEF Changed
<1>2. CASE job[p] = "expect"
  <2>1. PICK c \in Contracts \cup {NoContract} : g = [f EXCEPT !.expect = c]
    BY <1>2 DEF Changed
  <2> QED
    BY <1>2, <2>1, FileFacts DEF Files
<1>3. CASE job[p] = "edit"
  <2>1. PICK s \in Edited(f.turns) : g = [f EXCEPT !.turns = s]
    BY <1>3 DEF Changed
  <2>2. s \in Seq(Procs)
    BY EditedFacts, FileFacts
  <2> QED
    BY <1>3, <2>1, <2>2, FileFacts DEF Files
<1> QED
  BY <1>1, <1>2, <1>3

(* The contract that a save takes over is one.                             *)
LEMMA InheritedFacts ==
    ASSUME TypeOK, NEW f \in Files
    PROVE  /\ Inherited(f) \in Files
           /\ Inherited(f).turns = f.turns
           /\ f.expect = NoContract => Inherited(f).expect = ExpectOf(cassette)
           /\ f.expect # NoContract => Inherited(f) = f
<1>1. cassette \in Files => cassette.expect \in Contracts \cup {NoContract}
  BY FileFacts
<1>2. cassette \notin Files => cassette = NoFile
  BY DEF TypeOK
<1> QED
  BY <1>1, <1>2, FileFacts DEF Inherited, ExpectOf, Files

(* Every step keeps the invariant.  A save lands what its process had, and *)
(* makes what the others know of the cassette out of date.                 *)
LEMMA InvNext == Inv /\ [Next]_vars => Inv'
<1> SUFFICES ASSUME Inv, [Next]_vars PROVE Inv'
  OBVIOUS
<1> USE DEF Inv
<1>0. CASE UNCHANGED vars
  BY <1>0 DEF vars, TypeOK, NoLitter, WholeInv, TurnsInv, ContractInv, Busy
<1>1. ASSUME NEW p \in Procs, NEW j \in Jobs, Start(p, j) PROVE Inv'
  <2>1. TypeOK'
    BY <1>1, FileFacts, MarkersAssumption DEF TypeOK, Start, Go, files, Jobs, Steps
  <2>2. NoLitter'
    BY <1>1 DEF TypeOK, NoLitter, Start, Go, files, Jobs, Steps
  <2>3. WholeInv'
    BY <1>1 DEF TypeOK, WholeInv, Start, Go, files, Jobs, Steps
  <2>4. TurnsInv'
    BY <1>1, MarkersAssumption DEF TypeOK, TurnsInv, Busy, TurnsOf, Start, Go, files, Jobs, Steps
  <2>5. ContractInv'
    BY <1>1, MarkersAssumption DEF TypeOK, ContractInv, Busy, ExpectOf, Start, Go, files, Jobs, Steps
  <2> QED
    BY <2>1, <2>2, <2>3, <2>4, <2>5
<1>2. ASSUME NEW p \in Procs, OpenEmpty(p) PROVE Inv'
  <2>1. TypeOK'
    BY <1>2, FileFacts, MarkersAssumption DEF TypeOK, OpenEmpty, Go, files, Steps
  <2>2. NoLitter'
    BY <1>2 DEF TypeOK, NoLitter, OpenEmpty, Go, files, Steps
  <2>3. WholeInv'
    BY <1>2 DEF TypeOK, WholeInv, OpenEmpty, Go, files, Steps
  <2>0. job[p] # "record" => cassette = NoFile
    BY <1>2 DEF OpenEmpty, StartsEmpty, Visible
  <2>4. TurnsInv'
    <3> SUFFICES ASSUME NEW q \in Procs, Busy(q)', job'[q] \notin {"edit", "author"},
                        "turns" \in knows'[q]
                 PROVE  IsPrefixOf(TurnsOf(cassette), mem[q].turns)
      BY <1>2 DEF OpenEmpty, files, TurnsInv, TurnsOf
    <3>1. CASE q = p
      BY <1>2, <2>0, <3>1, FileFacts, PrefixFacts DEF TypeOK, OpenEmpty, TurnsOf
    <3>2. CASE q # p
      BY <1>2, <3>2 DEF TypeOK, OpenEmpty, TurnsInv, Busy, Go
    <3> QED
      BY <3>1, <3>2
  <2>5. ContractInv'
    BY <1>2, <2>0 DEF TypeOK, WholeInv, ContractInv, Busy, Empty, ExpectOf, OpenEmpty, Go, files
  <2> QED
    BY <2>1, <2>2, <2>3, <2>4, <2>5
<1>3. ASSUME NEW p \in Procs, OpenReplay(p) PROVE Inv'
  <2>1. TypeOK'
    BY <1>3, MarkersAssumption DEF TypeOK, OpenReplay, Go, files, Steps
  <2>2. NoLitter'
    BY <1>3 DEF TypeOK, NoLitter, OpenReplay, Go, files, Steps
  <2>3. WholeInv'
    BY <1>3 DEF TypeOK, WholeInv, OpenReplay, Go, files, Steps
  <2>4. TurnsInv'
    BY <1>3, MarkersAssumption DEF TypeOK, TurnsInv, Busy, TurnsOf, OpenReplay, Go, files, Steps
  <2>5. ContractInv'
    BY <1>3, MarkersAssumption DEF TypeOK, ContractInv, Busy, ExpectOf, OpenReplay, Go, files, Steps
  <2> QED
    BY <2>1, <2>2, <2>3, <2>4, <2>5
<1>4. ASSUME NEW p \in Procs, Load(p) PROVE Inv'
  <2>0. IF cassette \in Files
        THEN /\ mem'[p] \in Files /\ mem' = [mem EXCEPT ![p] = mem'[p]]
             /\ job[p] # "edit" => mem'[p].turns = cassette.turns
             /\ job[p] # "expect" => mem'[p].expect = cassette.expect
        ELSE mem' = mem
    BY <1>4, ChangedFacts DEF TypeOK, Load
  <2>1. TypeOK'
    BY <1>4, <2>0, MarkersAssumption DEF TypeOK, Load, Go, files, Steps
  <2>2. NoLitter'
    BY <1>4 DEF TypeOK, NoLitter, Load, Go, files, Steps
  <2>3. WholeInv'
    BY <1>4 DEF TypeOK, WholeInv, Load, Go, files, Steps
  <2>4. TurnsInv'
    BY <1>4, FileFacts, PrefixFacts, <2>0, MarkersAssumption DEF TypeOK, TurnsInv, Busy, TurnsOf, Load, Go, files, Steps
  <2>5. ContractInv'
    BY <1>4, FileFacts, PrefixFacts, <2>0, MarkersAssumption DEF TypeOK, ContractInv, Busy, ExpectOf, Load, Go, files, Steps
  <2> QED
    BY <2>1, <2>2, <2>3, <2>4, <2>5
<1>5. ASSUME NEW p \in Procs, Compile(p) PROVE Inv'
  <2>1. TypeOK'
    BY <1>5, FileFacts DEF TypeOK, Compile, Go, Steps
  <2>2. NoLitter'
    BY <1>5 DEF TypeOK, NoLitter, Compile, Go, files, Steps
  <2>3. WholeInv'
    BY <1>5 DEF TypeOK, WholeInv, Compile, Go, files, Steps
  <2>4. TurnsInv'
    BY <1>5, MarkersAssumption DEF TypeOK, TurnsInv, Busy, TurnsOf, Compile, Go, files, Steps
  <2>5. ContractInv'
    BY <1>5, MarkersAssumption DEF TypeOK, ContractInv, Busy, ExpectOf, Compile, Go, files, Steps
  <2> QED
    BY <2>1, <2>2, <2>3, <2>4, <2>5
<1>6. ASSUME NEW p \in Procs, Capture(p) PROVE Inv'
  <2>1. TypeOK'
    BY <1>6, FileFacts, MarkersAssumption DEF TypeOK, Capture, Go, files, Steps
  <2>2. NoLitter'
    BY <1>6 DEF TypeOK, NoLitter, Capture, Go, files, Steps
  <2>3. WholeInv'
    BY <1>6 DEF TypeOK, WholeInv, Capture, Go, files, Steps
  <2>0. TurnsOf(cassette) \in Seq(Procs)
    BY FileFacts DEF TypeOK, TurnsOf
  <2>4. TurnsInv'
    <3> SUFFICES ASSUME NEW q \in Procs, Busy(q), job[q] \notin {"edit", "author"},
                        "turns" \in knows[q]
                 PROVE  IsPrefixOf(TurnsOf(cassette), mem'[q].turns)
      BY <1>6 DEF Capture, files, TurnsInv, TurnsOf, Busy
    <3>1. IsPrefixOf(TurnsOf(cassette), mem[q].turns) /\ mem[q].turns \in Seq(Procs)
      BY FileFacts DEF TypeOK, TurnsInv
    <3>2. mem'[q].turns = mem[q].turns \/ mem'[q].turns = Append(mem[q].turns, p)
      BY <1>6 DEF TypeOK, Capture, Files
    <3> QED
      BY <2>0, <3>1, <3>2, PrefixAppend
  <2>5. ContractInv'
    BY <1>6, PrefixAppend, MarkersAssumption DEF TypeOK, ContractInv, Busy, ExpectOf, Capture, Go, files, Steps
  <2> QED
    BY <2>1, <2>2, <2>3, <2>4, <2>5
<1>7. ASSUME NEW p \in Procs, Finish(p) PROVE Inv'
  <2>1. TypeOK'
    BY <1>7, MarkersAssumption DEF TypeOK, Finish, Go, files, Steps
  <2>2. NoLitter'
    BY <1>7 DEF TypeOK, NoLitter, Finish, Go, files, Steps
  <2>3. WholeInv'
    BY <1>7 DEF TypeOK, WholeInv, Finish, Go, files, Steps
  <2>4. TurnsInv'
    BY <1>7, MarkersAssumption DEF TypeOK, TurnsInv, Busy, TurnsOf, Finish, Go, files, Steps
  <2>5. ContractInv'
    BY <1>7, MarkersAssumption DEF TypeOK, ContractInv, Busy, ExpectOf, Finish, Go, files, Steps
  <2> QED
    BY <2>1, <2>2, <2>3, <2>4, <2>5
<1>8. ASSUME NEW p \in Procs, Prior(p) PROVE Inv'
  <2>0. /\ mem[p] \in Files /\ Inherited(mem[p]) \in Files
        /\ mem' = [mem EXCEPT ![p] = Inherited(mem[p])]
    BY <1>8, InheritedFacts DEF TypeOK, Prior
  <2>1. TypeOK'
    BY <1>8, <2>0, MarkersAssumption DEF TypeOK, Prior, Go, files, Steps
  <2>2. NoLitter'
    BY <1>8 DEF TypeOK, NoLitter, Prior, Go, files, Steps
  <2>3. WholeInv'
    BY <1>8 DEF TypeOK, WholeInv, Prior, Go, files, Steps
  <2>4. TurnsInv'
    BY <1>8, <2>0, InheritedFacts, MarkersAssumption DEF TypeOK, TurnsInv, Busy, TurnsOf, Prior, Go, files, Steps
  <2>5. ContractInv'
    BY <1>8, <2>0, InheritedFacts, MarkersAssumption DEF TypeOK, ContractInv, Busy, ExpectOf, Prior, Go, files, Steps
  <2> QED
    BY <2>1, <2>2, <2>3, <2>4, <2>5
<1>9. ASSUME NEW p \in Procs, Refuse(p) PROVE Inv'
  <2>1. TypeOK'
    BY <1>9, MarkersAssumption DEF TypeOK, Refuse, Go, files, Steps, After
  <2>2. NoLitter'
    BY <1>9 DEF TypeOK, NoLitter, Refuse, Go, files, Steps, After
  <2>3. WholeInv'
    BY <1>9 DEF TypeOK, WholeInv, Refuse, Go, files, Steps, After
  <2>4. TurnsInv'
    BY <1>9, MarkersAssumption DEF TypeOK, TurnsInv, Busy, TurnsOf, Refuse, Go, files, Steps, After
  <2>5. ContractInv'
    BY <1>9, MarkersAssumption DEF TypeOK, ContractInv, Busy, ExpectOf, Refuse, Go, files, Steps, After
  <2> QED
    BY <2>1, <2>2, <2>3, <2>4, <2>5
<1>10. ASSUME NEW p \in Procs, Create(p) PROVE Inv'
  <2>1. TypeOK'
    BY <1>10, MarkersAssumption DEF TypeOK, Create, Go, files, Steps
  <2>2. NoLitter'
    BY <1>10 DEF TypeOK, NoLitter, Create, Go, files, Steps
  <2>3. WholeInv'
    BY <1>10 DEF TypeOK, WholeInv, Create, Go, files, Steps
  <2>4. TurnsInv'
    BY <1>10, MarkersAssumption DEF TypeOK, TurnsInv, Busy, TurnsOf, Create, Go, files, Steps
  <2>5. ContractInv'
    BY <1>10, MarkersAssumption DEF TypeOK, ContractInv, Busy, ExpectOf, Create, Go, files, Steps
  <2> QED
    BY <2>1, <2>2, <2>3, <2>4, <2>5
<1>11. ASSUME NEW p \in Procs, Write(p) PROVE Inv'
  <2>1. TypeOK'
    BY <1>11, MarkersAssumption DEF TypeOK, Write, Go, files, Steps
  <2>2. NoLitter'
    BY <1>11 DEF TypeOK, NoLitter, Write, Go, files, Steps
  <2>3. WholeInv'
    BY <1>11 DEF TypeOK, WholeInv, Write, Go, files, Steps
  <2>4. TurnsInv'
    BY <1>11, MarkersAssumption DEF TypeOK, TurnsInv, Busy, TurnsOf, Write, Go, files, Steps
  <2>5. ContractInv'
    BY <1>11, MarkersAssumption DEF TypeOK, ContractInv, Busy, ExpectOf, Write, Go, files, Steps
  <2> QED
    BY <2>1, <2>2, <2>3, <2>4, <2>5
<1>12. ASSUME NEW p \in Procs, SaveFails(p) PROVE Inv'
  <2>1. TypeOK'
    BY <1>12, MarkersAssumption DEF TypeOK, SaveFails, Go, files, Steps, After, Removed
  <2>2. NoLitter'
    BY <1>12 DEF TypeOK, NoLitter, SaveFails, Go, files, Steps, After, Removed
  <2>3. WholeInv'
    BY <1>12 DEF TypeOK, WholeInv, SaveFails, Go, files, Steps, After, Removed
  <2>4. TurnsInv'
    BY <1>12, MarkersAssumption DEF TypeOK, TurnsInv, Busy, TurnsOf, SaveFails, Go, files, Steps, After, Removed
  <2>5. ContractInv'
    BY <1>12, MarkersAssumption DEF TypeOK, ContractInv, Busy, ExpectOf, SaveFails, Go, files, Steps, After, Removed
  <2> QED
    BY <2>1, <2>2, <2>3, <2>4, <2>5
<1>13. ASSUME NEW p \in Procs, Commit(p) PROVE Inv'
  <2>1. TypeOK'
    BY <1>13, MarkersAssumption DEF WholeInv, TypeOK, Commit, Go, files, Steps, After, Removed, Outdated
  <2>2. NoLitter'
    BY <1>13 DEF TypeOK, NoLitter, Commit, Go, files, Steps, After, Removed, Outdated
  <2>3. WholeInv'
    BY <1>13 DEF TypeOK, WholeInv, Commit, Go, files, Steps, After, Removed, Outdated
  <2>4. TurnsInv'
    BY <1>13, FileFacts, PrefixFacts, MarkersAssumption DEF WholeInv, TypeOK, TurnsInv, Busy, TurnsOf, Commit, Go, files, Steps, After, Removed, Outdated
  <2>5. ContractInv'
    BY <1>13, FileFacts, PrefixFacts, MarkersAssumption DEF WholeInv, TypeOK, ContractInv, Busy, ExpectOf, Commit, Go, files, Steps, After, Removed, Outdated
  <2> QED
    BY <2>1, <2>2, <2>3, <2>4, <2>5
<1>14. ASSUME NEW p \in Procs, CommitDraft(p) PROVE Inv'
  <2>1. TypeOK'
    BY <1>14, MarkersAssumption DEF WholeInv, TypeOK, CommitDraft, Go, files, Steps, Removed
  <2>2. NoLitter'
    BY <1>14 DEF TypeOK, NoLitter, CommitDraft, Go, files, Steps, Removed
  <2>3. WholeInv'
    BY <1>14 DEF TypeOK, WholeInv, CommitDraft, Go, files, Steps, Removed
  <2>4. TurnsInv'
    BY <1>14, MarkersAssumption DEF TypeOK, TurnsInv, Busy, TurnsOf, CommitDraft, Go, files, Steps, Removed
  <2>5. ContractInv'
    BY <1>14, MarkersAssumption DEF TypeOK, ContractInv, Busy, ExpectOf, CommitDraft, Go, files, Steps, Removed
  <2> QED
    BY <2>1, <2>2, <2>3, <2>4, <2>5
<1>15. ASSUME NEW p \in Procs, Publish(p) PROVE Inv'
  <2>1. TypeOK'
    BY <1>15, MarkersAssumption DEF WholeInv, TypeOK, Publish, Go, files, Steps, Removed, Outdated
  <2>2. NoLitter'
    BY <1>15 DEF TypeOK, NoLitter, Publish, Go, files, Steps, Removed, Outdated
  <2>3. WholeInv'
    BY <1>15 DEF TypeOK, WholeInv, Publish, Go, files, Steps, Removed, Outdated
  <2>4. TurnsInv'
    BY <1>15, FileFacts, PrefixFacts, MarkersAssumption DEF TypeOK, TurnsInv, Busy, TurnsOf, Publish, Go, files, Steps, Removed, Outdated
  <2>5. ContractInv'
    BY <1>15, FileFacts, PrefixFacts, MarkersAssumption DEF TypeOK, ContractInv, Busy, ExpectOf, Publish, Go, files, Steps, Removed, Outdated
  <2> QED
    BY <2>1, <2>2, <2>3, <2>4, <2>5
<1>16. ASSUME NEW p \in Procs, Reject(p) PROVE Inv'
  <2>1. TypeOK'
    BY <1>16, MarkersAssumption DEF TypeOK, Reject, Go, files, Steps, Removed
  <2>2. NoLitter'
    BY <1>16 DEF TypeOK, NoLitter, Reject, Go, files, Steps, Removed
  <2>3. WholeInv'
    BY <1>16 DEF TypeOK, WholeInv, Reject, Go, files, Steps, Removed
  <2>4. TurnsInv'
    BY <1>16, MarkersAssumption DEF TypeOK, TurnsInv, Busy, TurnsOf, Reject, Go, files, Steps, Removed
  <2>5. ContractInv'
    BY <1>16, MarkersAssumption DEF TypeOK, ContractInv, Busy, ExpectOf, Reject, Go, files, Steps, Removed
  <2> QED
    BY <2>1, <2>2, <2>3, <2>4, <2>5
<1>17. ASSUME NEW p \in Procs, Crash(p) PROVE Inv'
  <2>1. TypeOK'
    BY <1>17, MarkersAssumption DEF TypeOK, Crash, Go, files, Steps
  <2>2. NoLitter'
    BY <1>17 DEF TypeOK, NoLitter, Crash, Go, files, Steps
  <2>3. WholeInv'
    BY <1>17 DEF TypeOK, WholeInv, Crash, Go, files, Steps
  <2>4. TurnsInv'
    BY <1>17, MarkersAssumption DEF TypeOK, TurnsInv, Busy, TurnsOf, Crash, Go, files, Steps
  <2>5. ContractInv'
    BY <1>17, MarkersAssumption DEF TypeOK, ContractInv, Busy, ExpectOf, Crash, Go, files, Steps
  <2> QED
    BY <2>1, <2>2, <2>3, <2>4, <2>5
<1> QED
  BY <1>0, <1>1, <1>2, <1>3, <1>4, <1>5, <1>6, <1>7, <1>8, <1>9, <1>10, <1>11, <1>12, <1>13, <1>14, <1>15, <1>16, <1>17 DEF Next

(* The invariant holds in every state.                                     *)
THEOREM InvCorrect == Spec => []Inv
  BY InvInit, InvNext, PTL DEF Spec

(* Every file is one, whoever saves, fails or is killed.                   *)
THEOREM TypeCorrect == Spec => []TypeOK
<1>1. Inv => TypeOK
  BY DEF Inv
<1> QED
  BY <1>1, InvCorrect, PTL

(* Temporary files belong to somebody who is saving, or was killed at it.  *)
THEOREM NoLitterCorrect == Spec => []NoLitter
<1>1. Inv => NoLitter
  BY DEF Inv
<1> QED
  BY <1>1, InvCorrect, PTL

(* Only Commit and Publish touch the cassette, and both put in place what  *)
(* their process has in memory.                                            *)
THEOREM LandsWholeCorrect == Spec => LandsWhole
<1>1. Inv /\ [Next]_vars
      => [cassette' # cassette => \E p \in Procs : pc[p] # pc'[p] /\ cassette' = mem[p]]_cassette
  <2> SUFFICES ASSUME Inv, [Next]_vars, cassette' # cassette
               PROVE  \E p \in Procs : pc[p] # pc'[p] /\ cassette' = mem[p]
    OBVIOUS
  <2>1. PICK p \in Procs : Commit(p) \/ Publish(p)
    BY DEF Next, vars, files, Start, OpenEmpty, OpenReplay, Load, Compile, Capture, Finish,
           Prior, Refuse, Create, Write, SaveFails, CommitDraft, Reject, Crash
  <2>2. pc'[p] \in {"run", "ended"} /\ pc[p] \notin {"run", "ended"}
    BY <2>1 DEF Inv, TypeOK, Commit, Publish, Go, After
  <2>3. cassette' = mem[p]
    BY <2>1 DEF Inv, WholeInv, Commit, Publish
  <2> QED
    BY <2>2, <2>3
<1> QED
  BY <1>1, InvCorrect, PTL DEF Spec, LandsWhole

(* A save keeps the turns that its process knows of.                       *)
THEOREM SavesGrowCorrect == Spec => SavesGrow
<1>1. Inv => [\A p \in Procs :
                Commit(p) /\ job[p] # "edit" /\ "turns" \in knows[p]
                => IsPrefixOf(TurnsOf(cassette), cassette'.turns)]_vars
  BY DEF Inv, WholeInv, TurnsInv, Busy, Commit
<1> QED
  BY <1>1, InvCorrect, PTL DEF SavesGrow

(* A save keeps the contract that its process knows of.                    *)
THEOREM ContractSurvivesCorrect == Spec => ContractSurvives
<1>1. Inv => [\A p \in Procs :
                Commit(p) /\ job[p] # "expect" /\ "contract" \in knows[p]
                => cassette'.expect = ExpectOf(cassette)]_vars
  BY DEF Inv, WholeInv, ContractInv, Busy, Commit
<1> QED
  BY <1>1, InvCorrect, PTL DEF ContractSurvives

-----------------------------------------------------------------------------
(* Ledger *)

\* Until two writes overlap.
WritesInv ==
  "writes" \in apart =>
    /\ NoChurn(ledger)
    /\ \A p \in Processes : call[p].at \in {"loaded", "truncated"} =>
         NoChurn(call[p].tl) /\ ~Unchanged(call[p].tl, call[p].entry)
    /\ \A p \in Processes : call[p].at = "truncated" =>
         ledger = <<>> /\ \A q \in Processes \ {p} : call[q].at # "truncated"

\* Until two calls overlap, or one breaks off.
CallsInv ==
  "calls" \in apart =>
    /\ \A p, q \in Processes : call[p].at # "idle" /\ call[q].at # "idle" => p = q
    /\ \A p \in Processes : call[p].at \in {"loaded", "truncated"} => call[p].tl = returned
    /\ \A p \in Processes : call[p].at = "truncated" => ledger = <<>>
    /\ Settled => ledger = returned

LedgerInv == LedgerTypeOK /\ WritesInv /\ CallsInv
-----------------------------------------------------------------------------
(* Ledgers without churn *)

\* What Append and SubSeq do to a ledger.
LEMMA AppendFacts ==
  ASSUME NEW S, NEW tl \in Seq(S), NEW e \in S
  PROVE  /\ Append(tl, e) \in Seq(S)
         /\ Len(tl) \in Nat /\ DOMAIN tl = 1 .. Len(tl)
         /\ DOMAIN Append(tl, e) = 1 .. (Len(tl) + 1)
         /\ \A i \in 1 .. Len(tl) : Append(tl, e)[i] = tl[i]
         /\ Append(tl, e)[Len(tl) + 1] = e
BY AppendProperties, LenProperties

LEMMA CutFacts ==
  ASSUME NEW S, NEW tl \in Seq(S), NEW n \in 0 .. Len(tl)
  PROVE  /\ SubSeq(tl, 1, n) \in Seq(S)
         /\ DOMAIN SubSeq(tl, 1, n) = 1 .. n
         /\ \A i \in 1 .. n : SubSeq(tl, 1, n)[i] = tl[i]
         /\ DOMAIN tl = 1 .. Len(tl) /\ Len(tl) \in Nat
<1>1. Len(tl) \in Nat /\ DOMAIN tl = 1 .. Len(tl) BY LenProperties
<1>2. \A i \in 1 .. n : tl[i] \in S BY <1>1, ElementOfSeq
<1>3. n \in Nat /\ n \in Int /\ 1 \in Int BY <1>1
<1>4. SubSeq(tl, 1, n) \in Seq(S)
      /\ Len(SubSeq(tl, 1, n)) = (IF 1 <= n THEN n - 1 + 1 ELSE 0)
      /\ (\A i \in 1 .. (n - 1 + 1) : SubSeq(tl, 1, n)[i] = tl[1 + i - 1])
  BY <1>2, <1>3, SubSeqProperties
<1>5. Len(SubSeq(tl, 1, n)) = n BY <1>3, <1>4
<1>6. DOMAIN SubSeq(tl, 1, n) = 1 .. n BY <1>4, <1>5, LenProperties
<1>7. \A i \in 1 .. n : SubSeq(tl, 1, n)[i] = tl[i] BY <1>3, <1>4
<1> QED BY <1>1, <1>4, <1>6, <1>7

\* A ledger whose entries are among the first ones of another has its churn at most.
LEMMA NoChurnFirst ==
  ASSUME NEW tl, NEW new, NEW n \in Nat, NEW m \in Nat, n <= m,
         DOMAIN tl = 1 .. m, DOMAIN new = 1 .. n, \A i \in 1 .. n : new[i] = tl[i],
         NoChurn(tl)
  PROVE  NoChurn(new)
<1> SUFFICES ASSUME NEW i \in 1 .. n, NEW k \in 1 .. n, i < k, new[i].scenario = new[k].scenario,
                    \A j \in (i + 1) .. (k - 1) : new[j].scenario # new[i].scenario
             PROVE  new[i].combined # new[k].combined \/ new[i].combined = Cut
  BY DEF NoChurn
<1>1. i \in DOMAIN tl /\ k \in DOMAIN tl /\ new[i] = tl[i] /\ new[k] = tl[k] OBVIOUS
<1>2. \A j \in (i + 1) .. (k - 1) : tl[j].scenario # tl[i].scenario
  <2> SUFFICES ASSUME NEW j \in (i + 1) .. (k - 1) PROVE tl[j].scenario # tl[i].scenario OBVIOUS
  <2>1. j \in 1 .. n /\ new[j] = tl[j] OBVIOUS
  <2> QED BY <1>1, <2>1
<1> QED BY <1>1, <1>2 DEF NoChurn

\* An entry that is a change, or of a digest that is cut off, may be added.
LEMMA NoChurnAppend ==
  ASSUME NEW tl \in Seq(Stored), NEW e \in Stored, NoChurn(tl), ~Unchanged(tl, e) \/ e.combined = Cut
  PROVE  NoChurn(Append(tl, e))
<1> DEFINE new == Append(tl, e)
           n == Len(tl)
<1>1. /\ n \in Nat /\ DOMAIN tl = 1 .. n /\ DOMAIN new = 1 .. (n + 1)
      /\ \A i \in 1 .. n : new[i] = tl[i] /\ tl[i] \in Stored
      /\ new[n + 1] = e
  <2>1. \A i \in 1 .. Len(tl) : tl[i] \in Stored BY ElementOfSeq
  <2> QED BY <2>1, AppendFacts
<1> HIDE DEF new, n
<1>2. SUFFICES ASSUME NEW i \in 1 .. (n + 1), NEW k \in 1 .. (n + 1), i < k, new[i].scenario = new[k].scenario,
                      \A j \in (i + 1) .. (k - 1) : new[j].scenario # new[i].scenario
               PROVE  new[i].combined # new[k].combined \/ new[i].combined = Cut
  BY <1>1 DEF NoChurn, new
<1>3. i \in 1 .. n /\ new[i] = tl[i] BY <1>1, <1>2
<1>4. CASE k \in 1 .. n
  <2>1. new[k] = tl[k] BY <1>1, <1>4
  <2>2. ASSUME NEW j \in (i + 1) .. (k - 1) PROVE tl[j].scenario # tl[i].scenario
    <3>1. j \in 1 .. n BY <1>1, <1>3, <1>4
    <3> QED BY <1>1, <1>2, <1>3, <3>1
  <2> QED BY <1>1, <1>2, <1>3, <1>4, <2>1, <2>2 DEF NoChurn
<1>5. CASE k = n + 1
  <2>1. new[k] = e /\ tl[i].scenario = e.scenario BY <1>1, <1>2, <1>3, <1>5
  <2>2. ASSUME NEW j \in (i + 1) .. n PROVE tl[j].scenario # e.scenario
    <3>1. j \in 1 .. n /\ j \in (i + 1) .. (k - 1) BY <1>1, <1>3, <1>5
    <3> QED BY <1>1, <1>2, <1>3, <2>1, <3>1
  <2>3. ~Unchanged(tl, e) => tl[i] # e BY <1>1, <1>3, <2>2 DEF Unchanged, n
  <2>4. tl[i] # e => tl[i].combined # e.combined BY <1>1, <1>3, <2>1 DEF Stored
  <2> QED BY <1>3, <2>1, <2>3, <2>4
<1> QED BY <1>1, <1>4, <1>5

LEMMA EntryTypes ==
  /\ Entries \subseteq Stored
  /\ Entry(Cut, Cut) \in Stored
  /\ \A x \in Stored : Entry(x.scenario, Cut) \in Stored /\ Entry(x.scenario, Cut).combined = Cut
BY DEF Entries, Entry, Stored

LEMMA UnreadableFacts == Unreadable \in Seq(Stored) /\ NoChurn(Unreadable)
<1>1. Unreadable \in Seq(Stored) BY EntryTypes DEF Unreadable
<1>2. DOMAIN Unreadable = 1 .. 1 BY DEF Unreadable
<1> QED BY <1>1, <1>2 DEF NoChurn

\* A write that ends early adds no churn.
LEMMA CutsFacts ==
  ASSUME NEW new \in Seq(Stored), NEW c \in Cuts(new)
  PROVE  c \in Seq(Stored) /\ (NoChurn(new) => NoChurn(c))
<1>1. CASE c = Unreadable BY <1>1, UnreadableFacts
<1>2. ASSUME NEW n \in 0 .. Len(new) PROVE SubSeq(new, 1, n) \in Seq(Stored) /\ (NoChurn(new) => NoChurn(SubSeq(new, 1, n)))
  <2>1. /\ SubSeq(new, 1, n) \in Seq(Stored) /\ DOMAIN SubSeq(new, 1, n) = 1 .. n
        /\ \A i \in 1 .. n : SubSeq(new, 1, n)[i] = new[i]
        /\ DOMAIN new = 1 .. Len(new) /\ Len(new) \in Nat
    BY CutFacts
  <2>2. n \in Nat /\ n <= Len(new) BY <2>1
  <2> QED BY <2>1, <2>2, NoChurnFirst
<1>3. ASSUME NEW n \in 0 .. (Len(new) - 1), c = Append(SubSeq(new, 1, n), Entry(new[n + 1].scenario, Cut))
      PROVE  c \in Seq(Stored) /\ (NoChurn(new) => NoChurn(c))
  <2>1. Len(new) \in Nat BY LenProperties
  <2>2. n \in 0 .. Len(new) /\ n + 1 \in 1 .. Len(new) BY <2>1
  <2>3. new[n + 1] \in Stored BY <2>2, ElementOfSeq
  <2>4. Entry(new[n + 1].scenario, Cut) \in Stored /\ Entry(new[n + 1].scenario, Cut).combined = Cut
    BY <2>3, EntryTypes
  <2>5. SubSeq(new, 1, n) \in Seq(Stored) /\ (NoChurn(new) => NoChurn(SubSeq(new, 1, n))) BY <1>2, <2>2
  <2> QED BY <1>3, <2>4, <2>5, AppendProperties, NoChurnAppend
<1> QED BY <1>1, <1>2, <1>3 DEF Cuts

\* An overlapping write leaves entries of both, and one that is alone its own.
LEMMA OverlaidFacts ==
  ASSUME NEW new \in Seq(Stored), NEW old \in Seq(Stored), NEW x \in Overlaid(new, old)
  PROVE  x \in Seq(Stored) /\ (old = <<>> => x = new)
<1>1. CASE old = <<>> \/ new = Unreadable BY <1>1, UnreadableFacts DEF Overlaid
<1>2. CASE old # <<>> /\ new # Unreadable
  <2>1. Len(new) \in Nat /\ Len(old) \in Nat BY LenProperties
  <2>2. \A i \in (Len(new) + 1) .. Len(old) : old[i] \in Stored BY <2>1, ElementOfSeq
  <2>3. SubSeq(old, Len(new) + 1, Len(old)) \in Seq(Stored) BY <2>1, <2>2, SubSeqProperties
  <2>4. new \o SubSeq(old, Len(new) + 1, Len(old)) \in Seq(Stored) BY <2>3, ConcatProperties
  <2> QED BY <1>2, <2>4, UnreadableFacts DEF Overlaid
<1> QED BY <1>1, <1>2
-----------------------------------------------------------------------------
(* The invariant *)

\* What the steps read of a state.
LEMMA CallFacts ==
  ASSUME LedgerTypeOK, NEW p \in Processes
  PROVE  /\ call[p].at \in {"idle", "called", "loaded", "truncated"}
         /\ call[p].tl \in Seq(Stored)
         /\ call[p].entry \in Stored
         /\ call[p].at # "idle" => call[p].entry \in Entries
         /\ ledger \in Seq(Stored)
BY EntryTypes DEF LedgerTypeOK

LEMMA LedgerInitInv == LedgerInit => LedgerInv
<1> SUFFICES ASSUME LedgerInit PROVE LedgerInv OBVIOUS
<1>1. \A S : <<>> \in Seq(S) BY EmptySeq
<1>2. LedgerTypeOK BY <1>1, LedgerAssumption DEF LedgerInit, LedgerTypeOK, Idle
<1>3. WritesInv /\ CallsInv BY DEF LedgerInit, WritesInv, CallsInv, NoChurn, Idle
<1> QED BY <1>2, <1>3 DEF LedgerInv

\* What a write leaves in the file.
LEMMA WriteFacts ==
  ASSUME LedgerTypeOK, NEW p \in Processes
  PROVE  /\ Extended(call[p].tl, call[p].entry) \in Seq(Stored)
         /\ \A x \in Overlaid(Extended(call[p].tl, call[p].entry), ledger) : x \in Seq(Stored)
         /\ \A c \in Cuts(Extended(call[p].tl, call[p].entry)) : \A x \in Overlaid(c, ledger) : x \in Seq(Stored)
<1>1. call[p].tl \in Seq(Stored) /\ call[p].entry \in Stored /\ ledger \in Seq(Stored) BY CallFacts
<1>2. Extended(call[p].tl, call[p].entry) \in Seq(Stored) BY <1>1, AppendProperties DEF Extended
<1> QED BY <1>1, <1>2, CutsFacts, OverlaidFacts

LEMMA LedgerTypeStep == LedgerTypeOK /\ [LedgerNext]_ledgerVars => LedgerTypeOK'
<1> SUFFICES ASSUME LedgerTypeOK, [LedgerNext]_ledgerVars PROVE LedgerTypeOK' OBVIOUS
<1> DEFINE Calling == [at : {"idle", "called", "loaded", "truncated"},
                       entry : Entries \cup {Entry(Cut, Cut)}, tl : Seq(Stored)]
<1>1. /\ ledger \in Seq(Stored) /\ call \in [Processes -> Calling]
      /\ \A p \in Processes : call[p].at # "idle" => call[p].entry \in Entries
      /\ calls \in 0 .. MaxCalls /\ returned \in Seq(Entries) /\ apart \subseteq {"calls", "writes"}
  BY DEF LedgerTypeOK
<1>2. <<>> \in Seq(Stored) BY EmptySeq
<1>3. Idle \in Calling /\ Idle.at = "idle" BY <1>2 DEF Idle
<1>4. ASSUME NEW p \in Processes, call' = [call EXCEPT ![p] = Idle]
      PROVE  /\ call' \in [Processes -> Calling]
             /\ \A q \in Processes : call'[q].at # "idle" => call'[q].entry \in Entries
  <2> HIDE DEF Calling
  <2> QED BY <1>1, <1>3, <1>4
<1>5. ASSUME NEW p \in Processes, NEW e \in Entries, Call(p, e) PROVE LedgerTypeOK'
  <2> DEFINE new == [at |-> "called", entry |-> e, tl |-> <<>>]
  <2>1. new \in Calling /\ new.entry \in Entries BY <1>2
  <2>2. call' = [call EXCEPT ![p] = new] BY <1>5 DEF Call
  <2>3. /\ call' \in [Processes -> Calling]
        /\ \A q \in Processes : call'[q].at # "idle" => call'[q].entry \in Entries
    <3> HIDE DEF Calling, new
    <3> QED BY <1>1, <2>1, <2>2
  <2>4. calls' \in 0 .. MaxCalls BY <1>1, <1>5, LedgerAssumption DEF Call
  <2>5. ledger' = ledger /\ returned' = returned /\ apart' \subseteq apart BY <1>5 DEF Call
  <2> QED BY <1>1, <2>3, <2>4, <2>5 DEF LedgerTypeOK
<1>6. ASSUME NEW p \in Processes, LoadFails(p) PROVE LedgerTypeOK'
  BY <1>1, <1>4, <1>6 DEF LoadFails, LedgerTypeOK
<1>7. ASSUME NEW p \in Processes, LoadTimeline(p) PROVE LedgerTypeOK'
  <2> DEFINE new == IF Unchanged(ledger, call[p].entry) THEN Idle
                    ELSE [call[p] EXCEPT !.at = "loaded", !.tl = ledger]
  <2>1. call' = [call EXCEPT ![p] = new] BY <1>7 DEF LoadTimeline
  <2>2. new \in Calling /\ (new.at # "idle" => new.entry \in Entries)
    <3>1. CASE Unchanged(ledger, call[p].entry) BY <1>3, <3>1
    <3>2. CASE ~Unchanged(ledger, call[p].entry)
      <4>1. call[p] \in Calling /\ call[p].entry \in Entries BY <1>1, <1>7 DEF LoadTimeline
      <4>2. new = [call[p] EXCEPT !.at = "loaded", !.tl = ledger] BY <3>2
      <4> QED BY <1>1, <4>1, <4>2
    <3> QED BY <3>1, <3>2
  <2>3. /\ call' \in [Processes -> Calling]
        /\ \A q \in Processes : call'[q].at # "idle" => call'[q].entry \in Entries
    <3> HIDE DEF Calling, new
    <3> QED BY <1>1, <2>1, <2>2
  <2> QED BY <1>1, <1>7, <2>3 DEF LoadTimeline, LedgerTypeOK
<1>8. ASSUME NEW p \in Processes, Truncate(p) PROVE LedgerTypeOK'
  <2>1. call' = [call EXCEPT ![p].at = "truncated"] BY <1>8 DEF Truncate
  <2>2. call[p].at = "loaded" BY <1>8 DEF Truncate
  <2>3. /\ call' \in [Processes -> Calling]
        /\ \A q \in Processes : call'[q].at # "idle" => call'[q].entry \in Entries
    BY <1>1, <2>1, <2>2
  <2>4. ledger' = <<>> /\ calls' = calls /\ returned' = returned /\ apart' \subseteq apart BY <1>8 DEF Truncate
  <2> QED BY <1>1, <1>2, <2>3, <2>4 DEF LedgerTypeOK
<1>9. ASSUME NEW p \in Processes, WriteTimeline(p) PROVE LedgerTypeOK'
  <2>1. call' = [call EXCEPT ![p] = Idle] BY <1>9 DEF WriteTimeline
  <2>2. ledger' \in Seq(Stored) BY <1>9, WriteFacts DEF WriteTimeline
  <2>3. call[p].entry \in Entries /\ returned' = Append(returned, call[p].entry) BY <1>1, <1>9 DEF WriteTimeline
  <2>4. returned' \in Seq(Entries) BY <1>1, <2>3, AppendProperties
  <2> QED BY <1>1, <1>4, <1>9, <2>1, <2>2, <2>4 DEF WriteTimeline, LedgerTypeOK
<1>10. ASSUME NEW p \in Processes, WriteFails(p) PROVE LedgerTypeOK'
  <2>1. call' = [call EXCEPT ![p] = Idle] BY <1>10 DEF WriteFails
  <2>2. ledger' \in Seq(Stored) BY <1>10, WriteFacts DEF WriteFails
  <2>3. calls' = calls /\ returned' = returned /\ apart' \subseteq apart BY <1>10 DEF WriteFails
  <2> QED BY <1>1, <1>4, <2>1, <2>2, <2>3 DEF LedgerTypeOK
<1>11. ASSUME NEW p \in Processes, Kill(p) PROVE LedgerTypeOK'
  <2>1. call' = [call EXCEPT ![p] = Idle] BY <1>11 DEF Kill
  <2>2. ledger' = ledger /\ calls' = calls /\ returned' = returned /\ apart' \subseteq apart BY <1>11 DEF Kill
  <2> QED BY <1>1, <1>4, <2>1, <2>2 DEF LedgerTypeOK
<1>12. CASE UNCHANGED ledgerVars BY <1>1, <1>12 DEF ledgerVars, LedgerTypeOK
<1> QED BY <1>5, <1>6, <1>7, <1>8, <1>9, <1>10, <1>11, <1>12 DEF LedgerNext

\* What each step does to the call of its process, and that it leaves the others alone.
LEMMA StepFacts ==
  ASSUME LedgerTypeOK, NEW p \in Processes
  PROVE  /\ \A e : Call(p, e) => call'[p].at = "called"
         /\ LoadFails(p) \/ WriteTimeline(p) \/ WriteFails(p) \/ Kill(p) => call'[p].at = "idle"
         /\ LoadTimeline(p) => IF Unchanged(ledger, call[p].entry) THEN call'[p].at = "idle"
                               ELSE call'[p].at = "loaded" /\ call'[p].tl = ledger /\ call'[p].entry = call[p].entry
         /\ Truncate(p) => call'[p].at = "truncated" /\ call'[p].tl = call[p].tl /\ call'[p].entry = call[p].entry
         /\ (\E e : Call(p, e)) \/ LoadFails(p) \/ LoadTimeline(p) \/ Truncate(p) \/ WriteTimeline(p) \/ WriteFails(p) \/ Kill(p)
              => \A q \in Processes \ {p} : call'[q] = call[q]
<1>1. DOMAIN call = Processes
      /\ call \in [Processes -> [at : {"idle", "called", "loaded", "truncated"},
                                 entry : Entries \cup {Entry(Cut, Cut)}, tl : Seq(Stored)]] BY DEF LedgerTypeOK
<1>2. Idle.at = "idle" BY DEF Idle
<1>3. ASSUME NEW e, Call(p, e) PROVE call'[p].at = "called" /\ \A q \in Processes \ {p} : call'[q] = call[q]
  BY <1>1, <1>3 DEF Call
<1>4. LoadFails(p) \/ WriteTimeline(p) \/ WriteFails(p) \/ Kill(p)
        => call'[p].at = "idle" /\ \A q \in Processes \ {p} : call'[q] = call[q]
  BY <1>1, <1>2 DEF LoadFails, WriteTimeline, WriteFails, Kill
<1>5. ASSUME LoadTimeline(p)
      PROVE  /\ IF Unchanged(ledger, call[p].entry) THEN call'[p].at = "idle"
                ELSE call'[p].at = "loaded" /\ call'[p].tl = ledger /\ call'[p].entry = call[p].entry
             /\ \A q \in Processes \ {p} : call'[q] = call[q]
  <2>1. /\ call'[p] = IF Unchanged(ledger, call[p].entry) THEN Idle
                      ELSE [call[p] EXCEPT !.at = "loaded", !.tl = ledger]
        /\ \A q \in Processes \ {p} : call'[q] = call[q]
    BY <1>1, <1>5 DEF LoadTimeline
  <2> QED BY <1>1, <1>2, <2>1
<1>6. ASSUME Truncate(p)
      PROVE  /\ call'[p].at = "truncated" /\ call'[p].tl = call[p].tl /\ call'[p].entry = call[p].entry
             /\ \A q \in Processes \ {p} : call'[q] = call[q]
  BY <1>1, <1>6 DEF Truncate
<1> QED BY <1>3, <1>4, <1>5, <1>6

\* A write that is alone with the file leaves a ledger without churn.
LEMMA WritesFacts ==
  ASSUME LedgerTypeOK, WritesInv, "writes" \in apart, NEW p \in Processes, WriteTimeline(p) \/ WriteFails(p)
  PROVE  NoChurn(ledger')
<1> DEFINE new == Extended(call[p].tl, call[p].entry)
<1>1. /\ call[p].at = "truncated" /\ call[p].tl \in Seq(Stored) /\ call[p].entry \in Stored
  BY CallFacts DEF WriteTimeline, WriteFails
<1>2. NoChurn(call[p].tl) /\ ~Unchanged(call[p].tl, call[p].entry) /\ ledger = <<>> BY <1>1 DEF WritesInv
<1>3. new \in Seq(Stored) BY WriteFacts
<1>4. NoChurn(new) BY <1>1, <1>2, NoChurnAppend DEF Extended
<1>5. <<>> \in Seq(Stored) BY EmptySeq
<1> HIDE DEF new
<1>6. ASSUME WriteTimeline(p) PROVE NoChurn(ledger')
  <2>1. ledger' \in Overlaid(new, <<>>) BY <1>2, <1>6 DEF WriteTimeline, new
  <2>2. ledger' = new BY <1>3, <1>5, <2>1, OverlaidFacts
  <2> QED BY <1>4, <2>2
<1>7. ASSUME WriteFails(p) PROVE NoChurn(ledger')
  <2>1. PICK c \in Cuts(new) : ledger' \in Overlaid(c, <<>>) BY <1>2, <1>7 DEF WriteFails, new
  <2>2. c \in Seq(Stored) /\ NoChurn(c) BY <1>3, <1>4, CutsFacts
  <2>3. ledger' = c BY <1>5, <2>1, <2>2, OverlaidFacts
  <2> QED BY <2>2, <2>3
<1> QED BY <1>6, <1>7

LEMMA WritesStep == LedgerInv /\ [LedgerNext]_ledgerVars => WritesInv'
<1> SUFFICES ASSUME LedgerInv, [LedgerNext]_ledgerVars, "writes" \in apart'
             PROVE  /\ NoChurn(ledger')
                    /\ \A p \in Processes : call'[p].at \in {"loaded", "truncated"} =>
                         NoChurn(call'[p].tl) /\ ~Unchanged(call'[p].tl, call'[p].entry)
                    /\ \A p \in Processes : call'[p].at = "truncated" =>
                         ledger' = <<>> /\ \A q \in Processes \ {p} : call'[q].at # "truncated"
  BY DEF WritesInv
<1>1. LedgerTypeOK /\ WritesInv BY DEF LedgerInv
<1>2. "writes" \in apart
  BY DEF LedgerNext, ledgerVars, Call, LoadFails, LoadTimeline, Truncate, WriteTimeline, WriteFails, Kill
<1>3. /\ NoChurn(ledger)
      /\ \A p \in Processes : call[p].at \in {"loaded", "truncated"} =>
           NoChurn(call[p].tl) /\ ~Unchanged(call[p].tl, call[p].entry)
      /\ \A p \in Processes : call[p].at = "truncated" =>
           ledger = <<>> /\ \A q \in Processes \ {p} : call[q].at # "truncated"
  BY <1>1, <1>2 DEF WritesInv
<1>4. ASSUME NEW p \in Processes, (\E e : Call(p, e)) \/ LoadFails(p) \/ LoadTimeline(p) \/ Kill(p)
      PROVE  /\ ledger' = ledger
             /\ call'[p].at # "truncated"
             /\ \A q \in Processes \ {p} : call'[q] = call[q]
             /\ call'[p].at = "loaded" => NoChurn(call'[p].tl) /\ ~Unchanged(call'[p].tl, call'[p].entry)
  <2>1. ledger' = ledger BY <1>4 DEF Call, LoadFails, LoadTimeline, Kill
  <2>2. \A q \in Processes \ {p} : call'[q] = call[q] BY <1>1, <1>4, StepFacts
  <2>3. (call'[p].at # "loaded" /\ call'[p].at # "truncated") \/ LoadTimeline(p) BY <1>1, <1>4, StepFacts
  <2>4. LoadTimeline(p) => /\ call'[p].at # "truncated"
                           /\ call'[p].at = "loaded" => NoChurn(call'[p].tl) /\ ~Unchanged(call'[p].tl, call'[p].entry)
    BY <1>1, <1>3, StepFacts
  <2> QED BY <2>1, <2>2, <2>3, <2>4
<1>5. CASE \E p \in Processes : (\E e : Call(p, e)) \/ LoadFails(p) \/ LoadTimeline(p) \/ Kill(p)
  BY <1>3, <1>4, <1>5
<1>6. ASSUME NEW p \in Processes, Truncate(p)
      PROVE  /\ ledger' = <<>> /\ call[p].at = "loaded" /\ call'[p].at = "truncated"
             /\ call'[p].tl = call[p].tl /\ call'[p].entry = call[p].entry
             /\ \A q \in Processes \ {p} : call'[q] = call[q] /\ call[q].at # "truncated"
  <2>1. ~Others(p, {"truncated"}) BY <1>6 DEF Truncate
  <2>2. \A q \in Processes \ {p} : call[q].at # "truncated" BY <2>1 DEF Others
  <2>3. ledger' = <<>> /\ call[p].at = "loaded" BY <1>6 DEF Truncate
  <2> QED BY <1>1, <1>6, <2>2, <2>3, StepFacts
<1>7. NoChurn(<<>>) BY DEF NoChurn
<1>8. CASE \E p \in Processes : Truncate(p) BY <1>3, <1>6, <1>7, <1>8
<1>9. ASSUME NEW p \in Processes, WriteTimeline(p) \/ WriteFails(p)
      PROVE  /\ NoChurn(ledger') /\ call[p].at = "truncated" /\ call'[p].at = "idle"
             /\ \A q \in Processes \ {p} : call'[q] = call[q]
  <2>1. NoChurn(ledger') BY <1>1, <1>2, <1>9, WritesFacts
  <2> QED BY <1>1, <1>9, <2>1, StepFacts DEF WriteTimeline, WriteFails
<1>10. CASE \E p \in Processes : WriteTimeline(p) \/ WriteFails(p) BY <1>3, <1>9, <1>10
<1>11. CASE UNCHANGED ledgerVars BY <1>3, <1>11 DEF ledgerVars
<1> QED BY <1>5, <1>8, <1>10, <1>11 DEF LedgerNext

LEMMA CallsStep == LedgerInv /\ [LedgerNext]_ledgerVars => CallsInv'
<1> SUFFICES ASSUME LedgerInv, [LedgerNext]_ledgerVars, "calls" \in apart'
             PROVE  /\ \A p, q \in Processes : call'[p].at # "idle" /\ call'[q].at # "idle" => p = q
                    /\ \A p \in Processes : call'[p].at \in {"loaded", "truncated"} => call'[p].tl = returned'
                    /\ \A p \in Processes : call'[p].at = "truncated" => ledger' = <<>>
                    /\ (\A p \in Processes : call'[p].at # "truncated") => ledger' = returned'
  BY DEF CallsInv, Settled
<1>1. LedgerTypeOK /\ CallsInv /\ "calls" \in apart
  BY DEF LedgerInv, LedgerNext, ledgerVars, Call, LoadFails, LoadTimeline, Truncate, WriteTimeline, WriteFails, Kill
<1>2. /\ \A p, q \in Processes : call[p].at # "idle" /\ call[q].at # "idle" => p = q
      /\ \A p \in Processes : call[p].at \in {"loaded", "truncated"} => call[p].tl = returned
      /\ \A p \in Processes : call[p].at = "truncated" => ledger = <<>>
      /\ (\A p \in Processes : call[p].at # "truncated") => ledger = returned
  BY <1>1 DEF CallsInv, Settled
<1>3. ASSUME NEW p \in Processes, NEW e, Call(p, e)
      PROVE  /\ ledger' = ledger /\ returned' = returned /\ call[p].at = "idle" /\ call'[p].at = "called"
             /\ \A q \in Processes \ {p} : call'[q] = call[q] /\ call[q].at = "idle"
  <2>1. ~Others(p, {"called", "loaded", "truncated"}) BY <1>3 DEF Call
  <2>2. \A q \in Processes \ {p} : call[q].at \in {"idle", "called", "loaded", "truncated"} BY <1>1, CallFacts
  <2>3. \A q \in Processes \ {p} : call[q].at = "idle" BY <2>1, <2>2 DEF Others
  <2>4. ledger' = ledger /\ returned' = returned /\ call[p].at = "idle" BY <1>3 DEF Call
  <2> QED BY <1>1, <1>3, <2>3, <2>4, StepFacts
<1>4. CASE \E p \in Processes : \E e : Call(p, e) BY <1>2, <1>3, <1>4
<1>5. ASSUME NEW p \in Processes, LoadFails(p) \/ LoadTimeline(p) \/ Truncate(p) \/ WriteTimeline(p)
      PROVE  /\ call[p].at # "idle"
             /\ \A q \in Processes \ {p} : call'[q] = call[q] /\ call[q].at = "idle"
  <2>1. call[p].at # "idle" BY <1>5 DEF LoadFails, LoadTimeline, Truncate, WriteTimeline
  <2> QED BY <1>1, <1>2, <1>5, <2>1, StepFacts
<1>6. ASSUME NEW p \in Processes, LoadFails(p) \/ LoadTimeline(p)
      PROVE  /\ ledger' = ledger /\ returned' = returned /\ ledger = returned
             /\ call'[p].at # "truncated"
             /\ call'[p].at = "loaded" => call'[p].tl = ledger
  <2>1. ledger' = ledger /\ returned' = returned /\ call[p].at = "called" BY <1>6 DEF LoadFails, LoadTimeline
  <2>2. \A q \in Processes : call[q].at # "truncated" BY <1>5, <1>6, <2>1
  <2> QED BY <1>1, <1>2, <1>6, <2>1, <2>2, StepFacts
<1>7. CASE \E p \in Processes : LoadFails(p) \/ LoadTimeline(p) BY <1>2, <1>5, <1>6, <1>7
<1>8. ASSUME NEW p \in Processes, Truncate(p)
      PROVE  /\ ledger' = <<>> /\ returned' = returned
             /\ call'[p].at = "truncated" /\ call'[p].tl = returned
  <2>1. ledger' = <<>> /\ returned' = returned /\ call[p].at = "loaded" BY <1>8 DEF Truncate
  <2> QED BY <1>1, <1>2, <1>8, <2>1, StepFacts
<1>9. CASE \E p \in Processes : Truncate(p) BY <1>2, <1>5, <1>8, <1>9
<1>10. ASSUME NEW p \in Processes, WriteTimeline(p)
       PROVE  /\ call'[p].at = "idle" /\ ledger' = returned'
  <2>1. call[p].at = "truncated" /\ returned' = Append(returned, call[p].entry) BY <1>10 DEF WriteTimeline
  <2>2. call[p].tl = returned /\ ledger = <<>> BY <1>2, <2>1
  <2>3. Extended(call[p].tl, call[p].entry) = returned' BY <2>1, <2>2 DEF Extended
  <2>4. returned' \in Seq(Stored) BY <1>1, <2>3, WriteFacts
  <2>5. ledger' \in Overlaid(returned', <<>>) BY <1>10, <2>2, <2>3 DEF WriteTimeline
  <2>6. <<>> \in Seq(Stored) BY EmptySeq
  <2>7. ledger' = returned' BY <2>4, <2>5, <2>6, OverlaidFacts
  <2> QED BY <1>1, <1>10, <2>7, StepFacts
<1>11. CASE \E p \in Processes : WriteTimeline(p) BY <1>2, <1>5, <1>10, <1>11
<1>12. ~\E p \in Processes : WriteFails(p) \/ Kill(p) BY DEF WriteFails, Kill
<1>13. CASE UNCHANGED ledgerVars BY <1>2, <1>13 DEF ledgerVars
<1> QED BY <1>4, <1>7, <1>9, <1>11, <1>12, <1>13 DEF LedgerNext

LEMMA LedgerInvHolds == LedgerSpec => []LedgerInv
<1>1. LedgerInv /\ [LedgerNext]_ledgerVars => LedgerInv' BY LedgerTypeStep, WritesStep, CallsStep DEF LedgerInv
<1> QED BY LedgerInitInv, <1>1, PTL DEF LedgerSpec
-----------------------------------------------------------------------------
(* The theorems *)

\* The file, the calls and what was added have their types (timeline.go:23-86).
THEOREM LedgerTypeCorrect == LedgerSpec => []LedgerTypeOK
<1>1. LedgerInv => LedgerTypeOK BY DEF LedgerInv
<1> QED BY LedgerInvHolds, <1>1, PTL

\* However many test processes append to the ledger, and whatever fails or is killed on the way: as
\* long as no two writes overlapped no scenario has the same digest twice in a row, and as long as no
\* two calls did, and none broke off, the ledger is the history of what was reported as added
\* (AppendTimeline, timeline.go:43-86).
THEOREM LedgerTrueCorrect == LedgerSpec => []LedgerTrue
<1>1. LedgerInv => LedgerTrue BY DEF LedgerInv, WritesInv, CallsInv, LedgerTrue
<1> QED BY LedgerInvHolds, <1>1, PTL
=============================================================================
