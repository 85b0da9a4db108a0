------------------------------ MODULE Relays_proofs ------------------------------
(***************************************************************************)
(* The theorems of the commands that stand between an agent and a server:  *)
(* McpProxy, for every number of frames and every size of the pipes, and   *)
(* FrontDoor, for every finite set of requests and every set of routes.    *)
(*                                                                         *)
(* Of McpProxy: a request is at one place at a time: on our stdin, in the  *)
(* client pump, on the server's stdin, with the server, or, as its result, *)
(* on the way back; the places further on hold earlier requests.  So the   *)
(* answer of a tools request finds its registration, and no other frame    *)
(* does.                                                                   *)
(*                                                                         *)
(* Of FrontDoor: a handler that has ended stays as it is, the count of a   *)
(* route is the number of its misses, and what the hooks have decided is   *)
(* about a state that no handler changes any more.                         *)
(***************************************************************************)
EXTENDS McpProxy, FrontDoor, TLAPS, SequenceTheorems, FiniteSetTheorems

-----------------------------------------------------------------------------
(* McpProxy *)

(* The requests that were forwarded: all that were scanned, but the one    *)
(* the pump still has to write.                                            *)
Forwarded == IF cp = "write" THEN 1..(chand - 1) ELSE 1..chand

(* What the client sent is scanned in order, with no frame left out.       *)
ClientInv ==
    /\ Len(sent) <= MaxLines
    /\ Len(cin) <= Len(sent)
    /\ \A i \in DOMAIN cin : cin[i] = Len(sent) - Len(cin) + i
    /\ chand = Len(sent) - Len(cin)
    /\ cp = "write" => chand > 0

(* What the server has not read is later than what it has.                 *)
ServerInv ==
    /\ \A i \in DOMAIN sin : sin[i] \in Forwarded
    /\ \A i, j \in DOMAIN sin : i < j => sin[i] < sin[j]
    /\ asked \subseteq Forwarded
    /\ \A id \in asked : \A i \in DOMAIN sin : id < sin[i]

(* A request that was answered is not asked any more.                      *)
Answered(id) ==
    /\ id \in Forwarded
    /\ id \notin asked
    /\ \A i \in DOMAIN sin : id < sin[i]

Held == sp \in {"write", "tee"} /\ shand.kind = "result"

(* No two of the results on the way back are of one request.               *)
ResultsInv ==
    /\ \A k \in DOMAIN sout : sout[k].kind = "result" => Answered(sout[k].id)
    /\ \A k, l \in DOMAIN sout :
           sout[k].kind = "result" /\ sout[l].kind = "result" /\ k # l => sout[k].id # sout[l].id
    /\ Held =>
           /\ Answered(shand.id)
           /\ \A k \in DOMAIN sout : sout[k].kind = "result" => sout[k].id # shand.id
    /\ \A k \in DOMAIN cout : cout[k].kind = "result" => cout[k].id \in Forwarded

(* A tools request is registered from before it is forwarded until its     *)
(* result is taken.                                                        *)
PendingInv ==
    /\ cp = "write" /\ sent[chand] = "tool" => chand \in pending
    /\ \A i \in DOMAIN sin : sent[sin[i]] = "tool" => sin[i] \in pending
    /\ \A id \in asked : sent[id] = "tool" => id \in pending
    /\ \A k \in DOMAIN sout :
           sout[k].kind = "result" /\ sent[sout[k].id] = "tool" => sout[k].id \in pending
    /\ Held /\ sent[shand.id] = "tool" => shand.id \in pending

(* The last frame the client got is on record once the pump has looked.    *)
RecordInv ==
    IF sp = "tee" THEN cout # <<>> /\ shand = cout[Len(cout)] /\ Records(Len(cout) - 1)
    ELSE Records(Len(cout))

Inv == TypeOK /\ ClientInv /\ ServerInv /\ ResultsInv /\ PendingInv /\ RecordInv
-----------------------------------------------------------------------------
(* What the frames of a pipe are after one was added, ...                  *)
LEMMA AppendFacts ==
    ASSUME NEW S, NEW s \in Seq(S), NEW e \in S
    PROVE  /\ Append(s, e) \in Seq(S)
           /\ Len(s) \in Nat /\ DOMAIN s = 1..Len(s)
           /\ Len(Append(s, e)) = Len(s) + 1
           /\ DOMAIN Append(s, e) = 1..(Len(s) + 1)
           /\ \A i \in 1..Len(s) : Append(s, e)[i] = s[i]
           /\ Append(s, e)[Len(s) + 1] = e
BY AppendProperties, LenProperties

(* ... and after one was taken out.                                        *)
LEMMA TailFacts ==
    ASSUME NEW S, NEW s \in Seq(S), s # <<>>
    PROVE  /\ Head(s) = s[1] /\ Head(s) \in S
           /\ Tail(s) \in Seq(S)
           /\ Len(s) \in Nat \ {0} /\ DOMAIN s = 1..Len(s)
           /\ Len(Tail(s)) = Len(s) - 1
           /\ DOMAIN Tail(s) = 1..(Len(s) - 1)
           /\ \A i \in 1..(Len(s) - 1) : Tail(s)[i] = s[i + 1]
<1>1. Len(s) \in Nat \ {0} /\ DOMAIN s = 1..Len(s) BY EmptySeq, LenProperties
<1>2. Tail(s) \in Seq(S) /\ Len(Tail(s)) = Len(s) - 1
      /\ \A i \in 1..Len(Tail(s)) : Tail(s)[i] = s[i + 1] /\ Head(s) \in S
  BY HeadTailProperties
<1>3. DOMAIN Tail(s) = 1..Len(Tail(s)) BY <1>2, LenProperties
<1>4. Head(s) = s[1] BY <1>1
<1> QED BY <1>1, <1>2, <1>3, <1>4

(* The pipes and the recording are sequences.                              *)
LEMMA PipeFacts ==
    ASSUME TypeOK
    PROVE  /\ Len(sent) \in Nat /\ DOMAIN sent = 1..Len(sent)
           /\ Len(cin) \in Nat /\ DOMAIN cin = 1..Len(cin)
           /\ Len(sin) \in Nat /\ DOMAIN sin = 1..Len(sin)
           /\ Len(sout) \in Nat /\ DOMAIN sout = 1..Len(sout)
           /\ Len(cout) \in Nat /\ DOMAIN cout = 1..Len(cout)
           /\ Len(rec) \in Nat /\ DOMAIN rec = 1..Len(rec)
           /\ \A i \in DOMAIN cin : cin[i] \in Ids
           /\ \A i \in DOMAIN sin : sin[i] \in Ids
           /\ \A k \in DOMAIN sout : sout[k] \in Frames
           /\ \A k \in DOMAIN cout : cout[k] \in Frames
           /\ chand \in Nat /\ asked \subseteq Ids /\ Ids \subseteq Nat
           /\ MaxLines \in Nat /\ \A n \in Nat : n \in Ids <=> 0 < n /\ n <= MaxLines
BY LenProperties, ElementOfSeq, BoundsAssumption DEF TypeOK, Ids
-----------------------------------------------------------------------------
LEMMA InitInv == Init => Inv
<1> SUFFICES ASSUME Init PROVE Inv OBVIOUS
<1>1. \A S : <<>> \in Seq(S) /\ Len(<<>>) = 0 /\ DOMAIN <<>> = {} BY EmptySeq
<1>2. TypeOK BY <1>1, BoundsAssumption DEF Init, TypeOK
<1>3. ClientInv BY <1>1, BoundsAssumption DEF Init, ClientInv
<1>4. ServerInv /\ ResultsInv /\ PendingInv BY <1>1 DEF Init, ServerInv, ResultsInv, PendingInv, Held
<1>5. RecordInv
  <2>1. Heard(0) = {} BY DEF Heard
  <2>2. rec = <<>> /\ cout = <<>> /\ Len(cout) = 0 /\ sp # "tee" BY <1>1 DEF Init
  <2>3. [i \in {} |-> 0] \in [DOMAIN rec -> Heard(0)] BY <1>1, <2>1, <2>2
  <2>4. Records(0) BY <1>1, <2>1, <2>2, <2>3 DEF Records
  <2> QED BY <2>2, <2>4 DEF RecordInv
<1> QED BY <1>2, <1>3, <1>4, <1>5 DEF Inv

LEMMA TypeStep == TypeOK /\ ClientInv /\ [Next]_vars => TypeOK'
<1> SUFFICES ASSUME TypeOK, ClientInv, [Next]_vars PROVE TypeOK'
  OBVIOUS
<1> USE PipeFacts, BoundsAssumption DEF TypeOK, Ids, clientSide, clientPump, serverSide, serverPump
<1>1. ASSUME ClientSends PROVE TypeOK'
  <2>1. PICK kind \in {"tool", "other", "long"} : sent' = Append(sent, kind) BY <1>1 DEF ClientSends
  <2>2. sent' \in Seq({"tool", "other", "long"}) /\ DOMAIN sent' = 1..(Len(sent) + 1)
        /\ \A i \in 1..Len(sent) : sent'[i] = sent[i]
    BY <2>1, AppendFacts
  <2>3. Len(sent) + 1 \in Ids BY <1>1 DEF ClientSends
  <2>4. cin' \in Seq(Ids) BY <1>1, <2>3, AppendFacts DEF ClientSends
  <2>5. pending' \subseteq {i \in DOMAIN sent' : sent'[i] = "tool"} BY <1>1, <2>2 DEF ClientSends
  <2> QED BY <1>1, <2>2, <2>4, <2>5 DEF ClientSends
<1>2. ASSUME ClientEnds PROVE TypeOK' BY <1>2 DEF ClientEnds
<1>3. ASSUME ScanLine PROVE TypeOK'
  <2>1. cin' \in Seq(Ids) /\ chand' \in Ids /\ chand' = cin[1] /\ 1 \in DOMAIN cin
    BY <1>3, TailFacts DEF ScanLine
  <2>2. cin[1] \in DOMAIN sent BY <2>1 DEF ClientInv
  <2> QED BY <1>3, <2>1, <2>2 DEF ScanLine
<1>4. ASSUME ClientPumpEnds PROVE TypeOK' BY <1>4 DEF ClientPumpEnds
<1>5. ASSUME WriteServer PROVE TypeOK'
  <2>1. chand \in Ids BY <1>5 DEF WriteServer, ClientInv
  <2>2. Append(sin, chand) \in Seq(Ids) BY <2>1, AppendFacts
  <2> QED BY <1>5, <2>2 DEF WriteServer
<1>6. ASSUME ServerReads PROVE TypeOK'
  <2>1. sin' \in Seq(Ids) /\ Head(sin) \in Ids BY <1>6, TailFacts DEF ServerReads
  <2> QED BY <1>6, <2>1 DEF ServerReads
<1>7. ASSUME ServerSends PROVE TypeOK'
  <2>1. \A f \in Frames : Append(sout, f) \in Seq(Frames) BY AppendFacts
  <2>2. \A kind \in {"result", "error", "request"}, id \in Ids : [kind |-> kind, id |-> id] \in Frames
    BY DEF Frames
  <2>3. [kind |-> "long", id |-> 0] \in Frames BY DEF Frames
  <2>4. sout' \in Seq(Frames) BY <1>7, <2>1, <2>2, <2>3 DEF ServerSends
  <2>5. frames' \in 0..MaxFrames BY <1>7 DEF ServerSends
  <2>6. asked' \subseteq Ids /\ server' \in {"up", "stuck", "gone"} BY <1>7 DEF ServerSends
  <2> QED BY <1>7, <2>4, <2>5, <2>6 DEF ServerSends
<1>8. ASSUME ServerExits \/ ServerCrashes PROVE TypeOK'
  BY <1>8 DEF ServerExits, ServerCrashes, ServerGone
<1>9. ASSUME ScanFrame PROVE TypeOK'
  <2>1. sout' \in Seq(Frames) /\ shand' \in Frames BY <1>9, TailFacts DEF ScanFrame
  <2> QED BY <1>9, <2>1 DEF ScanFrame
<1>10. ASSUME ServerPumpEnds PROVE TypeOK' BY <1>10 DEF ServerPumpEnds
<1>11. ASSUME WriteClient PROVE TypeOK'
  <2>1. Append(cout, shand) \in Seq(Frames)
    <3>1. shand \in Frames BY <1>11 DEF WriteClient
    <3> QED BY <3>1, AppendFacts
  <2> QED BY <1>11, <2>1 DEF WriteClient
<1>12. ASSUME TeeFrame PROVE TypeOK'
  <2>1. ASSUME Answers(shand) PROVE rec' \in Seq(Ids) /\ pending' \subseteq pending
    <3>1. shand.id \in Ids BY <2>1 DEF Answers, ClientInv
    <3>2. Append(rec, shand.id) \in Seq(Ids) BY <3>1, AppendFacts
    <3> QED BY <1>12, <2>1, <3>2 DEF TeeFrame
  <2> QED BY <1>12, <2>1 DEF TeeFrame
<1>13. ASSUME PumpsDone PROVE TypeOK' BY <1>13 DEF PumpsDone
<1>14. ASSUME WaitDone PROVE TypeOK' BY <1>14 DEF WaitDone
<1>15. CASE UNCHANGED vars BY <1>15 DEF vars
<1> QED
  BY <1>1, <1>2, <1>3, <1>4, <1>5, <1>6, <1>7, <1>8, <1>9, <1>10, <1>11, <1>12, <1>13, <1>14, <1>15
  DEF Next
-----------------------------------------------------------------------------
LEMMA ClientStep == Inv /\ [Next]_vars => ClientInv'
<1> SUFFICES ASSUME Inv, [Next]_vars PROVE ClientInv'
  OBVIOUS
<1>0. TypeOK /\ ClientInv BY DEF Inv
<1> USE DEF ClientInv, clientSide, clientPump
<1>1. CASE ClientSends
  <2>1. PICK kind \in {"tool", "other", "long"} : sent' = Append(sent, kind) BY <1>1 DEF ClientSends
  <2>2. Len(sent') = Len(sent) + 1 BY <1>0, <2>1, AppendFacts DEF TypeOK
  <2>3. Len(sent) + 1 \in Ids /\ Len(sent) + 1 <= MaxLines BY <1>0, <1>1, PipeFacts DEF ClientSends
  <2>4. Len(cin') = Len(cin) + 1 /\ DOMAIN cin' = 1..(Len(cin) + 1)
        /\ (\A i \in 1..Len(cin) : cin'[i] = cin[i])
        /\ cin'[Len(cin) + 1] = Len(sent) + 1
    BY <1>0, <1>1, <2>3, AppendFacts DEF ClientSends, TypeOK
  <2>5. chand' = chand /\ cp' = cp BY <1>1 DEF ClientSends
  <2>6. ASSUME NEW i \in DOMAIN cin' PROVE cin'[i] = Len(sent') - Len(cin') + i
    <3>1. Len(cin) \in Nat /\ Len(sent) \in Nat /\ DOMAIN cin = 1..Len(cin) BY <1>0, PipeFacts
    <3>2. CASE i = Len(cin) + 1 BY <2>2, <2>4, <3>1, <3>2
    <3>3. CASE i \in 1..Len(cin)
      <4>1. cin[i] = Len(sent) - Len(cin) + i BY <1>0, <3>1, <3>3
      <4> QED BY <2>2, <2>4, <3>1, <3>3, <4>1
    <3> QED BY <2>4, <3>1, <3>2, <3>3
  <2> QED BY <1>0, <2>2, <2>3, <2>4, <2>5, <2>6, PipeFacts
<1>2. CASE ScanLine
  <2>1. Len(cin) > 0 /\ Len(cin') = Len(cin) - 1 /\ DOMAIN cin' = 1..(Len(cin) - 1)
        /\ (\A i \in 1..(Len(cin) - 1) : cin'[i] = cin[i + 1]) /\ chand' = cin[1]
    BY <1>0, <1>2, TailFacts DEF ScanLine, TypeOK
  <2>2. sent' = sent BY <1>2 DEF ScanLine
  <2>3. ASSUME NEW i \in DOMAIN cin' PROVE cin'[i] = Len(sent') - Len(cin') + i
    <3>1. Len(cin) \in Nat /\ Len(sent) \in Nat /\ DOMAIN cin = 1..Len(cin) BY <1>0, PipeFacts
    <3>2. i + 1 \in DOMAIN cin /\ i \in 1..(Len(cin) - 1) BY <2>1, <3>1
    <3>3. cin[i + 1] = Len(sent) - Len(cin) + (i + 1) BY <1>0, <3>2
    <3> QED BY <2>1, <2>2, <3>1, <3>2, <3>3
  <2>4. chand' = Len(sent') - Len(cin') /\ chand' > 0 BY <1>0, <2>1, <2>2, PipeFacts
  <2> QED BY <1>0, <2>1, <2>2, <2>3, <2>4, PipeFacts
<1>3. CASE UNCHANGED <<sent, cin, chand>> /\ cp' \in {"scan", "ended"} BY <1>0, <1>3
<1>4. CASE UNCHANGED <<sent, cin, chand, cp>> BY <1>0, <1>4
<1> QED
  BY <1>1, <1>2, <1>3, <1>4
  DEF Next, vars, clientSide, clientPump, serverSide, serverPump, ClientEnds, ClientPumpEnds, WriteServer, ServerReads, ServerSends, ServerExits, ServerCrashes, ServerGone, ScanFrame, ServerPumpEnds, WriteClient, TeeFrame, PumpsDone, WaitDone

(* A request that was forwarded stays so.                                  *)
LEMMA ForwardedStep ==
    ASSUME Inv, [Next]_vars
    PROVE  /\ Forwarded \subseteq Forwarded'
           /\ ~WriteServer => Forwarded' = Forwarded
           /\ Forwarded \subseteq Ids /\ Forwarded \subseteq DOMAIN sent
<1> USE PipeFacts, BoundsAssumption DEF Inv, TypeOK, ClientInv, Forwarded, Ids, clientSide, clientPump
<1>1. CASE ScanLine
  <2>1. chand' = chand + 1 /\ cp' = "write" /\ cp # "write" BY <1>1, TailFacts DEF ScanLine
  <2> QED BY <1>1, <2>1
<1>2. CASE WriteServer
  <2>1. cp = "write" /\ cp' = "scan" /\ chand' = chand BY <1>2 DEF WriteServer
  <2>2. chand \in Nat BY PipeFacts
  <2> QED BY <1>2, <2>1, <2>2
<1>3. CASE ClientPumpEnds BY <1>3 DEF ClientPumpEnds
<1>4. CASE UNCHANGED <<chand, cp>> BY <1>4
<1> QED
  BY <1>1, <1>2, <1>3, <1>4
  DEF Next, vars, clientSide, clientPump, serverSide, serverPump, ClientSends, ClientEnds, ServerReads, ServerSends, ServerExits, ServerCrashes, ServerGone, ScanFrame, ServerPumpEnds, WriteClient, TeeFrame, PumpsDone, WaitDone

LEMMA ServerStep == Inv /\ [Next]_vars => ServerInv'
<1> SUFFICES ASSUME Inv, [Next]_vars PROVE ServerInv'
  OBVIOUS
<1>0. TypeOK /\ ServerInv /\ ClientInv BY DEF Inv
<1> USE DEF ServerInv, clientSide, clientPump, serverSide
<1>1. CASE WriteServer
  <2>1. cp = "write" /\ cp' = "scan" /\ chand' = chand /\ chand \in Nat \ {0}
    <3>1. chand \in Nat BY <1>0, PipeFacts
    <3>2. cp = "write" /\ cp' = "scan" /\ chand' = chand BY <1>1 DEF WriteServer
    <3> QED BY <1>0, <3>1, <3>2 DEF ClientInv
  <2>2. Forwarded = 1..(chand - 1) /\ Forwarded' = 1..chand BY <2>1 DEF Forwarded
  <2>3. asked' = asked BY <1>1 DEF WriteServer
  <2>4. CASE sin' = sin BY <1>0, <2>1, <2>2, <2>3, <2>4, PipeFacts
  <2>5. CASE sin' = Append(sin, chand)
    <3>1. chand \in Ids BY <1>0, <2>1, BoundsAssumption DEF TypeOK, Ids
    <3>2. DOMAIN sin' = 1..(Len(sin) + 1) /\ (\A i \in 1..Len(sin) : sin'[i] = sin[i])
          /\ sin'[Len(sin) + 1] = chand
      BY <1>0, <2>5, <3>1, AppendFacts DEF TypeOK
    <3>3. \A i \in 1..Len(sin) : sin[i] \in 1..(chand - 1) BY <1>0, <2>2, PipeFacts
    <3>4. \A i \in DOMAIN sin' : sin'[i] \in Forwarded' BY <1>0, <2>1, <2>2, <3>2, <3>3, PipeFacts
    <3>5. ASSUME NEW i \in DOMAIN sin', NEW j \in DOMAIN sin', i < j PROVE sin'[i] < sin'[j]
      <4>1. Len(sin) \in Nat /\ DOMAIN sin = 1..Len(sin) BY <1>0, PipeFacts
      <4>2. i \in 1..Len(sin) /\ sin'[i] = sin[i] BY <3>2, <3>5, <4>1
      <4>3. CASE j \in 1..Len(sin) BY <1>0, <3>2, <3>5, <4>1, <4>2, <4>3
      <4>4. CASE j = Len(sin) + 1 BY <2>1, <3>2, <3>3, <4>2, <4>4
      <4> QED BY <3>2, <4>1, <4>3, <4>4
    <3>6. ASSUME NEW id \in asked', NEW i \in DOMAIN sin' PROVE id < sin'[i]
      <4>1. Len(sin) \in Nat /\ DOMAIN sin = 1..Len(sin) BY <1>0, PipeFacts
      <4>2. id \in asked /\ id \in 1..(chand - 1) BY <1>0, <2>2, <2>3, <3>6
      <4>3. CASE i \in 1..Len(sin) BY <1>0, <3>2, <4>1, <4>2, <4>3
      <4>4. CASE i = Len(sin) + 1 BY <2>1, <3>2, <4>2, <4>4
      <4> QED BY <3>2, <4>1, <4>3, <4>4
    <3>7. asked' \subseteq Forwarded' BY <1>0, <2>1, <2>2, <2>3
    <3> QED BY <3>4, <3>5, <3>6, <3>7
  <2> QED BY <1>1, <2>4, <2>5 DEF WriteServer
<1>2. CASE ServerReads
  <2>1. DOMAIN sin' = 1..(Len(sin) - 1) /\ (\A i \in 1..(Len(sin) - 1) : sin'[i] = sin[i + 1])
        /\ 1 \in DOMAIN sin /\ Head(sin) = sin[1]
    BY <1>0, <1>2, TailFacts DEF ServerReads, TypeOK
  <2>2. asked' = asked \cup {sin[1]} /\ Forwarded' = Forwarded
    BY <1>2, <2>1 DEF ServerReads, Forwarded
  <2>3. \A i \in DOMAIN sin' : i + 1 \in DOMAIN sin /\ 1 < i + 1 /\ sin'[i] = sin[i + 1]
    BY <1>0, <2>1, PipeFacts
  <2>4. ASSUME NEW i \in DOMAIN sin', NEW j \in DOMAIN sin', i < j PROVE sin'[i] < sin'[j]
    <3>1. i + 1 < j + 1 BY <1>0, <2>1, <2>4, PipeFacts
    <3> QED BY <1>0, <2>3, <3>1
  <2> QED BY <1>0, <2>1, <2>2, <2>3, <2>4
<1>3. CASE asked' \subseteq asked /\ sin' = sin /\ Forwarded' = Forwarded BY <1>0, <1>3
<1>4. ~WriteServer => Forwarded' = Forwarded BY ForwardedStep
<1> QED
  BY <1>1, <1>2, <1>3, <1>4
  DEF Next, vars, clientSide, clientPump, serverSide, serverPump, ClientSends, ClientEnds, ScanLine, ClientPumpEnds, ServerSends, ServerExits, ServerCrashes, ServerGone, ScanFrame, ServerPumpEnds, WriteClient, TeeFrame, PumpsDone, WaitDone

(* What was answered is not asked again.                                   *)
LEMMA AnsweredStep ==
    ASSUME Inv, [Next]_vars, NEW id, Answered(id)
    PROVE  id \in Forwarded' /\ id \notin asked' /\ (\A i \in DOMAIN sin' : id < sin'[i])
<1>0. TypeOK /\ ServerInv /\ ClientInv BY DEF Inv
<1>1. id \in Forwarded /\ id \notin asked /\ (\A i \in DOMAIN sin : id < sin[i]) BY DEF Answered
<1>2. id \in Forwarded' BY <1>1, ForwardedStep
<1> USE DEF clientSide, clientPump, serverSide
<1>3. CASE WriteServer
  <2>1. asked' = asked BY <1>3 DEF WriteServer
  <2>2. CASE sin' = sin BY <1>1, <1>2, <2>1, <2>2
  <2>3. CASE sin' = Append(sin, chand)
    <3>1. chand \in Ids /\ cp = "write"
      <4>1. cp = "write" BY <1>3 DEF WriteServer
      <4> QED BY <1>0, <4>1, BoundsAssumption DEF ClientInv, TypeOK, Ids
    <3>2. DOMAIN sin' = 1..(Len(sin) + 1) /\ (\A i \in 1..Len(sin) : sin'[i] = sin[i])
          /\ sin'[Len(sin) + 1] = chand
      BY <1>0, <2>3, <3>1, AppendFacts DEF TypeOK
    <3>3. id < chand BY <1>0, <1>1, <3>1, PipeFacts DEF Forwarded
    <3>4. \A i \in DOMAIN sin' : id < sin'[i] BY <1>0, <1>1, <3>2, <3>3, PipeFacts
    <3> QED BY <1>1, <1>2, <2>1, <3>4
  <2> QED BY <1>3, <2>2, <2>3 DEF WriteServer
<1>4. CASE ServerReads
  <2>1. DOMAIN sin' = 1..(Len(sin) - 1) /\ (\A i \in 1..(Len(sin) - 1) : sin'[i] = sin[i + 1])
        /\ 1 \in DOMAIN sin /\ Head(sin) = sin[1] /\ Len(sin) \in Nat
        /\ DOMAIN sin = 1..Len(sin) /\ sin[1] \in Ids
    BY <1>0, <1>4, TailFacts DEF ServerReads, TypeOK
  <2>2. asked' = asked \cup {sin[1]} BY <1>4, <2>1 DEF ServerReads
  <2>3. id # sin[1]
    <3>1. id < sin[1] /\ sin[1] \in Int BY <1>0, <1>1, <2>1, PipeFacts
    <3> QED BY <3>1
  <2>4. \A i \in DOMAIN sin' : id < sin'[i] BY <1>1, <2>1
  <2> QED BY <1>1, <1>2, <2>2, <2>3, <2>4
<1>5. CASE asked' \subseteq asked /\ sin' = sin BY <1>1, <1>2, <1>5
<1> QED
  BY <1>3, <1>4, <1>5
  DEF Next, vars, clientSide, clientPump, serverSide, serverPump, ClientSends, ClientEnds, ScanLine, ClientPumpEnds, ServerSends, ServerExits, ServerCrashes, ServerGone, ScanFrame, ServerPumpEnds, WriteClient, TeeFrame, PumpsDone, WaitDone

LEMMA ResultsStep == Inv /\ [Next]_vars => ResultsInv'
<1> SUFFICES ASSUME Inv, [Next]_vars PROVE ResultsInv'
  OBVIOUS
<1>0. TypeOK /\ ServerInv /\ ClientInv /\ ResultsInv BY DEF Inv
<1> DEFINE Over(id) == id \in Forwarded' /\ id \notin asked' /\ (\A i \in DOMAIN sin' : id < sin'[i])
<1>1. \A id : Answered(id) => Over(id) BY AnsweredStep
<1>2. \A k \in DOMAIN sout : sout[k].kind = "result" => Over(sout[k].id) BY <1>0, <1>1 DEF ResultsInv
<1>3. Held => Over(shand.id) BY <1>0, <1>1 DEF ResultsInv
<1>4. \A k \in DOMAIN cout : cout[k].kind = "result" => cout[k].id \in Forwarded'
  BY <1>0, ForwardedStep DEF ResultsInv
<1> HIDE DEF Over
<1>5. SUFFICES
        /\ \A k \in DOMAIN sout' : sout'[k].kind = "result" => Over(sout'[k].id)
        /\ \A k, l \in DOMAIN sout' :
             sout'[k].kind = "result" /\ sout'[l].kind = "result" /\ k # l => sout'[k].id # sout'[l].id
        /\ Held' => /\ Over(shand'.id)
                    /\ \A k \in DOMAIN sout' : sout'[k].kind = "result" => sout'[k].id # shand'.id
        /\ \A k \in DOMAIN cout' : cout'[k].kind = "result" => cout'[k].id \in Forwarded'
  BY DEF Over, ResultsInv, Answered
<1>6. CASE ServerSends
  <2>1. UNCHANGED <<sp, shand, cout, sin>> /\ asked' \subseteq asked
    BY <1>6 DEF ServerSends, serverPump
  <2>2. PICK f \in Frames : /\ sout' = Append(sout, f)
                            /\ f.kind = "result" => f.id \in asked /\ f.id \notin asked'
    <3>1. \A kind \in {"result", "error", "request"}, id \in Ids : [kind |-> kind, id |-> id] \in Frames
      BY BoundsAssumption DEF Frames, Ids
    <3>2. [kind |-> "long", id |-> 0] \in Frames BY BoundsAssumption DEF Frames
    <3>3. asked \subseteq Ids BY <1>0 DEF TypeOK
    <3>4. CASE \E kind \in {"result", "error"}, id \in asked :
                  sout' = Append(sout, [kind |-> kind, id |-> id]) /\ asked' = asked \ {id}
      BY <3>1, <3>3, <3>4
    <3>5. CASE \E id \in Ids : sout' = Append(sout, [kind |-> "request", id |-> id]) BY <3>1, <3>5
    <3>6. CASE sout' = Append(sout, [kind |-> "long", id |-> 0]) BY <3>2, <3>6
    <3> QED BY <1>6, <3>4, <3>5, <3>6 DEF ServerSends
  <2>3. DOMAIN sout' = DOMAIN sout \cup {Len(sout) + 1} /\ Len(sout) + 1 \notin DOMAIN sout
        /\ (\A k \in DOMAIN sout : sout'[k] = sout[k]) /\ sout'[Len(sout) + 1] = f
    <3>1. DOMAIN sout = 1..Len(sout) /\ Len(sout) \in Nat BY <1>0, PipeFacts
    <3>2. DOMAIN sout' = 1..(Len(sout) + 1) /\ (\A k \in 1..Len(sout) : sout'[k] = sout[k])
          /\ sout'[Len(sout) + 1] = f
      BY <1>0, <2>2, AppendFacts DEF TypeOK
    <3> QED BY <3>1, <3>2
  <2>4. f.kind = "result" => Over(f.id)
    <3>1. f.kind = "result" => f.id \in Forwarded' BY <1>0, <2>2, ForwardedStep DEF ServerInv
    <3>2. f.kind = "result" => \A i \in DOMAIN sin' : f.id < sin'[i] BY <1>0, <2>1, <2>2 DEF ServerInv
    <3> QED BY <2>2, <3>1, <3>2 DEF Over
  <2>5. f.kind = "result" => \A k \in DOMAIN sout : sout[k].kind = "result" => sout[k].id # f.id
    BY <1>0, <2>2 DEF ResultsInv, Answered
  <2>6. f.kind = "result" /\ Held => shand.id # f.id BY <1>0, <2>2 DEF ResultsInv, Answered
  <2>7. Held' = Held BY <2>1 DEF Held
  <2>8. \A k \in DOMAIN sout' : sout'[k].kind = "result" => Over(sout'[k].id) BY <1>2, <2>3, <2>4
  <2>9. \A k, l \in DOMAIN sout' :
          sout'[k].kind = "result" /\ sout'[l].kind = "result" /\ k # l => sout'[k].id # sout'[l].id
    BY <1>0, <2>3, <2>5 DEF ResultsInv
  <2>10. Held' => \A k \in DOMAIN sout' : sout'[k].kind = "result" => sout'[k].id # shand'.id
    BY <1>0, <2>1, <2>3, <2>6, <2>7 DEF ResultsInv
  <2> QED BY <1>3, <1>4, <2>1, <2>7, <2>8, <2>9, <2>10
<1>7. CASE ScanFrame
  <2>1. sp' = "write" /\ cout' = cout /\ shand' = sout[1]
        /\ 1 \in DOMAIN sout
        /\ \A k \in DOMAIN sout' : k + 1 \in DOMAIN sout /\ k + 1 # 1 /\ sout'[k] = sout[k + 1]
    <3>1. shand' = Head(sout) /\ sout' = Tail(sout) /\ sout # <<>> /\ sp' = "write" /\ cout' = cout
      BY <1>7 DEF ScanFrame
    <3>2. Head(sout) = sout[1] /\ Len(sout) \in Nat \ {0} /\ DOMAIN sout = 1..Len(sout)
          /\ DOMAIN sout' = 1..(Len(sout) - 1) /\ (\A k \in 1..(Len(sout) - 1) : sout'[k] = sout[k + 1])
      BY <1>0, <3>1, TailFacts DEF TypeOK
    <3> QED BY <3>1, <3>2
  <2>2. \A k, l \in DOMAIN sout' : k # l => k + 1 # l + 1
    <3>1. DOMAIN sout' \subseteq Int BY <1>0, <1>7, TailFacts DEF ScanFrame, TypeOK
    <3> QED BY <3>1
  <2>3. \A k, l \in DOMAIN sout' :
          sout'[k].kind = "result" /\ sout'[l].kind = "result" /\ k # l => sout'[k].id # sout'[l].id
    BY <1>0, <2>1, <2>2 DEF ResultsInv
  <2>4. Held' => shand'.kind = "result" BY DEF Held
  <2>5. Held' => \A k \in DOMAIN sout' : sout'[k].kind = "result" => sout'[k].id # shand'.id
    BY <1>0, <2>1, <2>4 DEF ResultsInv
  <2> QED BY <1>2, <1>4, <2>1, <2>3, <2>4, <2>5
<1>8. CASE WriteClient
  <2>1. sout' = sout /\ shand' = shand /\ sp = "write" BY <1>8 DEF WriteClient
  <2>2. Held' => Held BY <2>1 DEF Held
  <2>3. \A k \in DOMAIN cout' : cout'[k].kind = "result" => cout'[k].id \in Forwarded'
    <3>1. CASE cout' = cout BY <1>4, <3>1
    <3>2. CASE cout' = Append(cout, shand)
      <4>1. shand \in Frames BY <1>0, <2>1 DEF TypeOK
      <4>2. DOMAIN cout' = 1..(Len(cout) + 1) /\ (\A k \in 1..Len(cout) : cout'[k] = cout[k])
            /\ cout'[Len(cout) + 1] = shand /\ DOMAIN cout = 1..Len(cout) /\ Len(cout) \in Nat
        BY <1>0, <3>2, <4>1, AppendFacts DEF TypeOK
      <4>3. shand.kind = "result" => shand.id \in Forwarded' BY <1>3, <2>1 DEF Held, Over
      <4> QED BY <1>4, <4>2, <4>3
    <3> QED BY <1>8, <3>1, <3>2 DEF WriteClient
  <2> QED BY <1>0, <1>2, <1>3, <2>1, <2>2, <2>3 DEF ResultsInv
<1>9. CASE sp' \in {"scan", "ended"} /\ UNCHANGED <<sout, cout>>
  <2>1. ~Held' BY <1>9 DEF Held
  <2> QED BY <1>0, <1>2, <1>4, <1>9, <2>1 DEF ResultsInv
<1>10. CASE UNCHANGED <<sout, sp, shand, cout>>
  <2>1. Held' = Held BY <1>10 DEF Held
  <2> QED BY <1>0, <1>2, <1>3, <1>4, <1>10, <2>1 DEF ResultsInv
<1> QED
  BY <1>6, <1>7, <1>8, <1>9, <1>10
  DEF Next, vars, clientSide, clientPump, serverSide, serverPump, ClientSends, ClientEnds, ScanLine, ClientPumpEnds, WriteServer, ServerReads, ServerExits, ServerCrashes, ServerGone, ServerPumpEnds, TeeFrame, PumpsDone, WaitDone

LEMMA PendingStep == Inv /\ [Next]_vars => PendingInv'
<1> SUFFICES ASSUME Inv, [Next]_vars PROVE PendingInv'
  OBVIOUS
<1>0. TypeOK /\ ServerInv /\ ClientInv /\ ResultsInv /\ PendingInv BY DEF Inv
<1> USE DEF PendingInv, clientSide, clientPump, serverSide, serverPump
<1>1. Forwarded \subseteq DOMAIN sent /\ Forwarded \subseteq Nat BY ForwardedStep, PipeFacts, <1>0
<1>2. CASE ClientSends
  <2>1. UNCHANGED <<cp, chand, sin, asked, sout, sp, shand, pending>> BY <1>2 DEF ClientSends
  <2>2. \A i \in DOMAIN sent : sent'[i] = sent[i]
    <3>1. PICK kind \in {"tool", "other", "long"} : sent' = Append(sent, kind) BY <1>2 DEF ClientSends
    <3> QED BY <1>0, <3>1, AppendFacts DEF TypeOK
  <2>3. cp = "write" => chand \in DOMAIN sent BY <1>0, PipeFacts DEF ClientInv
  <2>4. Held' = Held BY <2>1 DEF Held
  <2>5. \A i \in DOMAIN sin : sin[i] \in DOMAIN sent BY <1>0, <1>1 DEF ServerInv
  <2>6. \A id \in asked : id \in DOMAIN sent BY <1>0, <1>1 DEF ServerInv
  <2>7. \A k \in DOMAIN sout : sout[k].kind = "result" => sout[k].id \in DOMAIN sent
    BY <1>0, <1>1 DEF ResultsInv, Answered
  <2>8. Held => shand.id \in DOMAIN sent BY <1>0, <1>1 DEF ResultsInv, Answered
  <2> QED BY <1>0, <2>1, <2>2, <2>3, <2>4, <2>5, <2>6, <2>7, <2>8
<1>3. CASE ScanLine
  <2>1. UNCHANGED <<sent, sin, asked, sout, sp, shand>> /\ chand' = Head(cin)
        /\ pending' = IF sent[Head(cin)] = "tool" THEN pending \cup {Head(cin)} ELSE pending
    BY <1>3 DEF ScanLine
  <2>2. Held' = Held BY <2>1 DEF Held
  <2> QED BY <1>0, <2>1, <2>2
<1>4. CASE WriteServer
  <2>1. UNCHANGED <<sent, asked, sout, sp, shand, pending>> /\ cp = "write" /\ cp' = "scan"
    BY <1>4 DEF WriteServer
  <2>2. Held' = Held BY <2>1 DEF Held
  <2>3. \A i \in DOMAIN sin' : sent[sin'[i]] = "tool" => sin'[i] \in pending
    <3>1. CASE sin' = sin BY <1>0, <3>1
    <3>2. CASE sin' = Append(sin, chand)
      <4>1. chand \in Ids BY <1>0, <2>1, BoundsAssumption DEF ClientInv, TypeOK, Ids
      <4>2. DOMAIN sin' = 1..(Len(sin) + 1) /\ (\A i \in 1..Len(sin) : sin'[i] = sin[i])
            /\ sin'[Len(sin) + 1] = chand /\ DOMAIN sin = 1..Len(sin) /\ Len(sin) \in Nat
        BY <1>0, <3>2, <4>1, AppendFacts DEF TypeOK
      <4> QED BY <1>0, <2>1, <4>2
    <3> QED BY <1>4, <3>1, <3>2 DEF WriteServer
  <2> QED BY <1>0, <2>1, <2>2, <2>3
<1>5. CASE ServerReads
  <2>1. UNCHANGED <<sent, cp, chand, sout, sp, shand, pending>> BY <1>5 DEF ServerReads
  <2>2. asked' = asked \cup {sin[1]} /\ 1 \in DOMAIN sin
        /\ \A i \in DOMAIN sin' : i + 1 \in DOMAIN sin /\ sin'[i] = sin[i + 1]
    <3>1. sin # <<>> /\ asked' = asked \cup {Head(sin)} /\ sin' = Tail(sin) BY <1>5 DEF ServerReads
    <3>2. Head(sin) = sin[1] /\ Len(sin) \in Nat \ {0} /\ DOMAIN sin = 1..Len(sin)
          /\ DOMAIN sin' = 1..(Len(sin) - 1) /\ (\A i \in 1..(Len(sin) - 1) : sin'[i] = sin[i + 1])
      BY <1>0, <3>1, TailFacts DEF TypeOK
    <3> QED BY <3>1, <3>2
  <2>3. Held' = Held BY <2>1 DEF Held
  <2> QED BY <1>0, <2>1, <2>2, <2>3
<1>6. CASE ServerSends
  <2>1. UNCHANGED <<sent, cp, chand, sin, sp, shand, pending>> /\ asked' \subseteq asked
    BY <1>6 DEF ServerSends
  <2>2. PICK f \in Frames : sout' = Append(sout, f) /\ (f.kind = "result" => f.id \in asked)
    <3>1. \A kind \in {"result", "error", "request"}, id \in Ids : [kind |-> kind, id |-> id] \in Frames
      BY BoundsAssumption DEF Frames, Ids
    <3>2. [kind |-> "long", id |-> 0] \in Frames BY BoundsAssumption DEF Frames
    <3>3. asked \subseteq Ids BY <1>0 DEF TypeOK
    <3>4. CASE \E kind \in {"result", "error"}, id \in asked :
                  sout' = Append(sout, [kind |-> kind, id |-> id]) BY <3>1, <3>3, <3>4
    <3>5. CASE \E id \in Ids : sout' = Append(sout, [kind |-> "request", id |-> id]) BY <3>1, <3>5
    <3>6. CASE sout' = Append(sout, [kind |-> "long", id |-> 0]) BY <3>2, <3>6
    <3> QED BY <1>6, <3>4, <3>5, <3>6 DEF ServerSends
  <2>3. DOMAIN sout' = 1..(Len(sout) + 1) /\ (\A k \in 1..Len(sout) : sout'[k] = sout[k])
        /\ sout'[Len(sout) + 1] = f /\ DOMAIN sout = 1..Len(sout) /\ Len(sout) \in Nat
    BY <1>0, <2>2, AppendFacts DEF TypeOK
  <2>4. \A k \in DOMAIN sout' : k \in DOMAIN sout \/ k = Len(sout) + 1 BY <2>3
  <2>5. Held' = Held BY <2>1 DEF Held
  <2> QED BY <1>0, <2>1, <2>2, <2>3, <2>4, <2>5
<1>7. CASE ScanFrame
  <2>1. UNCHANGED <<sent, cp, chand, sin, asked, pending>> BY <1>7 DEF ScanFrame
  <2>2. shand' = sout[1] /\ 1 \in DOMAIN sout
        /\ \A k \in DOMAIN sout' : k + 1 \in DOMAIN sout /\ sout'[k] = sout[k + 1]
    <3>1. shand' = Head(sout) /\ sout' = Tail(sout) /\ sout # <<>> BY <1>7 DEF ScanFrame
    <3>2. Head(sout) = sout[1] /\ Len(sout) \in Nat \ {0} /\ DOMAIN sout = 1..Len(sout)
          /\ DOMAIN sout' = 1..(Len(sout) - 1) /\ (\A k \in 1..(Len(sout) - 1) : sout'[k] = sout[k + 1])
      BY <1>0, <3>1, TailFacts DEF TypeOK
    <3> QED BY <3>1, <3>2
  <2>3. Held' => shand'.kind = "result" BY DEF Held
  <2> QED BY <1>0, <2>1, <2>2, <2>3
<1>8. CASE TeeFrame
  <2>1. UNCHANGED <<sent, cp, chand, sin, asked, sout>> /\ ~Held' BY <1>8 DEF TeeFrame, Held
  <2>2. CASE Answers(shand)
    <3>1. pending' = pending \ {shand.id} /\ Held BY <1>8, <2>2 DEF TeeFrame, Answers, Held
    <3>2. Answered(shand.id) BY <1>0, <3>1 DEF ResultsInv
    <3>3. cp = "write" => chand # shand.id
      <4>1. cp = "write" => shand.id \in 1..(chand - 1) BY <3>2 DEF Answered, Forwarded
      <4> QED BY <1>0, <4>1, PipeFacts
    <3>4. \A i \in DOMAIN sin : sin[i] # shand.id
      <4>1. \A i \in DOMAIN sin : shand.id < sin[i] /\ sin[i] \in Int BY <1>0, <3>2, PipeFacts DEF Answered
      <4>2. shand.id \in Int BY <1>1, <3>2 DEF Answered
      <4> QED BY <4>1, <4>2
    <3>5. shand.id \notin asked BY <3>2 DEF Answered
    <3>6. \A k \in DOMAIN sout : sout[k].kind = "result" => sout[k].id # shand.id
      BY <1>0, <3>1 DEF ResultsInv
    <3> QED BY <1>0, <2>1, <3>1, <3>3, <3>4, <3>5, <3>6
  <2>3. CASE ~Answers(shand)
    <3>1. pending' = pending BY <1>8, <2>3 DEF TeeFrame
    <3> QED BY <1>0, <2>1, <3>1
  <2> QED BY <2>2, <2>3
<1>9. CASE cp' = "ended" /\ UNCHANGED <<sent, chand, sin, asked, sout, sp, shand, pending>>
  <2>1. Held' = Held BY <1>9 DEF Held
  <2> QED BY <1>0, <1>9, <2>1
<1>10. CASE UNCHANGED <<sent, cp, chand, sin, asked, sout, sp, shand, pending>>
  <2>1. Held' = Held BY <1>10 DEF Held
  <2> QED BY <1>0, <1>10, <2>1
<1>11. CASE WriteClient
  <2>1. Held' => Held BY <1>11 DEF WriteClient, Held
  <2> QED BY <1>0, <1>11, <2>1 DEF WriteClient
<1>12. CASE ServerPumpEnds
  <2>1. ~Held' BY <1>12 DEF ServerPumpEnds, Held
  <2> QED BY <1>0, <1>12, <2>1 DEF ServerPumpEnds
<1> QED
  BY <1>2, <1>3, <1>4, <1>5, <1>6, <1>7, <1>8, <1>9, <1>10, <1>11, <1>12
  DEF Next, vars, clientSide, clientPump, serverSide, serverPump, ClientEnds, ClientPumpEnds, ServerExits, ServerCrashes, ServerGone, PumpsDone, WaitDone
-----------------------------------------------------------------------------
(* Records, of any recording r, frames c and kinds s.                      *)
HeardOf(c, s, n) == {k \in 1..n : c[k].kind = "result" /\ s[c[k].id] = "tool"}

RecordsOf(r, c, s, n) ==
    \E at \in [DOMAIN r -> HeardOf(c, s, n)] :
        /\ \A i \in DOMAIN r : r[i] = c[at[i]].id
        /\ \A i, j \in DOMAIN r : i < j => at[i] < at[j]
        /\ \A k \in HeardOf(c, s, n) : \E i \in DOMAIN r : at[i] = k

(* What comes after the n frames, and what is sent after them, is of no    *)
(* account.                                                                *)
LEMMA RecordsSame ==
    ASSUME NEW r, NEW c, NEW d, NEW s, NEW u, NEW n \in Nat, RecordsOf(r, c, s, n),
           \A k \in 1..n : d[k] = c[k] /\ (c[k].kind = "result" => u[c[k].id] = s[c[k].id])
    PROVE  RecordsOf(r, d, u, n)
<1>1. HeardOf(d, u, n) = HeardOf(c, s, n) BY DEF HeardOf
<1>2. \A k \in HeardOf(c, s, n) : d[k] = c[k] BY DEF HeardOf
<1>3. PICK at \in [DOMAIN r -> HeardOf(c, s, n)] :
           /\ \A i \in DOMAIN r : r[i] = c[at[i]].id
           /\ \A i, j \in DOMAIN r : i < j => at[i] < at[j]
           /\ \A k \in HeardOf(c, s, n) : \E i \in DOMAIN r : at[i] = k
  BY DEF RecordsOf
<1>4. \A i \in DOMAIN r : r[i] = d[at[i]].id BY <1>2, <1>3
<1> QED BY <1>1, <1>3, <1>4 DEF RecordsOf

(* A frame that is no result of a tools request is not recorded.           *)
LEMMA RecordsSkip ==
    ASSUME NEW r, NEW c, NEW s, NEW n \in Nat \ {0}, RecordsOf(r, c, s, n - 1),
           ~(c[n].kind = "result" /\ s[c[n].id] = "tool")
    PROVE  RecordsOf(r, c, s, n)
<1>1. HeardOf(c, s, n) = HeardOf(c, s, n - 1) BY DEF HeardOf
<1> QED BY <1>1 DEF RecordsOf

(* One that is adds its interaction at the end.                            *)
LEMMA RecordsAdd ==
    ASSUME NEW S, NEW r \in Seq(S), NEW c, NEW s, NEW n \in Nat \ {0}, RecordsOf(r, c, s, n - 1),
           c[n].kind = "result", s[c[n].id] = "tool", c[n].id \in S
    PROVE  RecordsOf(Append(r, c[n].id), c, s, n)
<1> DEFINE q == Append(r, c[n].id)
           H == HeardOf(c, s, n - 1)
<1>1. HeardOf(c, s, n) = H \cup {n} /\ (\A k \in H : k \in Nat /\ k < n) BY DEF HeardOf
<1>2. Len(r) \in Nat /\ DOMAIN r = 1..Len(r) /\ DOMAIN q = 1..(Len(r) + 1)
      /\ (\A i \in 1..Len(r) : q[i] = r[i]) /\ q[Len(r) + 1] = c[n].id
  BY AppendFacts
<1>3. PICK at \in [DOMAIN r -> H] :
           /\ \A i \in DOMAIN r : r[i] = c[at[i]].id
           /\ \A i, j \in DOMAIN r : i < j => at[i] < at[j]
           /\ \A k \in H : \E i \in DOMAIN r : at[i] = k
  BY DEF RecordsOf
<1> DEFINE to == [i \in DOMAIN q |-> IF i = Len(r) + 1 THEN n ELSE at[i]]
<1> HIDE DEF q, H
<1>4. /\ \A i \in DOMAIN r : i \in DOMAIN q /\ to[i] = at[i] /\ at[i] \in H
      /\ Len(r) + 1 \in DOMAIN q /\ to[Len(r) + 1] = n
      /\ \A i \in DOMAIN q : i \in DOMAIN r \/ i = Len(r) + 1
  BY <1>2, <1>3
<1>5. to \in [DOMAIN q -> H \cup {n}] BY <1>4
<1> HIDE DEF to
<1>6. \A i \in DOMAIN q : q[i] = c[to[i]].id BY <1>2, <1>3, <1>4
<1>7. ASSUME NEW i \in DOMAIN q, NEW j \in DOMAIN q, i < j PROVE to[i] < to[j]
  <2>1. i \in DOMAIN r BY <1>2, <1>7
  <2>2. CASE j \in DOMAIN r BY <1>3, <1>4, <1>7, <2>1, <2>2
  <2>3. CASE j = Len(r) + 1 BY <1>1, <1>4, <2>1, <2>3
  <2> QED BY <1>4, <2>2, <2>3
<1>8. \A k \in H \cup {n} : \E i \in DOMAIN q : to[i] = k BY <1>3, <1>4
<1> QED BY <1>1, <1>5, <1>6, <1>7, <1>8 DEF RecordsOf, q, H

LEMMA RecordStep == Inv /\ [Next]_vars => RecordInv'
<1> SUFFICES ASSUME Inv, [Next]_vars PROVE RecordInv'
  OBVIOUS
<1>0. TypeOK /\ ClientInv /\ ResultsInv /\ PendingInv /\ Len(cout) \in Nat BY PipeFacts DEF Inv
<1>1. IF sp = "tee" THEN cout # <<>> /\ shand = cout[Len(cout)] /\ RecordsOf(rec, cout, sent, Len(cout) - 1)
      ELSE RecordsOf(rec, cout, sent, Len(cout))
  BY DEF Inv, RecordInv, Records, Heard, RecordsOf, HeardOf
<1>2. SUFFICES IF sp' = "tee"
               THEN cout' # <<>> /\ shand' = cout'[Len(cout')] /\ RecordsOf(rec', cout', sent', Len(cout') - 1)
               ELSE RecordsOf(rec', cout', sent', Len(cout'))
  BY DEF RecordInv, Records, Heard, RecordsOf, HeardOf
<1> USE DEF clientSide, clientPump, serverSide, serverPump
<1>3. CASE ClientSends
  <2>1. UNCHANGED <<cout, rec, sp, shand>> BY <1>3 DEF ClientSends
  <2>2. \A i \in DOMAIN sent : sent'[i] = sent[i]
    <3>1. PICK kind \in {"tool", "other", "long"} : sent' = Append(sent, kind) BY <1>3 DEF ClientSends
    <3> QED BY <1>0, <3>1, AppendFacts DEF TypeOK
  <2>3. \A k \in 1..Len(cout) : cout[k].kind = "result" => sent'[cout[k].id] = sent[cout[k].id]
    <3>1. \A k \in 1..Len(cout) : cout[k].kind = "result" => cout[k].id \in DOMAIN sent
      BY <1>0, ForwardedStep, PipeFacts DEF ResultsInv
    <3> QED BY <2>2, <3>1
  <2>4. cout # <<>> => Len(cout) - 1 \in Nat BY <1>0, EmptySeq DEF TypeOK
  <2>5. ASSUME NEW n \in Nat, n <= Len(cout), RecordsOf(rec, cout, sent, n)
        PROVE  RecordsOf(rec, cout, sent', n)
    <3>1. \A k \in 1..n : cout[k].kind = "result" => sent'[cout[k].id] = sent[cout[k].id] BY <1>0, <2>3, <2>5
    <3> QED BY <2>5, <3>1, RecordsSame
  <2> QED BY <1>0, <1>1, <2>1, <2>4, <2>5
<1>4. CASE WriteClient
  <2>1. UNCHANGED <<sent, rec, shand>> /\ sp = "write" BY <1>4 DEF WriteClient
  <2>2. CASE sp' = sp /\ cout' = cout BY <1>1, <2>1, <2>2
  <2>3. CASE sp' = "tee" /\ cout' = Append(cout, shand)
    <3>1. shand \in Frames BY <1>0, <2>1 DEF TypeOK
    <3>2. cout' # <<>> /\ Len(cout') = Len(cout) + 1 /\ (\A k \in 1..Len(cout) : cout'[k] = cout[k])
          /\ cout'[Len(cout) + 1] = shand
      BY <1>0, <2>3, <3>1, AppendProperties DEF TypeOK
    <3>3. RecordsOf(rec, cout', sent, Len(cout)) BY <1>0, <1>1, <2>1, <3>2, RecordsSame
    <3>4. Len(cout') - 1 = Len(cout) BY <1>0, <3>2
    <3> QED BY <2>1, <2>3, <3>2, <3>3, <3>4
  <2> QED BY <1>4, <2>2, <2>3 DEF WriteClient
<1>5. CASE TeeFrame
  <2>1. UNCHANGED <<sent, cout>> /\ sp = "tee" /\ sp' = "scan" BY <1>5 DEF TeeFrame
  <2>2. shand = cout[Len(cout)] /\ RecordsOf(rec, cout, sent, Len(cout) - 1) /\ Len(cout) \in Nat \ {0}
    BY <1>0, <1>1, <2>1, EmptySeq DEF TypeOK
  <2>3. CASE Answers(shand)
    <3>1. rec' = Append(rec, shand.id) BY <1>5, <2>3 DEF TeeFrame
    <3>2. shand.kind = "result" /\ sent[shand.id] = "tool" BY <1>0, <2>3 DEF Answers, TypeOK
    <3>3. shand.id \in Ids BY <1>0, <2>3, PipeFacts DEF Answers, ClientInv, TypeOK
    <3>4. rec \in Seq(Ids) BY <1>0 DEF TypeOK
    <3>5. RecordsOf(Append(rec, cout[Len(cout)].id), cout, sent, Len(cout))
      BY <2>2, <3>2, <3>3, <3>4, RecordsAdd
    <3> QED BY <2>1, <2>2, <3>1, <3>5
  <2>4. CASE ~Answers(shand)
    <3>1. rec' = rec BY <1>5, <2>4 DEF TeeFrame
    <3>2. ~(shand.kind = "result" /\ sent[shand.id] = "tool")
      BY <1>0, <2>1, <2>4 DEF PendingInv, Held, Answers
    <3>3. RecordsOf(rec, cout, sent, Len(cout)) BY <2>2, <3>2, RecordsSkip
    <3> QED BY <2>1, <3>1, <3>3
  <2> QED BY <2>3, <2>4
<1>6. CASE sp # "tee" /\ sp' # "tee" /\ UNCHANGED <<sent, cout, rec>> BY <1>1, <1>6
<1>7. CASE UNCHANGED <<sent, cout, rec, sp, shand>> BY <1>1, <1>7
<1> QED
  BY <1>3, <1>4, <1>5, <1>6, <1>7
  DEF Next, vars, clientSide, clientPump, serverSide, serverPump, ClientEnds, ScanLine, ClientPumpEnds, WriteServer, ServerReads, ServerSends, ServerExits, ServerCrashes, ServerGone, ScanFrame, ServerPumpEnds, PumpsDone, WaitDone

LEMMA InvStep == Inv /\ [Next]_vars => Inv'
BY TypeStep, ClientStep, ServerStep, ResultsStep, PendingStep, RecordStep DEF Inv

LEMMA InvHolds == Spec => []Inv
BY InitInv, InvStep, PTL DEF Spec
-----------------------------------------------------------------------------
(* Every variable keeps its type.                                          *)
THEOREM TypeCorrect == Spec => []TypeOK
<1>1. Inv => TypeOK BY DEF Inv
<1> QED BY InvHolds, <1>1, PTL

(* The recording is what the client heard, for any number of frames in     *)
(* either direction and any interleaving of the two pumps (mcpproxy.go,    *)
(* pumpMCPProxy).                                                          *)
THEOREM RecordedAsHeardCorrect == Spec => []RecordedAsHeard
<1>1. Inv => RecordedAsHeard BY DEF Inv, RecordInv, RecordedAsHeard
<1> QED BY InvHolds, <1>1, PTL

-----------------------------------------------------------------------------
(* FrontDoor *)

(* The misses of a route.                                                  *)
MissesOf(t) == {r \in misses : route[r] = t}

(* What a handler has done up to where it is.                              *)
HandlerInv ==
    /\ \A r \in finished : h[r] = "ended"
    /\ \A r \in misses : h[r] \in {"missed", "ended"}
    /\ \A r \in Reqs : h[r] = "missed" => mode = "gate"
    /\ mode = "record" =>
           \A r \in heard : h[r] \in {"copying", "ended"} /\ (h[r] = "ended" => mem[r] = "full")

(* The miss recorder counts the misses.                                    *)
SeenInv == \A t \in Routes : seen[t] = Cardinality(MissesOf(t))

(* What is decided when the process ends, and from what.                   *)
ExitInv ==
    /\ code # "none" <=> command = "exited"
    /\ mode = "record" /\ code = "ok" => disk = mem
    /\ mode = "gate" /\ code = "ok" => misses = {}
    /\ mode = "gate" /\ command = "gating" => misses # {}
    /\ mode = "gate" /\ code = "fail" /\ listener = "closed" => misses # {}
    /\ manifest # None => command = "exited" /\ manifest = seen

DoorInv == DoorTypeOK /\ HandlerInv /\ SeenInv /\ ExitInv
-----------------------------------------------------------------------------
LEMMA DoorInitInv == DoorInit => DoorInv
<1> SUFFICES ASSUME DoorInit PROVE DoorInv OBVIOUS
<1>1. DoorTypeOK BY DEF DoorInit, DoorTypeOK, Bodies, None
<1>2. HandlerInv BY DEF DoorInit, HandlerInv
<1>3. \A t \in Routes : MissesOf(t) = {} BY DEF DoorInit, MissesOf
<1>4. SeenInv BY <1>3, FS_EmptySet DEF DoorInit, SeenInv, None
<1>5. ExitInv BY DEF DoorInit, ExitInv
<1> QED BY <1>1, <1>2, <1>4, <1>5 DEF DoorInv

LEMMA DoorTypeStep == DoorTypeOK /\ [DoorNext]_doorVars => DoorTypeOK'
<1> SUFFICES ASSUME DoorTypeOK, [DoorNext]_doorVars PROVE DoorTypeOK'
  OBVIOUS
<1> USE DEF DoorTypeOK, Bodies
<1>1. ASSUME NEW r \in Reqs, Accept(r) PROVE DoorTypeOK'
  BY <1>1 DEF Accept, Handler, misser, files, process
<1>2. ASSUME NEW r \in Reqs, Hit(r) PROVE DoorTypeOK'
  BY <1>2 DEF Hit, Handler, misser, files, process
<1>3. ASSUME NEW r \in Reqs, RecordMiss(r) PROVE DoorTypeOK'
  BY <1>3 DEF RecordMiss, Handler, files, process
<1>4. ASSUME NEW r \in Reqs, AnswerMiss(r) PROVE DoorTypeOK'
  BY <1>4 DEF AnswerMiss, Handler, misser, files, process
<1>5. ASSUME NEW r \in Reqs, ForwardFails(r) PROVE DoorTypeOK'
  BY <1>5 DEF ForwardFails, Handler, misser, files, process
<1>6. ASSUME NEW r \in Reqs, Forward(r) PROVE DoorTypeOK'
  BY <1>6 DEF Forward, Handler, misser, files, process
<1>7. ASSUME NEW r \in Reqs, WriteLast(r) PROVE DoorTypeOK'
  BY <1>7 DEF WriteLast, misser, files, process
<1>8. ASSUME NEW r \in Reqs, CopyEnds(r) PROVE DoorTypeOK'
  BY <1>8 DEF CopyEnds, Handler, misser, files, process
<1>9. CASE Signal
  BY <1>9 DEF Signal, misser, files
<1>10. CASE AcceptFails
  BY <1>10 DEF AcceptFails, misser, files
<1>11. CASE ShutdownReturns
  BY <1>11 DEF ShutdownReturns, misser, files
<1>12. CASE ServeReturns
  BY <1>12 DEF ServeReturns, misser, files
<1>13. CASE ServeFails
  BY <1>13 DEF ServeFails, misser, files, Exit
<1>14. CASE SaveHook
  BY <1>14 DEF SaveHook, misser, Exit
<1>15. CASE GatePasses
  BY <1>15 DEF GatePasses, misser, files, Exit
<1>16. CASE GateFails
  BY <1>16 DEF GateFails, misser, files
<1>17. CASE WriteManifest
  BY <1>17 DEF WriteManifest, misser, Exit
<1>18. CASE UNCHANGED doorVars
  BY <1>18 DEF doorVars, misser, files, process
<1> QED
  BY <1>1, <1>2, <1>3, <1>4, <1>5, <1>6, <1>7, <1>8, <1>9, <1>10, <1>11, <1>12, <1>13, <1>14, <1>15, <1>16, <1>17, <1>18 DEF DoorNext

LEMMA HandlerStep == DoorInv /\ [DoorNext]_doorVars => HandlerInv'
<1> SUFFICES ASSUME DoorInv, [DoorNext]_doorVars PROVE HandlerInv'
  OBVIOUS
<1> USE DEF DoorInv, DoorTypeOK, Bodies, HandlerInv
<1>1. ASSUME NEW r \in Reqs, Accept(r) PROVE HandlerInv'
  BY <1>1 DEF Accept, Handler, misser, files, process
<1>2. ASSUME NEW r \in Reqs, Hit(r) PROVE HandlerInv'
  BY <1>2 DEF Hit, Handler, misser, files, process
<1>3. ASSUME NEW r \in Reqs, RecordMiss(r) PROVE HandlerInv'
  BY <1>3 DEF RecordMiss, Handler, files, process
<1>4. ASSUME NEW r \in Reqs, AnswerMiss(r) PROVE HandlerInv'
  BY <1>4 DEF AnswerMiss, Handler, misser, files, process
<1>5. ASSUME NEW r \in Reqs, ForwardFails(r) PROVE HandlerInv'
  BY <1>5 DEF ForwardFails, Handler, misser, files, process
<1>6. ASSUME NEW r \in Reqs, Forward(r) PROVE HandlerInv'
  BY <1>6 DEF Forward, Handler, misser, files, process
<1>7. ASSUME NEW r \in Reqs, WriteLast(r) PROVE HandlerInv'
  BY <1>7 DEF WriteLast, misser, files, process
<1>8. ASSUME NEW r \in Reqs, CopyEnds(r) PROVE HandlerInv'
  BY <1>8 DEF CopyEnds, Handler, misser, files, process
<1>9. CASE Signal
  BY <1>9 DEF Signal, misser, files
<1>10. CASE AcceptFails
  BY <1>10 DEF AcceptFails, misser, files
<1>11. CASE ShutdownReturns
  BY <1>11 DEF ShutdownReturns, misser, files
<1>12. CASE ServeReturns
  BY <1>12 DEF ServeReturns, misser, files
<1>13. CASE ServeFails
  BY <1>13 DEF ServeFails, misser, files, Exit
<1>14. CASE SaveHook
  BY <1>14 DEF SaveHook, misser, Exit
<1>15. CASE GatePasses
  BY <1>15 DEF GatePasses, misser, files, Exit
<1>16. CASE GateFails
  BY <1>16 DEF GateFails, misser, files
<1>17. CASE WriteManifest
  BY <1>17 DEF WriteManifest, misser, Exit
<1>18. CASE UNCHANGED doorVars
  BY <1>18 DEF doorVars, misser, files, process
<1> QED
  BY <1>1, <1>2, <1>3, <1>4, <1>5, <1>6, <1>7, <1>8, <1>9, <1>10, <1>11, <1>12, <1>13, <1>14, <1>15, <1>16, <1>17, <1>18 DEF DoorNext

LEMMA SeenStep == DoorInv /\ [DoorNext]_doorVars => SeenInv'
<1> SUFFICES ASSUME DoorInv, [DoorNext]_doorVars PROVE SeenInv'
  OBVIOUS
<1> USE DEF DoorInv, DoorTypeOK, Bodies, HandlerInv
<1>1. ASSUME NEW r \in Reqs, Accept(r) PROVE SeenInv'
  BY <1>1 DEF Accept, Handler, misser, files, process, SeenInv, MissesOf
<1>2. ASSUME NEW r \in Reqs, Hit(r) PROVE SeenInv'
  BY <1>2 DEF Hit, Handler, misser, files, process, SeenInv, MissesOf
<1>3. ASSUME NEW r \in Reqs, RecordMiss(r) PROVE SeenInv'
  <2>1. /\ mode' = mode /\ route' = route /\ misses' = misses \cup {r} /\ r \notin misses
        /\ seen' = [seen EXCEPT ![route[r]] = @ + 1]
    BY <1>3 DEF RecordMiss, Handler
  <2>2. ASSUME NEW t \in Routes PROVE seen'[t] = Cardinality(MissesOf(t)')
    <3>1. IsFiniteSet(MissesOf(t)) BY ReqsAssumption, FS_Subset DEF MissesOf
    <3>2. CASE t = route[r]
      <4>1. MissesOf(t)' = MissesOf(t) \cup {r} /\ r \notin MissesOf(t) BY <2>1, <3>2 DEF MissesOf
      <4>2. seen'[t] = seen[t] + 1 BY <2>1, <3>2
      <4>3. Cardinality(MissesOf(t)') = Cardinality(MissesOf(t)) + 1
        <5>1. PICK M : M = MissesOf(t) OBVIOUS
        <5>2. IsFiniteSet(M) /\ r \notin M BY <3>1, <4>1, <5>1
        <5>3. Cardinality(M \cup {r}) = Cardinality(M) + 1 BY <5>2, FS_AddElement
        <5> QED BY <4>1, <5>1, <5>3
      <4>4. seen[t] = Cardinality(MissesOf(t)) BY DEF SeenInv
      <4> QED BY <4>2, <4>3, <4>4
    <3>3. CASE t # route[r]
      <4>1. MissesOf(t)' = MissesOf(t) BY <2>1, <3>3 DEF MissesOf
      <4> QED BY <2>1, <3>3, <4>1 DEF SeenInv
    <3> QED BY <3>2, <3>3
  <2> QED BY <2>2 DEF SeenInv
<1>4. ASSUME NEW r \in Reqs, AnswerMiss(r) PROVE SeenInv'
  BY <1>4 DEF AnswerMiss, Handler, misser, files, process, SeenInv, MissesOf
<1>5. ASSUME NEW r \in Reqs, ForwardFails(r) PROVE SeenInv'
  BY <1>5 DEF ForwardFails, Handler, misser, files, process, SeenInv, MissesOf
<1>6. ASSUME NEW r \in Reqs, Forward(r) PROVE SeenInv'
  BY <1>6 DEF Forward, Handler, misser, files, process, SeenInv, MissesOf
<1>7. ASSUME NEW r \in Reqs, WriteLast(r) PROVE SeenInv'
  BY <1>7 DEF WriteLast, misser, files, process, SeenInv, MissesOf
<1>8. ASSUME NEW r \in Reqs, CopyEnds(r) PROVE SeenInv'
  BY <1>8 DEF CopyEnds, Handler, misser, files, process, SeenInv, MissesOf
<1>9. CASE Signal
  BY <1>9 DEF Signal, misser, files, SeenInv, MissesOf
<1>10. CASE AcceptFails
  BY <1>10 DEF AcceptFails, misser, files, SeenInv, MissesOf
<1>11. CASE ShutdownReturns
  BY <1>11 DEF ShutdownReturns, misser, files, SeenInv, MissesOf
<1>12. CASE ServeReturns
  BY <1>12 DEF ServeReturns, misser, files, SeenInv, MissesOf
<1>13. CASE ServeFails
  BY <1>13 DEF ServeFails, misser, files, Exit, SeenInv, MissesOf
<1>14. CASE SaveHook
  BY <1>14 DEF SaveHook, misser, Exit, SeenInv, MissesOf
<1>15. CASE GatePasses
  BY <1>15 DEF GatePasses, misser, files, Exit, SeenInv, MissesOf
<1>16. CASE GateFails
  BY <1>16 DEF GateFails, misser, files, SeenInv, MissesOf
<1>17. CASE WriteManifest
  BY <1>17 DEF WriteManifest, misser, Exit, SeenInv, MissesOf
<1>18. CASE UNCHANGED doorVars
  BY <1>18 DEF doorVars, misser, files, process, SeenInv, MissesOf
<1> QED
  BY <1>1, <1>2, <1>3, <1>4, <1>5, <1>6, <1>7, <1>8, <1>9, <1>10, <1>11, <1>12, <1>13, <1>14, <1>15, <1>16, <1>17, <1>18 DEF DoorNext

(* An open gate: no route has a count, so nothing has missed.              *)
LEMMA OpenGate == DoorInv => (GateOpen <=> misses = {})
<1> SUFFICES ASSUME DoorInv PROVE GateOpen <=> misses = {} OBVIOUS
<1>1. \A t \in Routes : IsFiniteSet(MissesOf(t))
  BY ReqsAssumption, FS_Subset DEF DoorInv, DoorTypeOK, MissesOf
<1>2. \A t \in Routes : seen[t] = 0 <=> MissesOf(t) = {}
  BY <1>1, FS_EmptySet DEF DoorInv, SeenInv
<1>3. misses = {} <=> \A t \in Routes : MissesOf(t) = {}
  BY DEF DoorInv, DoorTypeOK, MissesOf
<1> QED BY <1>2, <1>3 DEF GateOpen

LEMMA ExitStep == DoorInv /\ [DoorNext]_doorVars => ExitInv'
<1> SUFFICES ASSUME DoorInv, [DoorNext]_doorVars PROVE ExitInv'
  OBVIOUS
<1> USE DEF DoorInv, DoorTypeOK, Bodies, HandlerInv, ExitInv
<1>1. ASSUME NEW r \in Reqs, Accept(r) PROVE ExitInv'
  BY <1>1 DEF Accept, Handler, misser, files, process, Alive
<1>2. ASSUME NEW r \in Reqs, Hit(r) PROVE ExitInv'
  BY <1>2 DEF Hit, Handler, misser, files, process, Alive
<1>3. ASSUME NEW r \in Reqs, RecordMiss(r) PROVE ExitInv'
  BY <1>3 DEF RecordMiss, Handler, files, process, Alive
<1>4. ASSUME NEW r \in Reqs, AnswerMiss(r) PROVE ExitInv'
  BY <1>4 DEF AnswerMiss, Handler, misser, files, process, Alive
<1>5. ASSUME NEW r \in Reqs, ForwardFails(r) PROVE ExitInv'
  BY <1>5 DEF ForwardFails, Handler, misser, files, process, Alive
<1>6. ASSUME NEW r \in Reqs, Forward(r) PROVE ExitInv'
  BY <1>6 DEF Forward, Handler, misser, files, process, Alive
<1>7. ASSUME NEW r \in Reqs, WriteLast(r) PROVE ExitInv'
  BY <1>7 DEF WriteLast, misser, files, process, Alive
<1>8. ASSUME NEW r \in Reqs, CopyEnds(r) PROVE ExitInv'
  BY <1>8 DEF CopyEnds, Handler, misser, files, process, Alive
<1>9. CASE Signal
  BY <1>9 DEF Signal, misser, files, Alive
<1>10. CASE AcceptFails
  BY <1>10 DEF AcceptFails, misser, files, Alive
<1>11. CASE ShutdownReturns
  BY <1>11 DEF ShutdownReturns, misser, files, Alive
<1>12. CASE ServeReturns
  BY <1>12 DEF ServeReturns, misser, files
<1>13. CASE ServeFails
  BY <1>13 DEF ServeFails, misser, files, Exit
<1>14. CASE SaveHook
  BY <1>14 DEF SaveHook, misser, Exit
<1>15. CASE GatePasses
  BY <1>15, OpenGate DEF GatePasses, misser, files, Exit
<1>16. CASE GateFails
  BY <1>16, OpenGate DEF GateFails, misser, files
<1>17. CASE WriteManifest
  BY <1>17 DEF WriteManifest, misser, Exit
<1>18. CASE UNCHANGED doorVars
  BY <1>18 DEF doorVars, misser, files, process
<1> QED
  BY <1>1, <1>2, <1>3, <1>4, <1>5, <1>6, <1>7, <1>8, <1>9, <1>10, <1>11, <1>12, <1>13, <1>14, <1>15, <1>16, <1>17, <1>18 DEF DoorNext

LEMMA DoorInvStep == DoorInv /\ [DoorNext]_doorVars => DoorInv'
BY DoorTypeStep, HandlerStep, SeenStep, ExitStep DEF DoorInv

LEMMA DoorInvHolds == DoorSpec => []DoorInv
BY DoorInitInv, DoorInvStep, PTL DEF DoorSpec
-----------------------------------------------------------------------------
(* Every variable keeps its type.                                          *)
THEOREM DoorTypeCorrect == DoorSpec => []DoorTypeOK
<1>1. DoorInv => DoorTypeOK BY DEF DoorInv
<1> QED BY DoorInvHolds, <1>1, PTL

(* What was over when the signal came is in the saved file, as it was      *)
(* captured and whole if the client got it whole, although main does not   *)
(* wait for the handlers (proxy.go, cmdProxy; serve.go, serveUntilSignal). *)
THEOREM FinishedIsSavedCorrect == DoorSpec => []FinishedIsSaved
<1>1. DoorInv => FinishedIsSaved
  BY DEF DoorInv, DoorTypeOK, HandlerInv, ExitInv, FinishedIsSaved
<1> QED BY DoorInvHolds, <1>1, PTL

(* A manifest that was written counts every miss that was over when the    *)
(* signal came, and no miss twice.                                         *)
LEMMA ManifestCounts ==
    ASSUME DoorInv, mode = "gate", manifest # None, NEW t \in Routes
    PROVE  manifest[t] \in Cardinality({r \in finished \cap misses : route[r] = t})
                            ..Cardinality({r \in Reqs \cap misses : route[r] = t})
<1> DEFINE over == {r \in finished \cap misses : route[r] = t}
<1>1. {r \in Reqs \cap misses : route[r] = t} = MissesOf(t)
  BY DEF DoorInv, DoorTypeOK, MissesOf
<1>2. over \in SUBSET MissesOf(t) BY DEF MissesOf
<1>3. IsFiniteSet(MissesOf(t)) BY ReqsAssumption, FS_Subset DEF DoorInv, DoorTypeOK, MissesOf
<1>4. Cardinality(over) <= Cardinality(MissesOf(t)) BY <1>2, <1>3, FS_Subset
<1>5. IsFiniteSet(over) BY <1>2, <1>3, FS_Subset
<1>6. Cardinality(over) \in Nat /\ Cardinality(MissesOf(t)) \in Nat
  BY <1>3, <1>5, FS_CardinalityType
<1>7. manifest[t] = Cardinality(MissesOf(t)) BY DEF DoorInv, ExitInv, SeenInv
<1> HIDE DEF over
<1>8. manifest[t] \in Cardinality(over)..Cardinality(MissesOf(t)) BY <1>4, <1>6, <1>7
<1> QED BY <1>1, <1>8 DEF over

(* The miss gate fails a command exactly for its misses, those still       *)
(* running when the signal came left to chance, and the manifest counts    *)
(* them (ciguard.go, finalizeMisses).                                      *)
THEOREM GateSoundCorrect == DoorSpec => []GateSound
<1>1. DoorInv => GateSound
  <2> SUFFICES ASSUME DoorInv, mode = "gate", command = "exited", listener = "closed"
               PROVE  /\ finished \cap misses # {} => code = "fail"
                      /\ code = "fail" => misses # {}
                      /\ manifest # None =>
                            \A t \in Routes :
                              manifest[t] \in Cardinality({r \in finished \cap misses : route[r] = t})
                                              ..Cardinality({r \in Reqs \cap misses : route[r] = t})
    BY DEF GateSound
  <2>1. code \in {"ok", "fail"} BY DEF DoorInv, DoorTypeOK, ExitInv
  <2>2. finished \cap misses # {} => code = "fail" BY <2>1 DEF DoorInv, ExitInv
  <2>3. code = "fail" => misses # {} BY DEF DoorInv, ExitInv
  <2> QED BY <2>2, <2>3, ManifestCounts
<1> QED BY DoorInvHolds, <1>1, PTL

=============================================================================
