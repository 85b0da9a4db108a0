------------------------------- MODULE McpProxy -------------------------------
(***************************************************************************)
(* `cassette mcp-proxy` (cmd/cassette/mcpproxy.go): a recorder between an  *)
(* MCP client, on its own stdin and stdout, and the MCP server it spawns.  *)
(* Two goroutines forward newline-delimited JSON-RPC frames, one in each   *)
(* direction, and pair the tools/call and tools/list requests they see     *)
(* with their results; cmdMCPProxy waits for both, then for the server,    *)
(* and saves.                                                              *)
(*                                                                         *)
(* The pipes are bounded, so a write blocks until the other side reads.    *)
(* A client frame is its number, which is also its JSON-RPC id, and its    *)
(* kind: "tool" for the two recorded methods, "other" for any other frame, *)
(* "long" for a line above the scanner's limit.  A server frame is         *)
(* a "result" or "error" for an id or a "request" of its own, whose id may *)
(* be any.  The two recorded methods differ in the stored body only.       *)
(***************************************************************************)
EXTENDS Integers, Sequences

CONSTANTS
    MaxLines,   \* bound on the frames the client sends
    MaxFrames,  \* bound on the frames the server sends
    Room        \* frames a pipe holds

ASSUME BoundsAssumption == MaxLines \in Nat /\ MaxFrames \in Nat /\ Room \in Nat \ {0}

Ids == 1..MaxLines

VARIABLES
    client,   \* "up", "eof" (it closed our stdin), or "gone" (it exited)
    sent,     \* kinds of the frames the client sent; the index is the id
    cin,      \* our stdin
    cp,       \* client pump: "scan", "write", "ended"
    chand,    \* the frame the client pump holds, 0 for none
    sin,      \* the server's stdin
    server,   \* "up", "stuck" in the write of an overlong line, or "gone"
    asked,    \* ids the server has read and not answered
    frames,   \* frames the server sent (bounded by MaxFrames)
    sout,     \* the server's stdout
    sp,       \* server pump: "scan", "write", "tee", "ended"
    shand,    \* the frame the server pump holds
    cout,     \* the frames written to our stdout
    pending,  \* ids of the registered requests
    rec,      \* ids of the recorded interactions
    main      \* "pumping", "waiting" for the server, "saved", "nothing"
              \* recorded, or "killed"

clientSide == <<client, sent>>
clientPump == <<cp, chand>>
serverSide == <<server, asked, frames>>
serverPump == <<sp, shand>>
vars == <<clientSide, cin, clientPump, sin, serverSide, sout, serverPump,
          cout, pending, rec, main>>

NoFrame == [kind |-> "none", id |-> 0]

Init ==
    /\ client = "up" /\ sent = <<>> /\ cin = <<>>
    /\ cp = "scan" /\ chand = 0
    /\ sin = <<>>
    /\ server = "up" /\ asked = {} /\ frames = 0 /\ sout = <<>>
    /\ sp = "scan" /\ shand = NoFrame
    /\ cout = <<>> /\ pending = {} /\ rec = <<>>
    /\ main = "pumping"

Pumping == main = "pumping"
-----------------------------------------------------------------------------
(* The MCP client, outside the repository.                                 *)

ClientSends ==
    /\ client = "up"
    /\ Len(sent) < MaxLines /\ Len(cin) < Room
    /\ \E kind \in {"tool", "other", "long"} : sent' = Append(sent, kind)
    /\ cin' = Append(cin, Len(sent) + 1)
    /\ UNCHANGED <<client, clientPump, sin, serverSide, sout, serverPump, cout, pending, rec, main>>

ClientEnds ==
    /\ \/ client = "up" /\ client' \in {"eof", "gone"}
       \/ client = "eof" /\ client' = "gone"
    /\ UNCHANGED <<sent, cin, clientPump, sin, serverSide, sout, serverPump, cout, pending, rec, main>>
-----------------------------------------------------------------------------
(* client -> server.                                                       *)

(* Mutant: the request is registered only after it was forwarded.          *)
ScanLine_NoRegister ==
    /\ Pumping /\ cp = "scan" /\ cin # <<>> /\ sent[Head(cin)] # "long"
    /\ chand' = Head(cin) /\ cin' = Tail(cin)
    /\ cp' = "write"
    /\ pending' = IF chand # 0 /\ sent[chand] = "tool" THEN pending \cup {chand} ELSE pending
    /\ UNCHANGED <<clientSide, sin, serverSide, sout, serverPump, cout, rec, main>>

(* Scan, and the registration that precedes the forwarding.                *)
ScanLine ==
    /\ Pumping /\ cp = "scan" /\ cin # <<>> /\ sent[Head(cin)] # "long"
    /\ chand' = Head(cin) /\ cin' = Tail(cin)
    /\ cp' = "write"
    /\ pending' = IF sent[Head(cin)] = "tool" THEN pending \cup {Head(cin)} ELSE pending
    /\ UNCHANGED <<clientSide, sin, serverSide, sout, serverPump, cout, rec, main>>

(* Scan returns false at EOF and on an overlong line; the deferred Close   *)
(* of the server's stdin runs.                                             *)
ClientPumpEnds ==
    /\ Pumping /\ cp = "scan"
    /\ IF cin = <<>> THEN client # "up" ELSE sent[Head(cin)] = "long"
    /\ cp' = "ended"
    /\ UNCHANGED <<clientSide, cin, chand, sin, serverSide, sout, serverPump,
                   cout, pending, rec, main>>

(* writeLine; the error of a broken pipe is ignored.                       *)
WriteServer ==
    /\ Pumping /\ cp = "write"
    /\ IF server = "gone"
       THEN UNCHANGED sin
       ELSE Len(sin) < Room /\ sin' = Append(sin, chand)
    /\ cp' = "scan"
    /\ UNCHANGED <<clientSide, cin, chand, serverSide, sout, serverPump, cout, pending, rec, main>>
-----------------------------------------------------------------------------
(* The MCP server, outside the repository: it reads, answers in any order  *)
(* or never, exits when its stdin is closed, and may crash.                *)

ServerReads ==
    /\ server = "up" /\ sin # <<>>
    /\ asked' = asked \cup {Head(sin)}
    /\ sin' = Tail(sin)
    /\ UNCHANGED <<clientSide, cin, clientPump, server, frames, sout, serverPump,
                   cout, pending, rec, main>>

ServerSends ==
    /\ server = "up" /\ frames < MaxFrames /\ Len(sout) < Room
    /\ frames' = frames + 1
    /\ \/ \E kind \in {"result", "error"}, id \in asked :
            /\ sout' = Append(sout, [kind |-> kind, id |-> id])
            /\ asked' = asked \ {id}
            /\ server' = server
       \/ \E id \in Ids :
            /\ sout' = Append(sout, [kind |-> "request", id |-> id])
            /\ UNCHANGED <<asked, server>>
       \/ /\ sout' = Append(sout, [kind |-> "long", id |-> 0])
          /\ server' = "stuck"
          /\ UNCHANGED asked
    /\ UNCHANGED <<clientSide, cin, clientPump, sin, serverPump, cout, pending, rec, main>>

ServerGone ==
    /\ server' = "gone"
    /\ UNCHANGED <<clientSide, cin, clientPump, sin, asked, frames, sout, serverPump,
                   cout, pending, rec, main>>

ServerExits   == server = "up" /\ cp = "ended" /\ sin = <<>> /\ ServerGone
ServerCrashes == server # "gone" /\ ServerGone
-----------------------------------------------------------------------------
(* server -> client.                                                       *)

ScanFrame ==
    /\ Pumping /\ sp = "scan" /\ sout # <<>> /\ Head(sout).kind # "long"
    /\ shand' = Head(sout) /\ sout' = Tail(sout)
    /\ sp' = "write"
    /\ UNCHANGED <<clientSide, cin, clientPump, sin, serverSide, cout, pending, rec, main>>

(* Mutant: the pump goes on until the client is gone too.                  *)
ServerPumpEnds_WithClient ==
    /\ Pumping /\ sp = "scan"
    /\ IF sout = <<>> THEN server = "gone" /\ client = "gone" ELSE Head(sout).kind = "long"
    /\ sp' = "ended"
    /\ UNCHANGED <<clientSide, cin, clientPump, sin, serverSide, sout, shand,
                   cout, pending, rec, main>>

ServerPumpEnds ==
    /\ Pumping /\ sp = "scan"
    /\ IF sout = <<>> THEN server = "gone" ELSE Head(sout).kind = "long"
    /\ sp' = "ended"
    /\ UNCHANGED <<clientSide, cin, clientPump, sin, serverSide, sout, shand,
                   cout, pending, rec, main>>

(* A write to our stdout, which the client reads while it is there; once   *)
(* it is gone, the write to a broken fd 1 kills the process (os/signal).   *)
WriteClient ==
    /\ Pumping /\ sp = "write"
    /\ IF client = "gone"
       THEN main' = "killed" /\ UNCHANGED <<sp, cout>>
       ELSE sp' = "tee" /\ cout' = Append(cout, shand) /\ UNCHANGED main
    /\ UNCHANGED <<clientSide, cin, clientPump, sin, serverSide, sout, shand, pending, rec>>

(* Mutant: any frame with the id of a pending request is taken for its     *)
(* answer.                                                                 *)
Answers_AnyFrame(f) == f.id \in pending

(* Only a frame with a result answers; the error of a request leaves it    *)
(* pending.                                                                *)
Answers(f) == f.kind = "result" /\ f.id \in pending

TeeFrame ==
    /\ Pumping /\ sp = "tee"
    /\ sp' = "scan"
    /\ IF Answers(shand)
       THEN pending' = pending \ {shand.id} /\ rec' = Append(rec, shand.id)
       ELSE UNCHANGED <<pending, rec>>
    /\ UNCHANGED <<clientSide, cin, clientPump, sin, serverSide, sout, shand, cout, main>>
-----------------------------------------------------------------------------
(* cmdMCPProxy.                                                            *)

PumpsDone ==
    /\ Pumping /\ cp = "ended" /\ sp = "ended"
    /\ main' = "waiting"
    /\ UNCHANGED <<clientSide, cin, clientPump, sin, serverSide, sout, serverPump, cout, pending, rec>>

WaitDone ==
    /\ main = "waiting" /\ server = "gone"
    /\ main' = IF rec = <<>> THEN "nothing" ELSE "saved"
    /\ UNCHANGED <<clientSide, cin, clientPump, sin, serverSide, sout, serverPump, cout, pending, rec>>

Next ==
    \/ ClientSends \/ ClientEnds
    \/ ScanLine \/ ClientPumpEnds \/ WriteServer
    \/ ServerReads \/ ServerSends \/ ServerExits \/ ServerCrashes
    \/ ScanFrame \/ ServerPumpEnds \/ WriteClient \/ TeeFrame
    \/ PumpsDone \/ WaitDone

Spec == Init /\ [][Next]_vars

(***************************************************************************)
(* The goroutines run whenever they are not blocked, and a server reads    *)
(* what it is sent and exits when its stdin is closed, as MCP's stdio      *)
(* transport has it.  Nothing makes the client send or leave.              *)
(***************************************************************************)
Fairness ==
    /\ WF_vars(ScanLine \/ ClientPumpEnds \/ WriteServer)
    /\ WF_vars(ScanFrame \/ ServerPumpEnds \/ WriteClient \/ TeeFrame)
    /\ WF_vars(PumpsDone \/ WaitDone)
    /\ WF_vars(ServerReads) /\ WF_vars(ServerExits)

FairSpec == Spec /\ Fairness
-----------------------------------------------------------------------------
(* Type invariant.                                                         *)
Frames == [kind : {"result", "error", "request", "long"}, id : 0..MaxLines]

TypeOK ==
    /\ client \in {"up", "eof", "gone"}
    /\ sent \in Seq({"tool", "other", "long"})
    /\ cin \in Seq(Ids) /\ sin \in Seq(Ids)
    /\ cp \in {"scan", "write", "ended"} /\ chand \in 0..MaxLines
    /\ server \in {"up", "stuck", "gone"} /\ asked \subseteq Ids /\ frames \in 0..MaxFrames
    /\ sout \in Seq(Frames) /\ cout \in Seq(Frames)
    /\ sp \in {"scan", "write", "tee", "ended"}
    /\ shand \in IF sp \in {"write", "tee"} THEN Frames ELSE Frames \cup {NoFrame}
    /\ pending \subseteq {i \in DOMAIN sent : sent[i] = "tool"} /\ rec \in Seq(Ids)
    /\ main \in {"pumping", "waiting", "saved", "nothing", "killed"}

(* Of the first n frames the client got, the results of tools requests.    *)
Heard(n) == {k \in 1..n : cout[k].kind = "result" /\ sent[cout[k].id] = "tool"}

(* The interactions are those results, each once and in that order.        *)
Records(n) ==
    \E at \in [DOMAIN rec -> Heard(n)] :
        /\ \A i \in DOMAIN rec : rec[i] = cout[at[i]].id
        /\ \A i, j \in DOMAIN rec : i < j => at[i] < at[j]
        /\ \A k \in Heard(n) : \E i \in DOMAIN rec : at[i] = k

(* The recording is exactly what the client heard: one interaction for     *)
(* each result of a tools request, in the order the client got them, none  *)
(* missed because the answer overtook the registration, none made of an    *)
(* error or of the server's own request that has the same id               *)
(* (mcpproxy.go: "Register the pending call BEFORE forwarding").           *)
RecordedAsHeard == sp # "tee" => Records(Len(cout))

(* Once the client has closed its end, the command ends, whatever frames   *)
(* are on their way and in whatever order the two sides stop, unless the   *)
(* server wrote a line above the scanner's limit (pumpMCPProxy: "returns   *)
(* once both directions reach EOF").                                       *)
ClientEOFEndsCommand ==
    client # "up" ~> (main \in {"saved", "nothing", "killed"} \/ server = "stuck")
===============================================================================
