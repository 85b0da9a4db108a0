------------------------------- MODULE FrontDoor -------------------------------
(***************************************************************************)
(* The listening commands, from the first connection to the exit status:   *)
(* serve and proxy in replay mode with the miss gate, and proxy and up in  *)
(* record mode.  All of them run serveUntilSignal (cmd/cassette/serve.go)  *)
(* and then a hook: finalizeMisses (ciguard.go) or the cassette's          *)
(* VerifyError, which saves (proxy.go, up.go).                             *)
(*                                                                         *)
(* On a signal a goroutine of its own calls http.Server.Shutdown, which    *)
(* closes the listener and waits for handlers; Serve, in main, returns     *)
(* ErrServerClosed as soon as the listener is closed.  When main returns   *)
(* the process ends with every goroutine in it.                            *)
(*                                                                         *)
(* The handler of record mode is forwardTo over a CassetteRecord call, of  *)
(* which only the state of the stored body is kept here.                   *)
(***************************************************************************)
EXTENDS Integers, FiniteSets

CONSTANTS
    Reqs,     \* the requests clients may make, one connection each
    Routes    \* method and path, what a miss is filed under

ASSUME ReqsAssumption == IsFiniteSet(Reqs)

VARIABLES
    mode,      \* "record" or "gate"
    route,     \* request -> its route
    h,         \* request -> its handler: "none", "running", "copying" a live
               \*   response, "missed", "ended"
    heard,     \* requests whose client has been written the whole response
    mem,       \* request -> its response body in the cassette: "absent",
               \*   "empty" when just appended, "part", "full"
    disk,      \* the same, in the file
    seen,      \* missRecorder.seen: route -> count
    manifest,  \* the counts in the miss manifest
    listener,  \* "open", "closed", or "failed" (Accept returned an error)
    shutdown,  \* the signal goroutine: "waiting", "draining", "done"
    command,   \* "serving", "returned" from Serve, "gating", "exited"
    code,      \* exit status: "none", "ok", "fail"
    misses,    \* history: the requests that missed
    finished   \* history: the requests over when the signal came

process  == <<listener, shutdown, command, code, finished>>
files    == <<disk, manifest>>
misser   == <<seen, misses>>
doorVars == <<mode, route, h, heard, mem, misser, files, process>>

(* newMissRecorder: no route has missed.                                   *)
None == [t \in Routes |-> 0]

DoorInit ==
    /\ mode \in {"record", "gate"}
    /\ route \in [Reqs -> Routes]
    /\ h = [r \in Reqs |-> "none"]
    /\ heard = {}
    /\ mem = [r \in Reqs |-> "absent"]
    /\ disk = mem
    /\ seen = None /\ manifest = None
    /\ listener = "open" /\ shutdown = "waiting"
    /\ command = "serving" /\ code = "none"
    /\ misses = {} /\ finished = {}

Alive == command # "exited"

Active == {r \in Reqs : h[r] \in {"running", "copying", "missed"}}
-----------------------------------------------------------------------------
(* Handlers.                                                               *)

Handler(r, from, to) == Alive /\ h[r] = from /\ h' = [h EXCEPT ![r] = to]

Accept(r) ==
    /\ listener = "open"
    /\ Handler(r, "none", "running")
    /\ UNCHANGED <<mode, route, heard, mem, misser, files, process>>

(* Replay: the recording answers.                                          *)
Hit(r) ==
    /\ mode = "gate"
    /\ Handler(r, "running", "ended")
    /\ heard' = heard \cup {r}
    /\ UNCHANGED <<mode, route, mem, misser, files, process>>

(* Mutant: only the first miss of a route is counted.                      *)
RecordMiss_Once(r) ==
    /\ mode = "gate"
    /\ Handler(r, "running", "missed")
    /\ seen' = [seen EXCEPT ![route[r]] = 1]
    /\ misses' = misses \cup {r}
    /\ UNCHANGED <<mode, route, heard, mem, files, process>>

(* recordingOnMiss: first the miss is recorded, ...                        *)
RecordMiss(r) ==
    /\ mode = "gate"
    /\ Handler(r, "running", "missed")
    /\ seen' = [seen EXCEPT ![route[r]] = @ + 1]
    /\ misses' = misses \cup {r}
    /\ UNCHANGED <<mode, route, heard, mem, files, process>>

(* ... then the 404 is written.                                            *)
AnswerMiss(r) ==
    /\ Handler(r, "missed", "ended")
    /\ heard' = heard \cup {r}
    /\ UNCHANGED <<mode, route, mem, misser, files, process>>

(* forwardTo: the request's body cannot be read, or client.Do fails; a     *)
(* unary body that fails to decode leaves an empty interaction.            *)
ForwardFails(r) ==
    /\ mode = "record"
    /\ Handler(r, "running", "ended")
    /\ \E left \in {"absent", "empty"} : mem' = [mem EXCEPT ![r] = left]
    /\ UNCHANGED <<mode, route, heard, misser, files, process>>

(* client.Do returns: a unary body is stored by then, a stream's is not.   *)
Forward(r) ==
    /\ mode = "record"
    /\ Handler(r, "running", "copying")
    /\ \E body \in {"empty", "full"} : mem' = [mem EXCEPT ![r] = body]
    /\ UNCHANGED <<mode, route, heard, misser, files, process>>

(* The copy loop has written the last bytes; EOF is yet to be read.        *)
WriteLast(r) ==
    /\ Alive /\ h[r] = "copying"
    /\ heard' = heard \cup {r}
    /\ UNCHANGED <<mode, route, h, mem, misser, files, process>>

(* Mutant: the response body is never closed.                              *)
CopyEnds_NoClose(r) ==
    /\ Handler(r, "copying", "ended")
    /\ mem' = mem
    /\ UNCHANGED <<mode, route, heard, misser, files, process>>

(* The loop ends at EOF, or early when a write to the client or a read     *)
(* from upstream fails; EOF and the deferred Close finalize the capture.   *)
CopyEnds(r) ==
    /\ Handler(r, "copying", "ended")
    /\ mem' = [mem EXCEPT ![r] = IF r \in heard THEN "full" ELSE IF @ = "empty" THEN "part" ELSE @]
    /\ UNCHANGED <<mode, route, heard, misser, files, process>>
-----------------------------------------------------------------------------
(* serveUntilSignal.                                                       *)

(* SIGINT or SIGTERM: Shutdown closes the listener.                        *)
Signal ==
    /\ Alive /\ shutdown = "waiting"
    /\ shutdown' = "draining"
    /\ listener' = IF listener = "open" THEN "closed" ELSE listener
    /\ finished' = IF command = "serving" /\ listener = "open"
                   THEN {r \in Reqs : h[r] = "ended"} ELSE finished
    /\ UNCHANGED <<mode, route, h, heard, mem, misser, files, command, code>>

AcceptFails ==
    /\ Alive /\ listener = "open"
    /\ listener' = "failed"
    /\ UNCHANGED <<mode, route, h, heard, mem, misser, files, shutdown, command, code, finished>>

(* Shutdown returns when no handler is active, or after two seconds.       *)
ShutdownReturns ==
    /\ Alive /\ shutdown = "draining"
    /\ shutdown' = "done"
    /\ UNCHANGED <<mode, route, h, heard, mem, misser, files, listener, command, code, finished>>

(* Mutant: main waits for the handlers, with no limit.                     *)
ServeReturns_NoHandlers ==
    /\ command = "serving" /\ listener = "closed" /\ Active = {}
    /\ command' = "returned"
    /\ UNCHANGED <<mode, route, h, heard, mem, misser, files, listener, shutdown, code, finished>>

ServeReturns ==
    /\ command = "serving" /\ listener = "closed"
    /\ command' = "returned"
    /\ UNCHANGED <<mode, route, h, heard, mem, misser, files, listener, shutdown, code, finished>>

Exit(status) == command' = "exited" /\ code' = status

(* Any other error of Serve ends the command, and the hook does not run.   *)
ServeFails ==
    /\ command = "serving" /\ listener = "failed"
    /\ Exit("fail")
    /\ UNCHANGED <<mode, route, h, heard, mem, misser, files, listener, shutdown, finished>>
-----------------------------------------------------------------------------
(* The hooks.                                                              *)

SaveHook ==
    /\ command = "returned" /\ mode = "record"
    /\ \/ disk' = mem /\ Exit("ok")
       \/ UNCHANGED disk /\ Exit("fail")
    /\ UNCHANGED <<mode, route, h, heard, mem, misser, manifest, listener, shutdown, finished>>

(* finalizeMisses: rec.empty() ...                                         *)
GateOpen == \A t \in Routes : seen[t] = 0

GatePasses ==
    /\ command = "returned" /\ mode = "gate" /\ GateOpen
    /\ Exit("ok")
    /\ UNCHANGED <<mode, route, h, heard, mem, misser, files, listener, shutdown, finished>>

GateFails ==
    /\ command = "returned" /\ mode = "gate" /\ ~GateOpen
    /\ command' = "gating"
    /\ UNCHANGED <<mode, route, h, heard, mem, misser, files, listener, shutdown, code, finished>>

(* ... and, later, what is in it by then; a failed write is only logged.   *)
WriteManifest ==
    /\ command = "gating"
    /\ manifest' \in {seen, manifest}
    /\ Exit("fail")
    /\ UNCHANGED <<mode, route, h, heard, mem, misser, disk, listener, shutdown, finished>>

DoorNext ==
    \/ \E r \in Reqs :
        \/ Accept(r) \/ Hit(r) \/ RecordMiss(r) \/ AnswerMiss(r)
        \/ ForwardFails(r) \/ Forward(r) \/ WriteLast(r) \/ CopyEnds(r)
    \/ Signal \/ AcceptFails \/ ShutdownReturns \/ ServeReturns \/ ServeFails
    \/ SaveHook \/ GatePasses \/ GateFails \/ WriteManifest

DoorSpec == DoorInit /\ [][DoorNext]_doorVars

(* main runs on and the drain is timed; nothing is assumed of handlers.    *)
DoorFairSpec ==
    /\ DoorSpec
    /\ WF_doorVars(ServeReturns \/ ServeFails \/ SaveHook
                   \/ GatePasses \/ GateFails \/ WriteManifest)
    /\ WF_doorVars(ShutdownReturns)
-----------------------------------------------------------------------------
(* Type invariant.                                                         *)
Bodies == [Reqs -> {"absent", "empty", "part", "full"}]

DoorTypeOK ==
    /\ mode \in {"record", "gate"}
    /\ route \in [Reqs -> Routes]
    /\ h \in [Reqs -> {"none", "running", "copying", "missed", "ended"}]
    /\ heard \subseteq Reqs /\ misses \subseteq Reqs /\ finished \subseteq Reqs
    /\ mem \in Bodies /\ disk \in Bodies
    /\ seen \in [Routes -> Nat] /\ manifest \in [Routes -> Nat]
    /\ listener \in {"open", "closed", "failed"}
    /\ shutdown \in {"waiting", "draining", "done"}
    /\ command \in {"serving", "returned", "gating", "exited"}
    /\ code \in {"none", "ok", "fail"}

(* What was over when the signal came survives the exit, although main     *)
(* does not wait for the drain: it is in the saved file as it was          *)
(* captured, and whole if the client got it whole; the status is ok only   *)
(* if the file was written (proxy.go, cmdProxy).                           *)
FinishedIsSaved ==
    (mode = "record" /\ code = "ok") =>
        \A r \in finished : disk[r] = mem[r] /\ (r \in heard => disk[r] = "full")

(* The gate: a miss that was over when the signal came fails the command,  *)
(* and a manifest counts each of those and no more than there were in all; *)
(* without a miss the command passes (ciguard.go, finalizeMisses).         *)
GateSound ==
    (mode = "gate" /\ command = "exited" /\ listener = "closed") =>
        /\ finished \cap misses # {} => code = "fail"
        /\ code = "fail" => misses # {}
        /\ manifest # None =>
              \A t \in Routes :
                  LET of(R) == Cardinality({r \in R \cap misses : route[r] = t})
                  IN  manifest[t] \in of(finished)..of(Reqs)

(* A signal ends the command, whatever its handlers are doing.             *)
SignalExits == shutdown = "draining" ~> command = "exited"

(* serveUntilSignal is said to shut down gracefully, with two seconds of   *)
(* grace: the command does not end before its requests are answered or     *)
(* that time is over.                                                      *)
GraceIsGiven ==
    (command = "exited" /\ listener = "closed") => (Active = {} \/ shutdown = "done")
===============================================================================
