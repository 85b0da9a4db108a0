---------------------------- MODULE CassetteRecord ----------------------------
(***************************************************************************)
(* A cassette in record mode, shared by concurrent callers (transport.go,  *)
(* record and streamCapture; mcp.go, record; cassette.go, Save and         *)
(* VerifyError).  A call is one RoundTrip: the request goes to the real    *)
(* server, the interaction is appended once the response headers are       *)
(* there, and the body is filled in later: at once for a unary response,   *)
(* and for an event stream when the caller has read it to EOF or closes    *)
(* it.  Or it is one MCP call, which appends its result complete.          *)
(*                                                                         *)
(* Each critical section of Cassette.mu or of streamCapture.mu is one      *)
(* action.  Reading a stream and closing it may be done by two goroutines  *)
(* (the http.Response.Body contract), so a Read's two halves, the source's *)
(* Read and the guarded tee, are two actions.                              *)
(*                                                                         *)
(* A body is the number of its chunks; 0 is also the nil body, because     *)
(* wirefmt.NewBody maps an empty body to nil.  Frame timing is left out.   *)
(***************************************************************************)
EXTENDS Integers, Sequences, SequencesExt

CONSTANTS
    Calls,      \* the RoundTrips of the session, each made once
    Responses,  \* what the real server may answer: records
                \*   streaming, gzip   from Content-Type and Content-Encoding
                \*   chunks            the length of the body it meant to send
                \*   arrive            how much of it reaches us before EOF, or
                \*                     before the connection breaks (< chunks)
                \*   secret            a credential in a field the scrubber
                \*                     does not touch
    NoResponse

ASSUME ResponsesAssumption ==
    \A r \in Responses :
        /\ r.streaming \in BOOLEAN /\ r.gzip \in BOOLEAN /\ r.secret \in BOOLEAN
        /\ r.chunks \in Nat /\ r.arrive \in 0..r.chunks

ASSUME NoResponseAssumption == NoResponse \notin Responses

VARIABLES
    mem,     \* c.file.Interactions: [call, body, err, secret]
    disk,    \* the interactions of the file at c.path
    saved,   \* what the last Save or VerifyError returned
    raw,     \* opts.DisableScrub
    net,     \* call -> the response it got
    pc,      \* call -> where its RoundTrip is
    slot,    \* call -> the index record keeps for it, 0 before the append
    taken,   \* call -> chunks its source has handed to Read
    buf,     \* call -> chunks teed into streamCapture.buf
    rd,      \* call -> where its stream's reader is
    cl,      \* call -> where its stream's closer is
    once,    \* call -> how far finalize is
    snap     \* call -> finalize's copy of buf

stream == <<taken, buf, rd, cl, once, snap>>
vars   == <<mem, disk, saved, raw, net, pc, slot, stream>>

Interaction(c, r) == [call |-> c, body |-> 0, err |-> FALSE, secret |-> r.secret]

Init ==
    /\ mem = <<>>
    /\ disk = <<>>
    /\ saved = "never"
    /\ raw \in BOOLEAN
    /\ net = [c \in Calls |-> NoResponse]
    /\ pc = [c \in Calls |-> "idle"]
    /\ slot = [c \in Calls |-> 0]
    /\ taken = [c \in Calls |-> 0]
    /\ buf = [c \in Calls |-> 0]
    /\ rd = [c \in Calls |-> "idle"]
    /\ cl = [c \in Calls |-> "no"]
    /\ once = [c \in Calls |-> "no"]
    /\ snap = [c \in Calls |-> 0]
-----------------------------------------------------------------------------
(* record, up to the point where the caller gets its response.             *)

Send(c) ==
    /\ pc[c] = "idle"
    /\ pc' = [pc EXCEPT ![c] = "sent"]
    /\ UNCHANGED <<mem, disk, saved, raw, net, slot, stream>>

(* next.RoundTrip, or the MCP server, returns an error: nothing is         *)
(* recorded.                                                               *)
TransportFails(c) ==
    /\ pc[c] = "sent"
    /\ pc' = [pc EXCEPT ![c] = "failed"]
    /\ UNCHANGED <<mem, disk, saved, raw, net, slot, stream>>

(* Mutant: the index is taken before the lock, so the append of another    *)
(* call can come in between.                                               *)
Respond_IndexBeforeAppend(c) ==
    /\ pc[c] = "sent"
    /\ \E r \in Responses :
        /\ net' = [net EXCEPT ![c] = r]
        /\ mem' = Append(mem, Interaction(c, r))
        /\ \E early \in {Len(mem), Len(mem) + 1} :
              early > 0 /\ slot' = [slot EXCEPT ![c] = early]
        /\ pc' = [pc EXCEPT ![c] = IF r.streaming THEN "streaming" ELSE "reading"]
    /\ UNCHANGED <<disk, saved, raw, stream>>

(* The envelope is complete before the interaction is published.           *)
Respond(c) ==
    /\ pc[c] = "sent"
    /\ \E r \in Responses :
        /\ net' = [net EXCEPT ![c] = r]
        /\ mem' = Append(mem, Interaction(c, r))
        /\ slot' = [slot EXCEPT ![c] = Len(mem) + 1]
        /\ pc' = [pc EXCEPT ![c] = IF r.streaming THEN "streaming" ELSE "reading"]
    /\ UNCHANGED <<disk, saved, raw, stream>>

(* CallTool and ListTools: the marshalled result is appended in one go.    *)
ToolAnswers(c) ==
    /\ pc[c] = "sent"
    /\ \E r \in Responses :
        /\ ~r.streaming /\ ~r.gzip /\ r.arrive = r.chunks
        /\ net' = [net EXCEPT ![c] = r]
        /\ mem' = Append(mem, [Interaction(c, r) EXCEPT !.body = r.chunks])
    /\ slot' = [slot EXCEPT ![c] = Len(mem) + 1]
    /\ pc' = [pc EXCEPT ![c] = "returned"]
    /\ UNCHANGED <<disk, saved, raw, stream>>

Whole(c) == net[c].arrive = net[c].chunks

(* What readDecoded makes of the first n chunks: a gzip member decodes     *)
(* only if all of it is there, and an empty input is not one.              *)
Undecodable(c, n) == net[c].gzip /\ (n = 0 \/ n # net[c].chunks)

SetBody(c, n) == mem' = [mem EXCEPT ![slot[c]].body = n]

(* Unary: readDecoded succeeds and setResponseBody stores the body.        *)
ReadUnary(c) ==
    /\ pc[c] = "reading"
    /\ Whole(c) /\ ~Undecodable(c, net[c].chunks)
    /\ SetBody(c, net[c].chunks)
    /\ pc' = [pc EXCEPT ![c] = "returned"]
    /\ UNCHANGED <<disk, saved, raw, net, slot, stream>>

(* readDecoded fails: the caller gets an error, the interaction stays.     *)
UnaryFails(c) ==
    /\ pc[c] = "reading"
    /\ ~Whole(c) \/ Undecodable(c, net[c].chunks)
    /\ pc' = [pc EXCEPT ![c] = "failed"]
    /\ UNCHANGED <<mem, disk, saved, raw, net, slot, stream>>
-----------------------------------------------------------------------------
(* The stream the caller reads, and its capture.                           *)

Open(c) == pc[c] = "streaming"

(* The source's Read returns a chunk; with the last one it may return EOF. *)
ReadChunk(c) ==
    /\ Open(c)
    /\ rd[c] = "idle" /\ cl[c] = "no"
    /\ taken[c] < net[c].arrive
    /\ taken' = [taken EXCEPT ![c] = @ + 1]
    /\ \/ rd' = [rd EXCEPT ![c] = "tee"]
       \/ /\ taken[c] + 1 = net[c].chunks
          /\ rd' = [rd EXCEPT ![c] = "teeEOF"]
    /\ UNCHANGED <<mem, disk, saved, raw, net, pc, slot, buf, cl, once, snap>>

(* Mutant: EOF finalizes before the chunk that came with it is teed.       *)
Tee_AfterEOF(c) ==
    /\ rd[c] \in {"tee", "teeEOF"}
    /\ rd' = [rd EXCEPT ![c] = IF @ = "tee" THEN "idle" ELSE "eof"]
    /\ buf' = [buf EXCEPT ![c] = IF rd[c] = "tee" THEN @ + 1 ELSE @]
    /\ UNCHANGED <<mem, disk, saved, raw, net, pc, slot, taken, cl, once, snap>>

Tee(c) ==
    /\ rd[c] \in {"tee", "teeEOF"}
    /\ buf' = [buf EXCEPT ![c] = @ + 1]
    /\ rd' = [rd EXCEPT ![c] = IF @ = "tee" THEN "idle" ELSE "eof"]
    /\ UNCHANGED <<mem, disk, saved, raw, net, pc, slot, taken, cl, once, snap>>

(* A Read that returns no data: EOF, or the error of a broken connection,  *)
(* which does not finalize.                                                *)
ReadEnd(c) ==
    /\ Open(c)
    /\ rd[c] = "idle" /\ cl[c] = "no"
    /\ taken[c] = net[c].arrive
    /\ rd' = [rd EXCEPT ![c] = IF Whole(c) THEN "eof" ELSE "broken"]
    /\ UNCHANGED <<mem, disk, saved, raw, net, pc, slot, taken, buf, cl, once, snap>>

(* Close, from any goroutine and at any time, the middle of a Read         *)
(* included: the source is closed first.                                   *)
Close(c) ==
    /\ Open(c)
    /\ cl[c] = "no"
    /\ cl' = [cl EXCEPT ![c] = "closed"]
    /\ UNCHANGED <<mem, disk, saved, raw, net, pc, slot, taken, buf, rd, once, snap>>

Finalizing(c) == rd[c] = "eof" \/ cl[c] = "closed"

(* Mutant: no sync.Once, so the second of EOF and Close stores again.      *)
FinalizeCopy_NoOnce(c) ==
    /\ once[c] \in {"no", "done"}
    /\ Finalizing(c)
    /\ once' = [once EXCEPT ![c] = "copied"]
    /\ snap' = [snap EXCEPT ![c] = buf[c]]
    /\ UNCHANGED <<mem, disk, saved, raw, net, pc, slot, taken, buf, rd, cl>>

(* finalize under sync.Once: copy the buffer, ...                          *)
FinalizeCopy(c) ==
    /\ once[c] = "no"
    /\ Finalizing(c)
    /\ once' = [once EXCEPT ![c] = "copied"]
    /\ snap' = [snap EXCEPT ![c] = buf[c]]
    /\ UNCHANGED <<mem, disk, saved, raw, net, pc, slot, taken, buf, rd, cl>>

(* Mutant: the still compressed bytes are stored.                          *)
FinalizeStore_KeepRaw(c) ==
    /\ once[c] = "copied"
    /\ SetBody(c, snap[c])
    /\ once' = [once EXCEPT ![c] = IF Undecodable(c, snap[c]) THEN "stored" ELSE "done"]
    /\ UNCHANGED <<disk, saved, raw, net, pc, slot, taken, buf, rd, cl, snap>>

(* ... setStreamCapture, ...                                               *)
FinalizeStore(c) ==
    /\ once[c] = "copied"
    /\ SetBody(c, IF Undecodable(c, snap[c]) THEN 0 ELSE snap[c])
    /\ once' = [once EXCEPT ![c] = IF Undecodable(c, snap[c]) THEN "stored" ELSE "done"]
    /\ UNCHANGED <<disk, saved, raw, net, pc, slot, taken, buf, rd, cl, snap>>

(* ... and, in a critical section of its own, setStreamError.              *)
FinalizeError(c) ==
    /\ once[c] = "stored"
    /\ mem' = [mem EXCEPT ![slot[c]].err = TRUE]
    /\ once' = [once EXCEPT ![c] = "done"]
    /\ UNCHANGED <<disk, saved, raw, net, pc, slot, taken, buf, rd, cl, snap>>

(* The Read that saw EOF, and Close, return after finalize: the one that   *)
(* comes second waits in sync.Once for the first.                          *)
EOFReturns(c) ==
    /\ rd[c] = "eof" /\ once[c] = "done"
    /\ rd' = [rd EXCEPT ![c] = "ended"]
    /\ UNCHANGED <<mem, disk, saved, raw, net, pc, slot, taken, buf, cl, once, snap>>

(* Mutant: Close waits for a reader that nothing obliges to go on.         *)
CloseReturns_AfterReader(c) ==
    /\ cl[c] = "closed" /\ once[c] = "done" /\ rd[c] = "ended"
    /\ cl' = [cl EXCEPT ![c] = "done"]
    /\ UNCHANGED <<mem, disk, saved, raw, net, pc, slot, taken, buf, rd, once, snap>>

CloseReturns(c) ==
    /\ cl[c] = "closed" /\ once[c] = "done"
    /\ cl' = [cl EXCEPT ![c] = "done"]
    /\ UNCHANGED <<mem, disk, saved, raw, net, pc, slot, taken, buf, rd, once, snap>>
-----------------------------------------------------------------------------
(* Save and VerifyError hold Cassette.mu throughout.                       *)

Leaks == \E i \in DOMAIN mem : mem[i].secret

(* The secret backstop of saveLocked.                                      *)
Refuses == ~raw /\ Leaks

Save ==
    /\ ~Refuses
    /\ disk' = mem
    /\ saved' = "ok"
    /\ UNCHANGED <<mem, raw, net, pc, slot, stream>>

(* wirefmt.Save fails before its rename: the old file stays.               *)
SaveFails ==
    /\ ~Refuses
    /\ saved' = "error"
    /\ UNCHANGED <<mem, disk, raw, net, pc, slot, stream>>

SaveRefused ==
    /\ Refuses
    /\ saved' = "error"
    /\ UNCHANGED <<mem, disk, raw, net, pc, slot, stream>>

Next ==
    \/ \E c \in Calls :
        \/ Send(c) \/ TransportFails(c) \/ Respond(c) \/ ToolAnswers(c)
        \/ ReadUnary(c) \/ UnaryFails(c)
        \/ ReadChunk(c) \/ Tee(c) \/ ReadEnd(c) \/ Close(c)
        \/ FinalizeCopy(c) \/ FinalizeStore(c) \/ FinalizeError(c)
        \/ EOFReturns(c) \/ CloseReturns(c)
    \/ Save \/ SaveFails \/ SaveRefused

(***************************************************************************)
(* A goroutine that is inside Read or Close runs on: between the source's  *)
(* return and its own it waits only for the two mutexes and for sync.Once. *)
(* Nothing obliges a caller to read on, to close, or to save.              *)
(***************************************************************************)
Fairness ==
    \A c \in Calls :
        WF_vars(Tee(c) \/ FinalizeCopy(c) \/ FinalizeStore(c) \/ FinalizeError(c)
                \/ EOFReturns(c) \/ CloseReturns(c))

Spec == Init /\ [][Next]_vars

FairSpec == Spec /\ Fairness
-----------------------------------------------------------------------------
(* Type invariant.                                                         *)
Slots == 0..Len(mem)

TypeOK ==
    /\ mem \in Seq([call : Calls, body : Nat, err : BOOLEAN, secret : BOOLEAN])
    /\ disk \in Seq([call : Calls, body : Nat, err : BOOLEAN, secret : BOOLEAN])
    /\ saved \in {"never", "ok", "error"}
    /\ raw \in BOOLEAN
    /\ net \in [Calls -> Responses \cup {NoResponse}]
    /\ pc \in [Calls -> {"idle", "sent", "reading", "streaming", "returned", "failed"}]
    /\ slot \in [Calls -> Slots]
    /\ taken \in [Calls -> Nat]
    /\ buf \in [Calls -> Nat]
    /\ rd \in [Calls -> {"idle", "tee", "teeEOF", "eof", "ended", "broken"}]
    /\ cl \in [Calls -> {"no", "closed", "done"}]
    /\ once \in [Calls -> {"no", "copied", "stored", "done"}]
    /\ snap \in [Calls -> Nat]

(* What a caller heard is what its own interaction holds: all of a unary   *)
(* body that was returned, all of a stream whose reader saw EOF before     *)
(* anyone closed it, and of a stream that was closed early all but at most *)
(* the chunk of a Read the Close overtook (transport.go, streamCapture).   *)
HeardIsRecorded ==
    \A c \in Calls :
        slot[c] # 0 =>
            LET it == mem[slot[c]]
            IN  /\ it.call = c
                /\ pc[c] = "returned" => it.body = net[c].chunks
                /\ (rd[c] = "ended" /\ cl[c] = "no" /\ net[c].chunks > 0)
                      => it.body = net[c].chunks /\ ~it.err
                /\ (once[c] = "done" /\ ~net[c].gzip)
                      => it.body \in {taken[c], taken[c] - 1}

(* A stream recorded from gzip is stored whole or not at all, and in the   *)
(* second case says why (finalize: "Drop the body and record why").        *)
GzipWholeOrExplained ==
    \A c \in Calls :
        (slot[c] # 0 /\ net[c].gzip /\ net[c].streaming) =>
            LET it == mem[slot[c]]
            IN  /\ it.body \in {0, net[c].chunks}
                /\ (once[c] = "done" /\ it.body = 0) => it.err

(* A recorded body is never replaced, whichever of EOF, Close and Save     *)
(* comes last.                                                             *)
CaptureOnce ==
    [][\A i \in DOMAIN mem :
        /\ i \in DOMAIN mem'
        /\ mem'[i].call = mem[i].call
        /\ mem[i].body # 0 => mem'[i].body = mem[i].body]_vars

(* A named credential shape reaches the disk only if scrubbing is off.     *)
NoSecretOnDisk == \A i \in DOMAIN disk : disk[i].secret => raw

(* Close always returns, and by then the capture is in the cassette.       *)
CloseEndsCapture == \A c \in Calls : cl[c] = "closed" ~> (cl[c] = "done" /\ once[c] = "done")
===============================================================================
