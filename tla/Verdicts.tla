------------------------------ MODULE Verdicts ------------------------------
(***************************************************************************)
(* What the commands that judge one recording say of it: assert, lint,     *)
(* codec verify, attest and verify-attest, and the comparison of two turns *)
(* under a tolerance (semequal/invariants.go, semequal/policy.go,          *)
(* semequal/wireshape.go, internal/analysis lint.go, conform.go,           *)
(* attest.go).                                                             *)
(*                                                                         *)
(* Left out are the size and the secrets lint looks for, since no body has *)
(* either here, and the signature of an attestation.                       *)
(***************************************************************************)
EXTENDS Recordings

-----------------------------------------------------------------------------
(* Contracts: assert *)

Calls(turns) == UNION {{<<i, k>> : k \in DOMAIN turns[i].tools} : i \in DOMAIN turns}

CallAt(turns, c) == turns[c[1]].tools[c[2]]

ToolNames(turns) == {CallAt(turns, c).name : c \in Calls(turns)}

NoToolCalled(turns, name) == name \notin ToolNames(turns)

NoDuplicateToolCall(turns) ==
  \A c, d \in Calls(turns) : c # d => CallAt(turns, c) # CallAt(turns, d)

TerminalReasons == {"end_turn", "stop", "completed", "stop_sequence"}

FinishesCleanly(turns) ==
  /\ turns # <<>>
  /\ Last(turns).finish \in TerminalReasons
  /\ Last(turns).tools = <<>>

\* The contract asked for, or else the one the recording carries.
AssertHolds(f, asked) ==
  LET Holds(contract, turns) ==
        /\ \A n \in contract.noTools : NoToolCalled(turns, n)
        /\ contract.once => NoDuplicateToolCall(turns)
        /\ contract.clean => FinishesCleanly(turns)
  IN  Holds(IF asked = NoContract THEN f.expect ELSE asked, CollectTurns(f))

-----------------------------------------------------------------------------
(* Tolerances *)

Tolerance(ignoreText, ignoreFinish) == [ignoreText |-> ignoreText, ignoreFinish |-> ignoreFinish]

Exact == Tolerance(FALSE, FALSE)

\* The fields in which two turns drift apart beyond the tolerance.
Compare(p, want, got) ==
  LET Fields(a, b) ==
        {x \in {"tool_calls", "finish_reason", "text"} :
           CASE x = "tool_calls"    -> a.tools # b.tools
             [] x = "finish_reason" -> ~p.ignoreFinish /\ a.finish # b.finish
             [] x = "text"          -> ~p.ignoreText /\ a.text # b.text}
  IN  Fields(Normalize(want), Normalize(got))

-----------------------------------------------------------------------------
(* The grammar of a stream *)

ChatChunkToken(e) ==
  IF e.calls # <<>> THEN "delta.tool_calls"
  ELSE IF e.finish # "" THEN "delta.finish:" \o e.finish
  ELSE IF e.text # <<>> THEN "delta.content" ELSE "delta"

\* Lines are no events of an event stream, and the answers of Gemini have no type.
WireEvents(stream) ==
  LET events == SelectSeq(stream, LAMBDA e : e.type # "line")
  IN  [k \in DOMAIN events |-> CASE events[k].type = "chunk"    -> ChatChunkToken(events[k])
                                 [] events[k].type = "response" -> "data"
                                 [] events[k].type \in {"text_delta", "input_json_delta"} -> "content_block_delta"
                                 [] OTHER -> events[k].type]

-----------------------------------------------------------------------------
(* Attestations *)

BuildAttestManifest(f) ==
  LET streams == SelectSeq(f.turns, LAMBDA it : it.kind = "http" /\ it.streaming /\ it.body # Absent)
      Manifest(turns) ==
        [digests |-> CombinedDigest(turns), shapes |-> [k \in DOMAIN streams |-> WireEvents(streams[k].body)],
         tools |-> ToolNames(turns), expect |-> f.expect, provenance |-> f.provenance]
  IN  Manifest(CollectTurns(f))

\* verify-attest of one recording with the attestation of another.
VerifiesAttest(f, attested) == BuildAttestManifest(f) = BuildAttestManifest(attested)

-----------------------------------------------------------------------------
(* codec verify and lint *)

CodecVerdict(it) ==
  LET Checked(trip) == IF trip.failed THEN "skipped" ELSE IF trip.stable THEN "ok" ELSE "bad"
  IN  IF Streamed(it) THEN Checked(RoundTrip(it.dialect, it.body)) ELSE "skipped"

\* By turn of the file; turns that are no http turns are not looked at.
CodecVerify(f) == [i \in {k \in DOMAIN f.turns : f.turns[k].kind = "http"} |-> CodecVerdict(f.turns[i])]

(* Mutant: keys are derived without the match config of the recording. *)
StaleKey_Unconfigured(f, it) == it.kind = "http" /\ KeyFor("none", it) # it.key

\* The key of an MCP call is not derived again.
StaleKey(f, it) == it.kind = "http" /\ KeyFor(f.match, it) # it.key

LintTurn(f, it) ==
  LET Stream(t) ==
        IF t.text = <<>> /\ t.tools = <<>> /\ t.finish = ""
        THEN {c \in {"undecodable"} : ~DecodeFails(it.dialect, it.body)}
        ELSE {c \in {"no_finish"} : t.finish = ""}
  IN  {c \in {"stale_key"} : StaleKey(f, it)} \cup (IF Streamed(it) THEN Stream(TurnOf(it)) ELSE {})

LintFile(f) ==
  {<<0, c>> : c \in {x \in {"empty"} : f.turns = <<>>}}
  \cup UNION {{<<i, c>> : c \in LintTurn(f, f.turns[i])} : i \in DOMAIN f.turns}

LintErrors(f) == {l \in LintFile(f) : l[2] = "stale_key"}
=============================================================================
