---------------------------- MODULE Derivations ----------------------------
(***************************************************************************)
(* What each command that makes one recording out of another does to the   *)
(* file: graft, branch, distill, what-if, port, migrate, canonicalize,     *)
(* scenario, fuzz, mutate, shrink and author.                              *)
(***************************************************************************)
EXTENDS Recordings

CONSTANT Unexpected  \* the legal arguments no tool expects

ASSUME UnexpectedAssumption == Valid(Unexpected)

-----------------------------------------------------------------------------
(* Edits of a turn: a slot, the call it is about, a value (words for a name or a reason, text
   otherwise). *)

Edit(slot, index, word, text) == [slot |-> slot, index |-> index, word |-> word, text |-> text]

EditsOf(words) ==
  [slot : {"text", "append", "finish", "name", "args"}, index : Nat, word : words, text : Seq(words)]

EditFails(t, e) ==
  \/ e.slot \in {"name", "args"} /\ e.index \notin DOMAIN t.tools
  \/ e.slot = "args" /\ ~Valid(e.text)

Edited(t, e) ==
  CASE e.slot = "text"   -> [t EXCEPT !.text = e.text]
    [] e.slot = "append" -> [t EXCEPT !.text = @ \o e.text]
    [] e.slot = "finish" -> [t EXCEPT !.finish = e.word]
    [] e.slot = "name"   -> [t EXCEPT !.tools[e.index].name = e.word]
    [] e.slot = "args"   -> [t EXCEPT !.tools[e.index].args = Canonicalize(e.text)]

WithoutTools(t, dropped) ==
  LET kept == Where(t.tools, LAMBDA k : k \notin dropped) IN [t EXCEPT !.tools = [k \in DOMAIN kept |-> @[kept[k]]]]

\* The edits in their order, then the calls that are dropped.
ApplyGraftEdits(t, edits, dropped) == WithoutTools(Folded(Edited, t, edits), dropped)

GraftEditsFail(t, edits) == \E k \in DOMAIN edits : EditFails(t, edits[k])

Spliced(f, i, t) ==
  LET it == f.turns[i] IN [f EXCEPT !.turns = [@ EXCEPT ![i] = Answered(it, TRUE, Encode(it.dialect, t))]]

Linked(f, op, from) == [f EXCEPT !.provenance = Append(@, [op |-> op, from |-> from])]

Shortened(f, n) == [f EXCEPT !.turns = SubSeq(@, 1, n)]

(* Mutant: the digest of the source is taken after the edit. *)
Grafted_LateDigest(f, i, t, keep) == LET g == Spliced(f, i, t) IN Linked(Shortened(g, keep), "graft", BehaviorDigest(g))

Grafted(f, i, t, keep) ==
  LET g == Spliced(f, i, t)
      h == [g EXCEPT !.notice = IF @ = "" THEN "grafted" ELSE @]
  IN  Linked(Shortened(h, keep), "graft", BehaviorDigest(f))

BranchSeed(f, n) == [Shortened(f, n) EXCEPT !.notice = "seed"]

Distilled(f, i, t) == Linked([Spliced(f, i, t) EXCEPT !.notice = "distilled"], "distill", BehaviorDigest(f))

\* A file like f; neither its match config nor its lineage comes along.
Remade(f, turns) ==
  [notice |-> f.notice, expect |-> f.expect, match |-> "none", provenance |-> <<>>, turns |-> turns]

\* Another answer at i.
WithResponse(f, i, body) == Remade(f, [f.turns EXCEPT ![i] = Answered(@, TRUE, body)])

WhatIf(f, i, e) ==
  LET it == f.turns[i] IN BehaviorDigest(WithResponse(f, i, Encode(it.dialect, Edited(TurnOf(it), e))))

-----------------------------------------------------------------------------
(* Another dialect, another spelling *)

PortedTurn(it, to) ==
  LET Ported(request) == HTTP(to, request, TRUE, Encode(to, TurnOf(it)), HTTPKey("none", to, request))
  IN  IF ~Streamed(it) \/ it.dialect = to \/ DecodeFails(it.dialect, it.body) THEN it
      ELSE Ported(EncodeRequest(to, DecodeRequest(it.dialect, it.request)))

Port(f, to) == Remade(f, [i \in DOMAIN f.turns |-> PortedTurn(f.turns[i], to)])

Stamped(out, source, op) == Linked([out EXCEPT !.provenance = source.provenance], op, BehaviorDigest(source))

(* Mutant: only the number of turns is compared. *)
DigestDrift_CountOnly(before, after) == Len(before) # Len(after)

DigestDrift(before, after) ==
  Len(before) # Len(after) \/ \E i \in DOMAIN before : Digest(before[i]) # Digest(after[i])

(* Mutant: a turn that was recorded with its timing stays as it is. *)
CanonicalTurn_NotTimed(it) ==
  IF Streamed(it) /\ ~it.timed /\ RoundTrip(it.dialect, it.body).stable
  THEN [it EXCEPT !.body = Encode(it.dialect, TurnOf(it))] ELSE it

CanonicalTurn(it) ==
  LET Respelled(trip, canonical) ==
        IF trip.failed \/ ~trip.stable \/ canonical = it.body THEN it
        ELSE Answered(it, it.streaming, canonical)
  IN  IF Streamed(it) THEN Respelled(RoundTrip(it.dialect, it.body), Encode(it.dialect, TurnOf(it))) ELSE it

CanonicalizeFile(f) == [f EXCEPT !.turns = [i \in DOMAIN f.turns |-> CanonicalTurn(f.turns[i])]]

IsCanonical(f) == CanonicalizeFile(f) = f

-----------------------------------------------------------------------------
(* Variants of one turn *)

FinishReasons == {"end_turn", "max_tokens", "stop_sequence", "tool_use"}

ErrorStream == <<[type |-> "error"]>>

\* The name of a variant and the turn it shows; the error stream has no turn.
Variants(base) ==
  LET tool == IF base.tools = <<>> THEN "tool" ELSE base.tools[1].name
      Finish(r) == [base EXCEPT !.finish = r,
                                !.tools = IF r = "tool_use" /\ @ = <<>> THEN <<ToolCall("tool", EmptyObject)>> ELSE @]
      half == SubSeq(base.text, 1, Len(base.text) \div 2)
  IN  {<<r, Finish(r)>> : r \in FinishReasons}
      \cup {<<"truncated", [base EXCEPT !.text = half, !.finish = "max_tokens"]>> : x \in {y \in {1} : Len(base.text) > 1}}
      \cup {<<"empty-text", [base EXCEPT !.text = <<>>, !.finish = "end_turn"]>>,
            <<"malformed-args", [base EXCEPT !.tools = <<ToolCall(tool, Unexpected)>>, !.finish = "tool_use"]>>}

Scenario(f, i) ==
  LET it == f.turns[i]
  IN  {<<v[1], WithResponse(f, i, Encode(it.dialect, v[2]))>> : v \in Variants(TurnOf(it))}
      \cup {<<"provider-error", WithResponse(f, i, ErrorStream)>>}

Fuzzable(it, stream) == ~DecodeFails(it.dialect, stream) /\ Equal(Decode(it.dialect, stream), TurnOf(it))

-----------------------------------------------------------------------------
(* Damage.  A frame ends at a blank line, so that lines that follow each other are one frame. *)

Frames(stream) ==
  LET ends == Where(stream, LAMBDA i : i = Len(stream) \/ stream[i].type # "line")
  IN  [k \in DOMAIN ends |-> SubSeq(stream, IF k = 1 THEN 1 ELSE ends[k - 1] + 1, ends[k])]

CarriesDelta(frame) ==
  frame[1].type \in {"text_delta", "input_json_delta", "message_delta", "chunk",
                     "response.output_text.delta", "response.function_call_arguments.delta"}

\* Events that spell the arguments of a call as a string.
CarriesArgs(frame) ==
  \/ frame[1].type = "input_json_delta"
  \/ frame[1].type = "chunk" /\ frame[1].calls # <<>>

Broken(args) == <<"}">> \o args

DamagedFrame(frame) ==
  LET e == frame[1]
  IN  IF e.type = "chunk" THEN <<[e EXCEPT !.calls[1].args = Broken(@)]>> ELSE <<[e EXCEPT !.args = Broken(@)]>>

TruncateAfterFrame(frames, n) == IF n >= Len(frames) THEN frames ELSE SubSeq(frames, 1, n)

DropTerminalEvent(frames) == IF frames = <<>> THEN frames ELSE Front(frames)

DuplicateFrame(frames, n) ==
  IF n + 1 \notin DOMAIN frames THEN frames ELSE InsertAt(frames, n + 1, frames[n + 1])

ReorderContentDeltas(frames) ==
  LET deltas == Where(frames, LAMBDA i : CarriesDelta(frames[i]))
      Place(i) == CHOOSE k \in DOMAIN deltas : deltas[k] = i
  IN  [i \in DOMAIN frames |-> IF CarriesDelta(frames[i]) THEN frames[deltas[Len(deltas) + 1 - Place(i)]] ELSE frames[i]]

CorruptToolArgs(frames) ==
  LET i == SelectInSeq(frames, CarriesArgs) IN IF i = 0 THEN frames ELSE [frames EXCEPT ![i] = DamagedFrame(@)]

InjectError(frames) == IF frames = <<>> THEN <<ErrorStream>> ELSE InsertAt(frames, Len(frames), ErrorStream)

MutationOps == {"truncate", "drop-terminal", "duplicate", "reorder", "corrupt-tool", "inject-error"}

Mutation(op, frames, n) ==
  CASE op = "truncate"      -> TruncateAfterFrame(frames, n)
    [] op = "drop-terminal" -> DropTerminalEvent(frames)
    [] op = "duplicate"     -> DuplicateFrame(frames, n)
    [] op = "reorder"       -> ReorderContentDeltas(frames)
    [] op = "corrupt-tool"  -> CorruptToolArgs(frames)
    [] op = "inject-error"  -> InjectError(frames)

MutatedTurn(it, op, n) ==
  IF it.streaming /\ it.body # Absent THEN [it EXCEPT !.body = Joined(Mutation(op, Frames(@), n))] ELSE it

Mutated(f, op, n) == [f EXCEPT !.turns = [i \in DOMAIN f.turns |-> MutatedTurn(f.turns[i], op, n)]]

-----------------------------------------------------------------------------
(* Screenplays *)

Filled(args) == IF args = <<>> THEN EmptyObject ELSE args

ScriptedMethods == {"tools/call", "tools/list"}

CompileFails(s) ==
  \/ s.turns = <<>>
  \/ \E i \in DOMAIN s.turns :
       LET t == s.turns[i]
       IN  IF t.kind = "mcp"
           THEN ~Valid(Filled(t.args)) \/ t.method \notin ScriptedMethods \/ (t.method = "tools/call" /\ t.tool = "")
           ELSE s.provider \notin Dialects

\* What the next request says the assistant answered.
AssistantHistory(t) == IF t.text # <<>> THEN t.text ELSE [k \in DOMAIN t.calls |-> t.calls[k].name]

Scripted(t) == Transcript(t.text, [k \in DOMAIN t.calls |-> ToolCall(t.calls[k].name, t.calls[k].args)], t.finish)

Names(calls) == [k \in DOMAIN calls |-> calls[k].name]

CompiledMCP(t) ==
  MCP(t.method, IF t.method = "tools/call" THEN t.tool ELSE "", Filled(t.args),
      IF t.method = "tools/call" THEN Result(IF t.error # <<>> THEN t.error ELSE t.text, t.error # <<>>)
      ELSE Listing(Names(t.calls)))

\* The request has the messages shape whatever the provider, and a url of the turn's own decides
\* by which dialect the answer will be read, not in which it is written.
CompiledHTTP(p, t, msgs) ==
  LET request == Request("messages", <<>>, Append(msgs, Message("user", t.user)), <<>>)
      route   == IF t.url = "" THEN p ELSE t.url
  IN  HTTP(route, request, TRUE, Encode(p, Scripted(t)), HTTPKey("none", route, request))

\* What was said before the i-th turn; calls of tools do not enter it.
Said(turns, i) ==
  LET Played(msgs, t) ==
        IF t.kind = "mcp" THEN msgs
        ELSE msgs \o <<Message("user", t.user), Message("assistant", AssistantHistory(t))>>
  IN  Folded(Played, <<>>, SubSeq(turns, 1, i - 1))

Compile(s) ==
  File("none", [i \in DOMAIN s.turns |->
                  IF s.turns[i].kind = "mcp" THEN CompiledMCP(s.turns[i])
                  ELSE CompiledHTTP(s.provider, s.turns[i], Said(s.turns, i))])
=============================================================================
