----------------------------- MODULE Recordings -----------------------------
(***************************************************************************)
(* Cassette files as the commands that derive one from another see them:   *)
(* requests in the body shape of a dialect (internal/wireenc/request.go),  *)
(* interactions, their transcripts (internal/analysis/engine.go), and the  *)
(* match config the keys were derived under.                               *)
(*                                                                         *)
(* A request is its prompt, its messages as text and the rest of its body; *)
(* a dialect stands for the URL it is routed by.  Headers and status codes *)
(* are left out.                                                           *)
(***************************************************************************)
EXTENDS Transcripts

-----------------------------------------------------------------------------
(* Requests *)

Shape(p) == CASE p = "gemini"           -> "contents"
              [] p = "openai-responses" -> "input"
              [] OTHER                  -> "messages"

Request(shape, system, msgs, rest) == [shape |-> shape, system |-> system, msgs |-> msgs, rest |-> rest]

Message(role, text) == [role |-> role, text |-> text]

Conversation(system, msgs) == [system |-> system, msgs |-> msgs]

Renamed(msgs, from, to) ==
  [i \in DOMAIN msgs |-> IF msgs[i].role = from THEN [msgs[i] EXCEPT !.role = to] ELSE msgs[i]]

\* Only the messages shape lifts an inline system message, the last one that says something.
DecodeRequest(p, r) ==
  LET msgs    == Renamed(r.msgs, "", "user")
      prompts == SelectSeq(msgs, LAMBDA m : m.role = "system" /\ m.text # <<>>)
      others  == SelectSeq(msgs, LAMBDA m : m.role # "system")
  IN  IF r.shape # Shape(p) THEN Conversation(<<>>, <<>>)
      ELSE CASE r.shape = "messages" -> Conversation(IF prompts = <<>> THEN r.system ELSE Last(prompts).text, others)
             [] r.shape = "contents" -> Conversation(r.system, Renamed(msgs, "model", "assistant"))
             [] r.shape = "input"    -> Conversation(r.system, msgs)

EncodeRequest(p, c) ==
  CASE p = "gemini" -> Request("contents", c.system, Renamed(c.msgs, "assistant", "model"), <<>>)
    [] p \in {"openai-chat", "ollama"} ->
         Request("messages", <<>>,
                 (IF c.system = <<>> THEN <<>> ELSE <<Message("system", c.system)>>) \o c.msgs, <<>>)
    [] OTHER -> Request(Shape(p), c.system, c.msgs, <<>>)

-----------------------------------------------------------------------------
(* Interactions *)

\* With a match config the rest of the body does not count.
HTTPKey(match, p, r) == <<"http", p, IF match = "ignore" THEN [r EXCEPT !.rest = <<>>] ELSE r>>

MCPKey(method, tool, args) == <<"mcp", method, tool, Canonicalize(args)>>

KeyFor(match, it) ==
  IF it.kind = "http" THEN HTTPKey(match, it.dialect, it.request)
  ELSE MCPKey(it.request.method, it.request.tool, it.request.args)

HTTP(p, request, streaming, body, key) ==
  [kind |-> "http", dialect |-> p, request |-> request, key |-> key,
   streaming |-> streaming, timed |-> FALSE, body |-> body]

\* An MCP request has no URL and is routed like any other that has no marker.
MCP(method, tool, args, body) ==
  [kind |-> "mcp", dialect |-> "anthropic", request |-> [method |-> method, tool |-> tool, args |-> args],
   key |-> MCPKey(method, tool, args), streaming |-> FALSE, timed |-> FALSE, body |-> body]

\* Bodies that are no stream: none at all, one JSON document, a tool's result, a list of tools.
Absent == <<[type |-> "absent"]>>
Document(d) == <<[type |-> "document", doc |-> d]>>
Result(text, error) == <<[type |-> "result", text |-> text, error |-> error]>>
Listing(names) == <<[type |-> "listing", names |-> names]>>

Is(body, type) == Len(body) = 1 /\ body[1].type = type

DecodeMCP(it) ==
  LET r    == it.request
      call == ToolCall(IF r.tool = "" THEN r.method ELSE r.tool, r.args)
      Turn(text, finish) == [Transcript(text, <<call>>, finish) EXCEPT !.role = "tool"]
  IN  CASE r.method = "tools/call" ->
             IF Is(it.body, "result")
             THEN Turn(it.body[1].text, IF it.body[1].error THEN "tool_error" ELSE "tool_result")
             ELSE Turn(<<>>, "tool_result")
        [] r.method = "tools/list" -> Turn(IF Is(it.body, "listing") THEN it.body[1].names ELSE <<>>, "tool_list")
        [] OTHER -> Turn(<<>>, "mcp")

Decoded(turn, unary, renderable) == [turn |-> turn, unary |-> unary, renderable |-> renderable]

DecodeInteraction(it) ==
  IF it.kind = "mcp" THEN Decoded(DecodeMCP(it), FALSE, TRUE)
  ELSE IF it.body = Absent THEN Decoded(Nothing, FALSE, FALSE)
  ELSE IF ~it.streaming THEN Decoded(Transcript(<<"unary", it.body[1].doc>>, <<>>, ""), TRUE, FALSE)
  ELSE Decoded(Decode(it.dialect, it.body), FALSE, TRUE)

TurnOf(it) == DecodeInteraction(it).turn

\* A streamed http turn, which is what most commands can work on.
Streamed(it) == it.kind = "http" /\ DecodeInteraction(it).renderable

-----------------------------------------------------------------------------
(* Files *)

\* The contract a recording may carry: the tools it forbids, whether a call may repeat, whether
\* the last turn has to end.
Contract(noTools, once, clean) == [noTools |-> noTools, once |-> once, clean |-> clean]

NoContract == Contract({}, FALSE, FALSE)

\* The same question with an answer that was not timed.
Answered(it, streaming, body) ==
  [kind |-> it.kind, dialect |-> it.dialect, request |-> it.request, key |-> it.key,
   streaming |-> streaming, timed |-> FALSE, body |-> body]

\* The shape of an interaction and of a file.
IsTurn(it) ==
  /\ it = [kind |-> it.kind, dialect |-> it.dialect, request |-> it.request, key |-> it.key,
           streaming |-> it.streaming, timed |-> it.timed, body |-> it.body]
  /\ it.kind \in {"http", "mcp"}

\* A stream is there or not, and is read in one of the dialects.
IsAnswer(words, it) ==
  it.kind = "http" =>
    /\ it.dialect \in Dialects /\ it.streaming \in BOOLEAN
    /\ it.streaming => it.body = Absent \/ it.body \in Seq(Events(words))

IsFile(f) ==
  /\ f = [notice |-> f.notice, expect |-> f.expect, match |-> f.match, provenance |-> f.provenance, turns |-> f.turns]
  /\ f.provenance \in Seq(Range(f.provenance)) /\ f.turns \in Seq(Range(f.turns))
  /\ \A i \in DOMAIN f.turns : IsTurn(f.turns[i])

File(match, turns) == [notice |-> "", expect |-> NoContract, match |-> match, provenance |-> <<>>, turns |-> turns]

CollectTurns(f) ==
  Folded(LAMBDA turns, it : IF DecodeInteraction(it).renderable THEN Append(turns, TurnOf(it)) ELSE turns,
         <<>>, f.turns)

BehaviorDigest(f) == CombinedDigest(CollectTurns(f))

HTTPTurns(f) ==
  LET at == Where(f.turns, LAMBDA i : f.turns[i].kind = "http") IN [k \in DOMAIN at |-> f.turns[at[k]]]

\* The place of the n-th http turn, counted from 1, or 0.
NthHTTPIndex(f, n) ==
  LET at == {i \in DOMAIN f.turns : f.turns[i].kind = "http" /\ Len(HTTPTurns([f EXCEPT !.turns = SubSeq(@, 1, i)])) = n}
  IN  IF at = {} THEN 0 ELSE CHOOSE i \in at : TRUE

\* The keys of the MCP calls, which have no match config.
MCPKeysHold(f) ==
  \A i \in DOMAIN f.turns : f.turns[i].kind = "mcp" => f.turns[i].key = KeyFor(f.match, f.turns[i])

\* Every stored key is the one its reader derives, so that the file replays what it was asked.
KeysHold(f) == \A i \in DOMAIN f.turns : f.turns[i].key = KeyFor(f.match, f.turns[i])
=============================================================================
