---------------------------- MODULE Transcripts ----------------------------
(***************************************************************************)
(* Semantic transcripts and the five wire dialects they are read from and  *)
(* written to (semequal/semequal.go, internal/wireenc/wireenc.go).         *)
(*                                                                         *)
(* A text is a sequence of chunks and the empty sequence the empty text, so *)
(* that concatenation is \o whatever the chunk boundaries are.  The raw    *)
(* arguments of a tool call are a sequence of fragments; those in DOMAIN   *)
(* Canon are JSON documents and Canon gives their canonical spelling.  A   *)
(* stream is the sequence of events (SSE events, array elements, lines) it *)
(* is split into.  Ids, usage and timestamps are left out: no decoder      *)
(* reads them.  Digests are the normalized values themselves.              *)
(***************************************************************************)
EXTENDS Naturals, FiniteSets, Sequences, SequencesExt, TLC

CONSTANTS Words,       \* what names, reasons, texts and documents are made of
          Canon,       \* the JSON documents, each with its canonical spelling
          EmptyObject  \* the document {}

ASSUME CanonAssumption ==
  /\ \A d \in DOMAIN Canon : Canon[d] \in DOMAIN Canon /\ Canon[Canon[d]] = Canon[d]
  /\ <<>> \notin DOMAIN Canon
  /\ EmptyObject \in DOMAIN Canon /\ Canon[EmptyObject] = EmptyObject
  /\ DOMAIN Canon \subseteq Seq(Words)

Dialects == {"gemini", "ollama", "openai-responses", "openai-chat", "anthropic"}

\* The left fold, as a function of the prefix: TLC evaluates it in one pass.
Folded(Op(_, _), base, s) ==
  LET f[k \in 0 .. Len(s)] == IF k = 0 THEN base ELSE Op(f[k - 1], s[k]) IN f[Len(s)]

\* The numbers of a set from 1 to n, in order.
InOrder(n, numbers) ==
  Folded(LAMBDA got, i : IF i \in numbers THEN Append(got, i) ELSE got, <<>>, [i \in 1 .. n |-> i])

\* The positions of a sequence at which something holds, in order.
Where(s, Test(_)) == InOrder(Len(s), {i \in DOMAIN s : Test(i)})

Joined(ss) == Folded(LAMBDA a, b : a \o b, <<>>, ss)

-----------------------------------------------------------------------------
(* Transcripts *)

Valid(args) == args \in DOMAIN Canon

Canonicalize(args) == IF Valid(args) THEN Canon[args] ELSE args

ToolCall(name, args) == [name |-> name, args |-> Canonicalize(args)]

Transcript(text, tools, finish) ==
  [role |-> "assistant", text |-> text, tools |-> tools, finish |-> finish]

\* The empty string: no role, no name or no reason.
Unset == ""

Nothing == Transcript(<<>>, <<>>, Unset)

(* Mutant: the calls are kept in the order in which they arrived. *)
Sorted_Arrival(tools) == tools

Rearrangements(s) == {[i \in DOMAIN s |-> s[p[i]]] : p \in Bijection(DOMAIN s, DOMAIN s)}

\* The tools in a fixed total order: one sequence for each bag of tool calls.
Sorted(tools) == CHOOSE s \in Rearrangements(tools) : TRUE

Normalize(t) ==
  [t EXCEPT !.role = IF @ = Unset THEN "assistant" ELSE @, !.tools = Sorted(@)]

Digest(t) == Normalize(t)

CombinedDigest(turns) == [i \in DOMAIN turns |-> Normalize(turns[i])]

Equal(a, b) == Digest(a) = Digest(b)

-----------------------------------------------------------------------------
(* The accumulator the decoders share: blocks and calls by index, in the order in which they
   were opened, the text that belongs to no block, the last finish reason that was not empty. *)

Blank == [items |-> <<>>, order |-> <<>>, text |-> <<>>, finish |-> Unset, failed |-> FALSE]

Opened(s, i, type, name) ==
  LET new == [type |-> type, name |-> name, text |-> <<>>, args |-> <<>>]
  IN  [s EXCEPT !.items = [k \in {i} \cup DOMAIN s.items |-> IF k = i THEN new ELSE s.items[k]],
                !.order = Append(@, i)]

TextTo(s, i, text) == IF i \in DOMAIN s.items THEN [s EXCEPT !.items[i].text = @ \o text] ELSE s

(* Mutant: a fragment goes to the block opened last, whatever its index says. *)
ArgsTo_LastBlock(s, i, args) ==
  IF s.order # <<>> THEN [s EXCEPT !.items[Last(s.order)].args = @ \o args] ELSE s

ArgsTo(s, i, args) == IF i \in DOMAIN s.items THEN [s EXCEPT !.items[i].args = @ \o args] ELSE s

Spoken(s, text) == [s EXCEPT !.text = @ \o text]

Finished(s, reason) == IF reason = Unset THEN s ELSE [s EXCEPT !.finish = reason]

\* A call that arrives whole: the next entry of the list.
Called(s, name, args) ==
  LET i == Len(s.order) + 1 IN ArgsTo(Opened(s, i, "tool", name), i, args)

\* The indexes of the blocks of a type, in the order in which they were opened.
OfType(s, type) ==
  Folded(LAMBDA got, i : IF s.items[i].type = type THEN Append(got, i) ELSE got, <<>>, s.order)

Assembled(s) ==
  LET texts == OfType(s, "text")
      tools == OfType(s, "tool")
  IN  Transcript(s.text \o Joined([k \in DOMAIN texts |-> s.items[texts[k]].text]),
                 [k \in DOMAIN tools |-> ToolCall(s.items[tools[k]].name, s.items[tools[k]].args)],
                 s.finish)

-----------------------------------------------------------------------------
(* Events, and what each decoder makes of one.  An event whose data does not parse, because it
   is of another kind or because the stream was cut in it, is Noise to every decoder; only the
   error event of Anthropic counts before its data is looked at. *)

Noise == [type |-> "noise"]

\* The events the decoders look into, over what names, reasons, texts and documents are made of.
Events(words) ==
  LET Call     == [name : words, args : Seq(words)]
      ChatItem == [index : Nat, name : words, args : Seq(words)]
      PartItem == [type : {"text"}, text : Seq(words)] \cup [type : {"call"}, name : words, args : Seq(words)]
  IN  [type : {"noise", "error"}]
      \cup [type : {"content_block_start"}, index : Nat, block : {"text", "tool"}, name : words]
      \cup [type : {"text_delta"}, index : Nat, text : Seq(words)]
      \cup [type : {"input_json_delta", "response.function_call_arguments.delta"}, index : Nat, args : Seq(words)]
      \cup [type : {"message_delta", "response.completed"}, finish : words]
      \cup [type : {"chunk"}, text : Seq(words), calls : Seq(ChatItem), finish : words]
      \cup [type : {"response.output_text.delta"}, text : Seq(words)]
      \cup [type : {"response.output_item.added"}, index : Nat, item : {"message", "function_call"}, name : words]
      \cup [type : {"response"}, parts : Seq(PartItem), finish : words]
      \cup [type : {"line"}, text : Seq(words), calls : Seq(Call), finish : words]

Cut(e) == IF e.type = "error" THEN e ELSE Noise

AnthropicStep(s, e) ==
  CASE e.type = "content_block_start" -> Opened(s, e.index, e.block, e.name)
    [] e.type = "text_delta"          -> TextTo(s, e.index, e.text)
    [] e.type = "input_json_delta"    -> ArgsTo(s, e.index, e.args)
    [] e.type = "message_delta"       -> Finished(s, e.finish)
    [] e.type = "error"               -> [s EXCEPT !.failed = TRUE]
    [] OTHER                          -> s

Named(s, i, name) == IF name = Unset THEN s ELSE [s EXCEPT !.items[i].name = name]

ChatCall(s, c) ==
  LET o == IF c.index \in DOMAIN s.items THEN s ELSE Opened(s, c.index, "tool", Unset)
  IN  ArgsTo(Named(o, c.index, c.name), c.index, c.args)

OpenAIChatStep(s, e) ==
  IF e.type = "chunk" THEN Finished(Folded(ChatCall, Spoken(s, e.text), e.calls), e.finish) ELSE s

OpenAIResponsesStep(s, e) ==
  CASE e.type = "response.output_text.delta" -> Spoken(s, e.text)
    [] e.type = "response.output_item.added" ->
         IF e.item = "function_call" THEN Opened(s, e.index, "tool", e.name) ELSE s
    [] e.type = "response.function_call_arguments.delta" -> ArgsTo(s, e.index, e.args)
    [] e.type = "response.completed" -> Finished(s, e.finish)
    [] OTHER -> s

Part(s, p) ==
  CASE p.type = "call" -> Called(s, p.name, p.args)
    [] p.type = "text" -> Spoken(s, p.text)
    [] OTHER           -> s

GeminiStep(s, e) == IF e.type = "response" THEN Finished(Folded(Part, s, e.parts), e.finish) ELSE s

OllamaCall(s, c) == Called(s, c.name, c.args)

OllamaStep(s, e) ==
  IF e.type = "line" THEN Finished(Folded(OllamaCall, Spoken(s, e.text), e.calls), e.finish) ELSE s

Step(p, s, e) ==
  CASE p = "anthropic"        -> AnthropicStep(s, e)
    [] p = "openai-chat"      -> OpenAIChatStep(s, e)
    [] p = "openai-responses" -> OpenAIResponsesStep(s, e)
    [] p = "gemini"           -> GeminiStep(s, e)
    [] p = "ollama"           -> OllamaStep(s, e)

Read(p, stream) == Folded(LAMBDA s, e : Step(p, s, e), Blank, stream)

Decode(p, stream) == Normalize(Assembled(Read(p, stream)))

DecodeFails(p, stream) == Read(p, stream).failed

-----------------------------------------------------------------------------
(* Encoders *)

Block(i, type, name) == [type |-> "content_block_start", index |-> i, block |-> type, name |-> name]

AnthropicStream(chunks, tools, finish) ==
  LET first == IF chunks = <<>> THEN 0 ELSE 1
      text  == IF chunks = <<>> THEN <<>>
               ELSE <<Block(0, "text", Unset)>>
                    \o [k \in DOMAIN chunks |-> [type |-> "text_delta", index |-> 0, text |-> chunks[k]]]
                    \o <<Noise>>
      Tool(k) == LET i == first + k - 1
                 IN  <<Block(i, "tool", tools[k].name),
                       [type |-> "input_json_delta", index |-> i, args |-> Canonicalize(tools[k].args)],
                       Noise>>
  IN  <<Noise>> \o text \o Joined([k \in DOMAIN tools |-> Tool(k)])
      \o <<[type |-> "message_delta", finish |-> finish], Noise>>

\* What is written of a text: one piece, and no piece for the empty text.
Whole(text) == IF text = <<>> THEN <<>> ELSE <<text>>

EncodeAnthropic(t) == AnthropicStream(Whole(t.text), t.tools, t.finish)

Chunk(text, calls, finish) == [type |-> "chunk", text |-> text, calls |-> calls, finish |-> finish]

EncodeOpenAIChat(t) ==
  LET Tool(k) == <<Chunk(<<>>, <<[index |-> k, name |-> t.tools[k].name, args |-> <<>>]>>, Unset),
                   Chunk(<<>>, <<[index |-> k, name |-> Unset, args |-> Canonicalize(t.tools[k].args)]>>, Unset)>>
  IN  <<Chunk(<<>>, <<>>, Unset)>>
      \o [k \in DOMAIN Whole(t.text) |-> Chunk(t.text, <<>>, Unset)]
      \o Joined([k \in DOMAIN t.tools |-> Tool(k)])
      \o <<Chunk(<<>>, <<>>, t.finish), Noise>>

EncodeOpenAIResponses(t) ==
  LET first == Len(Whole(t.text))
      Tool(k) == LET i == first + k - 1
                 IN  <<[type |-> "response.output_item.added", index |-> i, item |-> "function_call",
                        name |-> t.tools[k].name],
                       [type |-> "response.function_call_arguments.delta", index |-> i,
                        args |-> Canonicalize(t.tools[k].args)]>>
  IN  <<Noise>>
      \o Joined([k \in DOMAIN Whole(t.text) |->
           <<[type |-> "response.output_item.added", index |-> 0, item |-> "message", name |-> Unset],
             [type |-> "response.output_text.delta", text |-> t.text]>>])
      \o Joined([k \in DOMAIN t.tools |-> Tool(k)])
      \o <<[type |-> "response.completed", finish |-> t.finish]>>

(* Mutant: arguments that are no document are written as they are. *)
ArgsRaw_AsIs(args) == Canonicalize(args)

\* Arguments that are written as a JSON object and not as a string.
ArgsRaw(args) == IF Valid(args) THEN Canon[args] ELSE EmptyObject

EncodeOllama(t) ==
  LET calls == [k \in DOMAIN t.tools |-> [name |-> t.tools[k].name, args |-> ArgsRaw(t.tools[k].args)]]
  IN  <<[type |-> "line", text |-> t.text, calls |-> calls, finish |-> Unset],
        [type |-> "line", text |-> <<>>, calls |-> <<>>, finish |-> t.finish]>>

EncodeGemini(t) ==
  LET calls == [k \in DOMAIN t.tools |->
                  [type |-> "call", name |-> t.tools[k].name, args |-> ArgsRaw(t.tools[k].args)]]
      text  == [k \in DOMAIN Whole(t.text) |-> [type |-> "text", text |-> t.text]]
  IN  <<[type |-> "response", parts |-> text \o calls, finish |-> t.finish]>>

\* Dialects that write the arguments of a call as a string, which may be cut into fragments.
Fragmented == {"anthropic", "openai-chat", "openai-responses"}

\* Arguments that a dialect writes as a JSON object survive only if they are a document.
Writable(p, t) == p \in Fragmented \/ \A k \in DOMAIN t.tools : Valid(t.tools[k].args)

Encode(p, t) ==
  LET n == Normalize(t)
  IN  CASE p = "anthropic"        -> EncodeAnthropic(n)
        [] p = "openai-chat"      -> EncodeOpenAIChat(n)
        [] p = "openai-responses" -> EncodeOpenAIResponses(n)
        [] p = "gemini"           -> EncodeGemini(n)
        [] p = "ollama"           -> EncodeOllama(n)

RoundTrip(p, stream) ==
  LET Again(one) == Decode(p, Encode(p, one))
      Report(one, two) ==
        [failed |-> DecodeFails(p, stream), decoded |-> one, redecoded |-> two, stable |-> Equal(one, two)]
  IN  Report(Decode(p, stream), Again(Decode(p, stream)))

-----------------------------------------------------------------------------
(* Reframings *)

(* Mutant: the pieces overlap by one. *)
Splits_Overlap(text) ==
  IF Len(text) < 2 THEN {Whole(text)} ELSE {<<SubSeq(text, 1, k), SubSeq(text, k, Len(text))>> : k \in 1 .. (Len(text) - 1)}

\* Where splitRunes may cut a text: two to four chunks, each with the place where it ends.
ChunkEnds(text) ==
  UNION {{ends \in [1 .. n -> 1 .. Len(text)] : ends[n] = Len(text) /\ \A i \in 2 .. n : ends[i - 1] < ends[i]} :
           n \in 2 .. 4}

Splits(text) ==
  LET Before(ends, i) == IF i = 1 THEN 0 ELSE ends[i - 1]
  IN  IF Len(text) < 2 THEN {Whole(text)}
      ELSE {[i \in DOMAIN ends |-> SubSeq(text, Before(ends, i) + 1, ends[i])] : ends \in ChunkEnds(text)}

\* Every stream Reframe may produce for a transcript.
Reframings(p, t) ==
  LET n == Normalize(t)
  IN  IF p = "anthropic"
      THEN {AnthropicStream(chunks, [k \in DOMAIN n.tools |-> n.tools[q[k]]], n.finish) :
              chunks \in Splits(n.text), q \in Bijection(DOMAIN n.tools, DOMAIN n.tools)}
      ELSE {Encode(p, t)}
=============================================================================
