------------------------------- MODULE Codec -------------------------------
(***************************************************************************)
(* A provider streams one turn, event by event, in a dialect it keeps to;  *)
(* what has arrived is decoded, encoded again in any dialect and reframed  *)
(* at every moment, also after the stream was cut inside an event.         *)
(*                                                                         *)
(* The actions are the provider's; stream is what the cassette holds of    *)
(* the response.  said, calls and finish remember what the provider meant. *)
(***************************************************************************)
EXTENDS Transcripts

CONSTANTS Tools,      \* the tool names in the order in which they are first used
          Fragments,  \* fragments of arguments
          MaxEvents,  \* the longest stream
          MaxChunks,  \* the chunks of text in it
          MaxCalls    \* the calls in it

ASSUME CodecAssumption ==
  /\ {MaxEvents, MaxChunks, MaxCalls} \subseteq Nat
  /\ \A i \in DOMAIN Tools : Tools[i] # Unset

VARIABLES dialect,  \* what the provider speaks
          stream,   \* the events that arrived
          said,     \* the text it said
          calls,    \* the calls it made: index, name, arguments so far
          finish,   \* the reason it gave, if any
          over      \* nothing more comes

codecVars == <<dialect, stream, said, calls, finish, over>>

CodecInit ==
  /\ dialect \in Dialects
  /\ stream = <<>> /\ said = <<>> /\ calls = <<>> /\ finish = Unset /\ over = FALSE

Sends(e) ==
  /\ ~over /\ Len(stream) < MaxEvents
  /\ stream' = Append(stream, e)
  /\ UNCHANGED dialect

NextIndex == Len(stream)

\* Text: in a text block that is opened first, or in an event of its own.
OpensText ==
  /\ dialect = "anthropic"
  /\ Sends(Block(NextIndex, "text", Unset))
  /\ UNCHANGED <<said, calls, finish, over>>

LastTextBlock ==
  LET starts == {i \in DOMAIN stream : stream[i].type = "content_block_start" /\ stream[i].block = "text"}
  IN  IF starts = {} THEN 0 ELSE CHOOSE i \in starts : \A k \in starts : k <= i

\* The k-th chunk is the number k: no chunk equals another.
Says ==
  /\ Len(said) < MaxChunks
  /\ LET c == Len(said) + 1 IN
     CASE dialect = "anthropic" ->
            /\ LastTextBlock # 0
            /\ Sends([type |-> "text_delta", index |-> stream[LastTextBlock].index, text |-> <<c>>])
       [] dialect = "openai-chat" -> Sends(Chunk(<<c>>, <<>>, Unset))
       [] dialect = "openai-responses" -> Sends([type |-> "response.output_text.delta", text |-> <<c>>])
       [] dialect = "gemini" ->
            Sends([type |-> "response", parts |-> <<[type |-> "thought"], [type |-> "text", text |-> <<c>>]>>,
                   finish |-> Unset])
       [] dialect = "ollama" -> Sends([type |-> "line", text |-> <<c>>, calls |-> <<>>, finish |-> Unset])
  /\ said' = Append(said, Len(said) + 1)
  /\ UNCHANGED <<calls, finish, over>>

\* A tool that was called before, or the next one.
Callable == {Tools[i] : i \in {k \in DOMAIN Tools :
               \A m \in 1 .. (k - 1) : \E c \in DOMAIN calls : calls[c].name = Tools[m]}}

\* A call whose arguments follow as fragments, those of several calls in any order.
OpensCall(n) ==
  /\ dialect \in Fragmented /\ Len(calls) < MaxCalls
  /\ Sends(CASE dialect = "anthropic" -> Block(NextIndex, "tool", n)
             [] dialect = "openai-chat" -> Chunk(<<>>, <<[index |-> NextIndex, name |-> n, args |-> <<>>]>>, Unset)
             [] OTHER -> [type |-> "response.output_item.added", index |-> NextIndex,
                          item |-> "function_call", name |-> n])
  /\ calls' = Append(calls, [index |-> NextIndex, name |-> n, args |-> <<>>])
  /\ UNCHANGED <<said, finish, over>>

Argues(k, f) ==
  /\ dialect \in Fragmented
  /\ LET i == calls[k].index
     IN  Sends(CASE dialect = "anthropic" -> [type |-> "input_json_delta", index |-> i, args |-> <<f>>]
                 [] dialect = "openai-chat" -> Chunk(<<>>, <<[index |-> i, name |-> Unset, args |-> <<f>>]>>, Unset)
                 [] OTHER -> [type |-> "response.function_call_arguments.delta", index |-> i, args |-> <<f>>])
  /\ calls' = [calls EXCEPT ![k].args = Append(@, f)]
  /\ UNCHANGED <<said, finish, over>>

\* A call that is sent whole, with a document or without arguments.
CallsWhole(n, args) ==
  /\ dialect \notin Fragmented /\ Len(calls) < MaxCalls
  /\ Sends(IF dialect = "gemini"
           THEN [type |-> "response", parts |-> <<[type |-> "call", name |-> n, args |-> args]>>, finish |-> Unset]
           ELSE [type |-> "line", text |-> <<>>, calls |-> <<[name |-> n, args |-> args]>>, finish |-> Unset])
  /\ calls' = Append(calls, [index |-> NextIndex, name |-> n, args |-> args])
  /\ UNCHANGED <<said, finish, over>>

Ending(r) ==
  CASE dialect = "anthropic"        -> [type |-> "message_delta", finish |-> r]
    [] dialect = "openai-chat"      -> Chunk(<<>>, <<>>, r)
    [] dialect = "openai-responses" -> [type |-> "response.completed", finish |-> r]
    [] dialect = "gemini"           -> [type |-> "response", parts |-> <<>>, finish |-> r]
    [] dialect = "ollama"           -> [type |-> "line", text |-> <<>>, calls |-> <<>>, finish |-> r]

\* A reason, after which more may come, also another reason.
Finishes ==
  /\ finish' = IF finish = "stop" THEN "length" ELSE "stop"
  /\ Sends(Ending(finish'))
  /\ UNCHANGED <<said, calls, over>>

\* A last event without a reason: usage, or the terminal marker.
Trails ==
  /\ Sends(Ending(Unset))
  /\ over' = TRUE
  /\ UNCHANGED <<said, calls, finish>>

\* The connection breaks inside an event, or the provider sends an error event.
Breaks ==
  /\ \E e \in {Ending("stop")} \cup {x \in {[type |-> "error"]} : dialect = "anthropic"} :
       Sends(Cut(e))
  /\ over' = TRUE
  /\ UNCHANGED <<said, calls, finish>>

CodecNext ==
  \/ OpensText
  \/ Says
  \/ \E n \in Callable : OpensCall(n)
  \/ \E k \in DOMAIN calls, f \in Fragments : Argues(k, f)
  \/ \E n \in Callable, args \in DOMAIN Canon \cup {<<>>} : CallsWhole(n, args)
  \/ Finishes
  \/ Trails
  \/ Breaks

CodecSpec == CodecInit /\ [][CodecNext]_codecVars

-----------------------------------------------------------------------------

Meant == Transcript(said, [k \in DOMAIN calls |-> ToolCall(calls[k].name, calls[k].args)], finish)

\* Whatever the chunking and the interleaving of the events, and wherever the stream was cut, the
\* decoder of the dialect makes of it exactly what the provider said so far, and it reports an
\* error for no stream but the one that carried an error event.
DecodedAsSaid ==
  /\ Equal(Decode(dialect, stream), Meant)
  /\ DecodeFails(dialect, stream) <=> \E i \in DOMAIN stream : stream[i].type = "error"

\* A turn decoded at any moment can be written in every dialect and read back as the same turn,
\* unless the dialect writes arguments as objects and a call has none that is a document; then,
\* and only then, the round trip that canonicalize and codec verify rely on reports it.
EncodedAnywhere ==
  LET t == Decode(dialect, stream)
  IN  /\ \A p \in Dialects : Equal(Decode(p, Encode(p, t)), t) <=> Writable(p, t)
      /\ RoundTrip(dialect, stream).stable <=> Writable(dialect, t)

\* Every reframing of a turn, its text split anew and its calls in another order, decodes to the
\* same turn: the one Encode writes, in that dialect.
ReframedSame ==
  LET t == Decode(dialect, stream)
  IN  \A p \in Dialects :
        LET same == Decode(p, Encode(p, t))
        IN  \A s \in Reframings(p, t) : Equal(Decode(p, s), same)
=============================================================================
