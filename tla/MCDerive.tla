------------------------------ MODULE MCDerive ------------------------------
(* Derive over two recordings of two or three turns out of four. *)
EXTENDS Derive

MCCanon == (<<"{}">> :> <<"{}">>) @@ (<<"a", "b">> :> <<"a", "b">>) @@ (<<"b", "a">> :> <<"a", "b">>)
           @@ (<<"?">> :> <<"?">>)
MCEmptyObject == <<"{}">>
MCUnexpected == <<"?">>
MCPhrases == {"sorry"}
MCWords == {"", "h", "i", "p", "q", "r", "w", "z", "sorry", "a", "b", "{}", "?", "}", "t", "u", "tool",
            "stop", "tool_use", "end_turn", "max_tokens", "stop_sequence"}

Asked(p, text) == Request(Shape(p), <<"sys">>, <<Message("user", text)>>, <<"t">>)
Recorded(match, p, request, body) == HTTP(p, request, TRUE, body, HTTPKey(match, p, request))

\* Two text deltas, a call whose arguments come in fragments out of canonical order.
Fragments == <<Noise, Block(0, "text", ""), [type |-> "text_delta", index |-> 0, text |-> <<"h">>],
               Block(1, "tool", "t"), [type |-> "input_json_delta", index |-> 1, args |-> <<"b">>],
               [type |-> "text_delta", index |-> 0, text |-> <<"i">>],
               [type |-> "input_json_delta", index |-> 1, args |-> <<"a">>],
               [type |-> "message_delta", finish |-> "tool_use"], Noise>>

\* A call without arguments, twice the same tool.
Calling == <<Chunk(<<"h">>, <<>>, ""), Chunk(<<>>, <<[index |-> 0, name |-> "t", args |-> <<>>]>>, ""),
             Chunk(<<>>, <<[index |-> 1, name |-> "t", args |-> <<"a", "b">>]>>, "stop"), Noise>>

Agent == [File("none", <<[Recorded("none", "anthropic", Asked("anthropic", <<"q">>), Fragments) EXCEPT !.timed = TRUE],
                        MCP("tools/call", "t", <<"b", "a">>, Result(<<"r">>, FALSE)),
                        Recorded("none", "anthropic", Asked("anthropic", <<"p">>),
                                 EncodeAnthropic(Transcript(<<"sorry">>, <<>>, "end_turn")))>>)
         EXCEPT !.expect = Contract({"u"}, TRUE, TRUE)]

Chatting == File("ignore", <<Recorded("ignore", "openai-chat", Asked("openai-chat", <<"q">>), Calling),
                             HTTP("openai-chat", Asked("openai-chat", <<"u">>), FALSE, Document("d"),
                                  HTTPKey("ignore", "openai-chat", Asked("openai-chat", <<"u">>)))>>)

Local == File("none", <<Recorded("none", "ollama", Asked("ollama", <<"q">>),
                                 <<[type |-> "line", text |-> <<"h">>, calls |-> <<>>, finish |-> ""],
                                   [type |-> "line", text |-> <<"i">>, calls |-> <<[name |-> "t", args |-> <<"b", "a">>]>>,
                                    finish |-> "stop"]>>),
                        MCP("tools/list", "", <<"{}">>, Listing(<<"t">>))>>)

MCGoldens == (<<"in", "x">> :> {Agent, Chatting}) @@ (<<"in", "y">> :> {Local})

MCEditLists == {<<Edit("text", 0, "", <<"z">>), Edit("append", 0, "", <<"w">>)>>,
                <<Edit("finish", 0, "stop", <<>>)>>, <<Edit("name", 1, "u", <<>>)>>, <<Edit("args", 1, "", <<"b", "a">>)>>}
MCSlots == {<<Edit("text", 0, "", <<"z">>), Edit("text", 0, "", <<>>)>>, <<Edit("args", 1, "", <<"{}">>), Edit("args", 1, "", <<"b">>)>>}
MCTargets == {"gemini", "anthropic"}
Script(kind, text, calls, url) ==
  [kind |-> kind, user |-> <<"q">>, text |-> text, calls |-> calls, finish |-> "stop", url |-> url,
   method |-> "tools/call", tool |-> "t", args |-> <<>>, error |-> <<>>]
MCScreenplays ==
  {[provider |-> "openai-responses",
    turns |-> <<Script("http", <<>>, <<[name |-> "t", args |-> <<"b", "a">>]>>, ""), Script("mcp", <<"r">>, <<>>, ""),
                Script("http", <<"h">>, <<>>, "")>>],
   [provider |-> "gemini", turns |-> <<Script("http", <<"h">>, <<>>, "ollama")>>],
   [provider |-> "gemini", turns |-> <<>>]}
=============================================================================
