------------------------------ MODULE MCGates ------------------------------
(* Gates with an agent that talks and one that uses tools, in sessions of three turns. *)
EXTENDS Gates

Email == [class |-> "email", id |-> 1]
Key   == [class |-> "aws_key", id |-> 1]

Call(args) == ToolCall("t", Object(args))

\* Values come from the user or the model, are echoed, sent in a header only, or sent to a tool.
MCTurns ==
  {Turn(Carries({Email}, {}, {Email}), <<>>, {ToolCall("t", NoArgs)}),
   Turn(Carries({}, {}, {Email, Key}), <<>>, {}),
   Turn(Carries({Email}, {}, {}), <<>>, {}),
   Turn(Carries({}, {Key}, {}), "p" :> Schema("object", <<>>, {}, FALSE), {ToolCall("p", Malformed)}),
   Turn(Carries({}, {}, {}), "p" :> Schema("object", <<>>, {}, FALSE), {ToolCall("p", Malformed)}),
   CallTool(ToolCall("u", NoArgs), Carries({Key}, {}, {}), FALSE)}

MCAgents ==
  {[turns |-> MCTurns, calls |-> {}],
   [turns |-> {}, calls |-> {Call("a" :> "text"), Call("a" :> "nothing"), Call(("a" :> "text") @@ ("b" :> "half"))}]}

Has(types, required, additional) == "t" :> Schema("object", "a" :> types, required, additional)

MCServers ==
  {Has({"string"}, {}, TRUE), Has({"string", "null"}, {}, TRUE), Has({"string"}, {"a"}, FALSE),
   "t" :> Schema("object", ("a" :> {"string"}) @@ ("b" :> {"number"}), {"b"}, FALSE),
   ("t" :> Bare) @@ ("u" :> Bare), <<>>}

MCPolicies == {Policy(TRUE, TRUE, {"email"}, {"t", "p"}), Policy(FALSE, TRUE, {"aws_key"}, {})}
MCSecretClasses == {"aws_key"}
=============================================================================
