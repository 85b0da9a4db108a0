---------------------------- MODULE ToolContracts ----------------------------
(***************************************************************************)
(* The contracts of tools and the commands that look at them: schemacheck, *)
(* which holds the calls of a recording against the schemas it carries,    *)
(* and mcp-diff, which compares two recordings of a tool server            *)
(* (internal/analysis schemacheck.go, mcpdiff.go, mcpsteps.go).            *)
(*                                                                         *)
(* A schema is what its top level says of an object: the type keyword, the *)
(* types each property may have (a set of one is written as a string, a    *)
(* larger one as a union, the empty one not at all), the required keys and *)
(* whether other keys are allowed.  Nested schemas and enums are left out. *)
(***************************************************************************)
EXTENDS Naturals, FiniteSets, Sequences, SequencesExt, TLC

-----------------------------------------------------------------------------
(* Schemas, arguments, interactions *)

Schema(type, props, required, additional) ==
  [type |-> type, props |-> props, required |-> required, additional |-> additional]

\* What a tool that is listed without a schema has.
Bare == Schema("", <<>>, {}, TRUE)

\* Arguments: an object, or bytes that are no JSON.
Object(keys) == [valid |-> TRUE, keys |-> keys]
Malformed == [valid |-> FALSE, keys |-> <<>>]
NoArgs == Object(<<>>)

\* The types of the values that occur.
TypesOf(value) == CASE value = "text"     -> {"string"}
                    [] value = "one"      -> {"integer", "number"}
                    [] value = "half"     -> {"number"}
                    [] value = "nothing"  -> {"null"}

ToolCall(name, args) == [name |-> name, args |-> args]

\* Sensitive values: carried by the body of the request, beside it in headers that are not part of
\* the key, by the body of the response.
Carries(asked, beside, answered) == [asked |-> asked, beside |-> beside, answered |-> answered]

\* tools: the schemas by name that an HTTP request advertises or a tools/list result holds.
Turn(carries, tools, calls) ==
  [kind |-> "http", method |-> "", call |-> ToolCall("", NoArgs), carries |-> carries,
   tools |-> tools, calls |-> calls, error |-> FALSE]

ListTools(tools) ==
  [kind |-> "mcp", method |-> "tools/list", call |-> ToolCall("", NoArgs), carries |-> Carries({}, {}, {}),
   tools |-> tools, calls |-> {}, error |-> FALSE]

CallTool(call, carries, error) ==
  [kind |-> "mcp", method |-> "tools/call", call |-> call, carries |-> carries,
   tools |-> <<>>, calls |-> {}, error |-> error]

IsCall(it) == it.kind = "mcp" /\ it.method = "tools/call"
IsList(it) == it.kind = "mcp" /\ it.method = "tools/list"

-----------------------------------------------------------------------------
(* schemacheck *)

(* Mutant: an undeclared key is a problem unless other keys are expressly allowed. *)
ValidateValue_Strict(args, s) ==
  LET keys == DOMAIN args.keys
  IN  IF ~args.valid THEN {<<"not JSON", "">>}
      ELSE {<<"missing", k>> : k \in s.required \ keys} \cup {<<"unknown", k>> : k \in keys \ DOMAIN s.props}

\* The problems of the arguments of one call.  Only a schema that says it is of an object is
\* looked at, and only a property that has one type, which is not null.
ValidateValue(args, s) ==
  LET keys     == DOMAIN args.keys
      Wrong(k) == LET types == s.props[k] IN Cardinality(types) = 1 /\ types # {"null"} /\ types \cap TypesOf(args.keys[k]) = {}
  IN  IF ~args.valid THEN {<<"not JSON", "">>}
      ELSE IF s.type # "object" THEN {}
      ELSE {<<"missing", k>> : k \in s.required \ keys}
           \cup {<<"unknown", k>> : k \in {x \in keys \ DOMAIN s.props : ~s.additional}}
           \cup {<<"type", k>> : k \in {x \in keys \cap DOMAIN s.props : Wrong(x)}}

\* The schemas by tool after one more interaction: a list takes the place of earlier ones, tool by
\* tool.
Listed(schemas, it) ==
  IF IsList(it)
  THEN [x \in DOMAIN it.tools \cup DOMAIN schemas |-> IF x \in DOMAIN it.tools THEN it.tools[x] ELSE schemas[x]]
  ELSE schemas

SchemasUpTo(f) ==
  LET upTo[n \in 0 .. Len(f)] == IF n = 0 THEN <<>> ELSE Listed(upTo[n - 1], f[n]) IN upTo

\* The schemas that the tools/list results of a file hold.
McpToolSchemas(f) == SchemasUpTo(f)[Len(f)]

ValidateCall(call, schemas) ==
  IF call.name \notin DOMAIN schemas THEN [checked |-> FALSE, problems |-> {}]
  ELSE [checked |-> TRUE, problems |-> ValidateValue(call.args, schemas[call.name])]

\* The verdict on every call of a file, by turn: those a model made against the tools of its own
\* request, those made of an MCP server against the lists of the whole file.
SchemaCheck(f) ==
  LET CallsOf(it)   == IF it.kind = "http" THEN it.calls ELSE IF IsCall(it) THEN {it.call} ELSE {}
      Schemas(it)   == IF it.kind = "http" THEN it.tools ELSE McpToolSchemas(f)
  IN  UNION {{[turn |-> i, call |-> c, verdict |-> ValidateCall(c, Schemas(f[i]))] : c \in CallsOf(f[i])} : i \in DOMAIN f}

SchemaViolations(f) == {r \in SchemaCheck(f) : r.verdict.problems # {}}

-----------------------------------------------------------------------------
(* mcp-diff *)

Change(tool, kind, key, breaking) == [tool |-> tool, kind |-> kind, key |-> key, breaking |-> breaking]

(* Mutant: a property with a type is expected to have the same type, a union is not compared. *)
TypeNarrowed_One(old, new) == Cardinality(old) = 1 /\ Cardinality(new) = 1 /\ old # new

\* A type that was accepted no longer is.
TypeNarrowed(old, new) == old # {} /\ new # {} /\ ~(old \subseteq new)

SchemaChanges(tool, old, new) ==
  LET was == DOMAIN old.props
      is  == DOMAIN new.props
      tightened == new.required \ old.required
  IN  {Change(tool, "property_removed", k, TRUE) : k \in was \ is}
      \cup {Change(tool, "type_changed", k, TRUE) : k \in {x \in was \cap is : TypeNarrowed(old.props[x], new.props[x])}}
      \cup {Change(tool, "additional_properties_forbidden", k, TRUE) : k \in {x \in {""} : old.additional /\ ~new.additional}}
      \cup {Change(tool, "property_added", k, FALSE) : k \in (is \ was) \ tightened}
      \cup {Change(tool, "required_added", k, TRUE) : k \in is \cap tightened}

\* Whether the last call of this kind was answered with an error.
LastErred(f, call) ==
  LET at == {i \in DOMAIN f : IsCall(f[i]) /\ f[i].call = call}
  IN  at # {} /\ f[CHOOSE i \in at : \A k \in at : k <= i].error

(* Mutant: of calls that are the same only the first of the old recording is looked at. *)
CallRegressions_First(old, new) ==
  LET first == {i \in DOMAIN old : IsCall(old[i]) /\ \A k \in 1 .. (i - 1) : old[k].call # old[i].call}
  IN  {Change(old[i].call.name, "now_errors", "", TRUE) : i \in {k \in first : ~old[k].error /\ LastErred(new, old[k].call)}}

\* Calls that once succeeded and are answered with an error now.
CallRegressions(old, new) ==
  {Change(old[i].call.name, "now_errors", "", TRUE) :
     i \in {k \in DOMAIN old : IsCall(old[k]) /\ ~old[k].error /\ LastErred(new, old[k].call)}}

MCPDiff(old, new) ==
  LET Roster(was, is) ==
        {Change(n, "tool_removed", "", TRUE) : n \in DOMAIN was \ DOMAIN is}
        \cup {Change(n, "tool_added", "", FALSE) : n \in DOMAIN is \ DOMAIN was}
        \cup UNION {SchemaChanges(n, was[n], is[n]) : n \in DOMAIN was \cap DOMAIN is}
  IN  Roster(McpToolSchemas(old), McpToolSchemas(new)) \cup CallRegressions(old, new)

\* mcp-diff --fail-on-breaking passes.
Compatible(old, new) == \A c \in MCPDiff(old, new) : ~c.breaking
=============================================================================
