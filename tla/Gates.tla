-------------------------------- MODULE Gates --------------------------------
(***************************************************************************)
(* An agent is recorded twice, a golden session and a session after it, and *)
(* the gates of a build look at the two recordings: taint, egress-audit,    *)
(* audit and policy, schemacheck and mcp-diff.                              *)
(*                                                                         *)
(* The actions are those of the agent, its provider and its tool server,   *)
(* each with the interaction that is recorded of it; the gates are pure     *)
(* functions of the recordings and asked in every state.  The server       *)
(* refuses the arguments its schema does not admit, it may fail otherwise, *)
(* and it may be changed while nobody looks.                               *)
(***************************************************************************)
EXTENDS Audits

CONSTANTS Agents,    \* what an agent may do: its turns, and the calls it makes of the server
          Servers,   \* the tools a server may have, by name
          Policies,  \* the policies the recordings are held against
          MaxTurns,  \* the turns of a session
          MaxEvolutions

ASSUME GatesAssumption == {MaxTurns, MaxEvolutions} \subseteq Nat

\* Other keys are allowed by a schema or they are not, and JSON has finitely many types.
IsSchema(s) == s.additional \in BOOLEAN /\ \A k \in DOMAIN s.props : IsFiniteSet(s.props[k])

\* What has the fields of an interaction, and no other.
IsInteraction(it) ==
  /\ it = [kind |-> it.kind, method |-> it.method, call |-> it.call, carries |-> it.carries,
           tools |-> it.tools, calls |-> it.calls, error |-> it.error]
  /\ it.carries = Carries(it.carries.asked, it.carries.beside, it.carries.answered)

\* Tools are listed by Lists only, and who uses the server uses no other: a recording that
\* mcp-proxy makes is of one server.
ASSUME AgentsAssumption ==
  \A a \in Agents : \A it \in a.turns :
    /\ IsInteraction(it)
    /\ ~IsList(it)
    /\ a.calls # {} => it.kind = "http"
    /\ \A n \in DOMAIN it.tools : IsSchema(it.tools[n])

ASSUME ServersAssumption == \A tools \in Servers : \A n \in DOMAIN tools : IsSchema(tools[n])

VARIABLES agent,    \* what this agent may do
          server,   \* the tools the server has
          evolved,  \* how often it was changed
          golden,   \* the recording of the first session
          current,  \* the recording of the session that runs
          stable,   \* the server was not changed in this session
          refused   \* the calls of this session whose arguments it refused

vars == <<agent, server, evolved, golden, current, stable, refused>>

Init ==
  /\ agent \in Agents
  /\ server \in IF agent.calls = {} THEN {<<>>} ELSE Servers
  /\ evolved = 0
  /\ golden = <<>> /\ current = <<>> /\ stable = TRUE /\ refused = {}

Records(it) ==
  /\ Len(current) < MaxTurns
  /\ current' = Append(current, it)
  /\ UNCHANGED <<agent, server, evolved, golden, stable>>

\* A turn with the model, or a call of some other server.
Speaks(it) ==
  /\ Records(it)
  /\ UNCHANGED refused

\* The agent asks for the tools: first of all, and again when it likes.
Lists ==
  /\ agent.calls # {}
  /\ Records(ListTools(server))
  /\ UNCHANGED refused

\* What a schema admits.
Admits(s, args) ==
  LET keys == DOMAIN args.keys
  IN  /\ args.valid
      /\ s.required \subseteq keys
      /\ s.additional \/ keys \subseteq DOMAIN s.props
      /\ \A k \in keys \cap DOMAIN s.props : s.props[k] = {} \/ s.props[k] \cap TypesOf(args.keys[k]) # {}

Served(call) == call.name \in DOMAIN server /\ Admits(server[call.name], call.args)

Uses(call, fails) ==
  /\ current # <<>>
  /\ Records(CallTool(call, Carries({}, {}, {}), fails \/ ~Served(call)))
  /\ refused' = IF Served(call) THEN refused ELSE refused \cup {Len(current')}

Evolves(tools) ==
  /\ agent.calls # {} /\ evolved < MaxEvolutions /\ tools # server
  /\ server' = tools
  /\ evolved' = evolved + 1
  /\ stable' = (current = <<>>)
  /\ UNCHANGED <<agent, golden, current, refused>>

\* The session becomes the golden one.
Commits ==
  /\ golden = <<>> /\ current # <<>>
  /\ golden' = current
  /\ current' = <<>>
  /\ stable' = TRUE
  /\ refused' = {}
  /\ UNCHANGED <<agent, server, evolved>>

Next ==
  \/ \E it \in agent.turns : Speaks(it)
  \/ Lists
  \/ \E call \in agent.calls, fails \in BOOLEAN : Uses(call, fails)
  \/ \E tools \in Servers : Evolves(tools)
  \/ Commits

Spec == Init /\ [][Next]_vars

-----------------------------------------------------------------------------

\* The interactions there may be.
Spoken   == UNION {a.turns : a \in Agents}
Listings == {ListTools(tools) : tools \in Servers}
Calls    == {CallTool(call, Carries({}, {}, {}), error) : call \in UNION {a.calls : a \in Agents}, error \in BOOLEAN}
Recorded == Spoken \cup Listings \cup Calls

TypeOK ==
  /\ agent \in Agents
  /\ server \in Servers \cup {<<>>}
  /\ evolved \in 0 .. MaxEvolutions
  /\ {golden, current} \subseteq Seq(Recorded)
  /\ Len(current) <= MaxTurns
  /\ stable \in BOOLEAN
  /\ refused \subseteq DOMAIN current

\* Taint names exactly the values that one turn brought up and the request of a later one sends
\* out, says whose they were and how often they were sent, and egress-audit has a finding of the
\* class in the request each was sent with last.  The policy that forbids exfiltration judges one
\* recording by these flows, although it looks at it with repeated turns left out.
FlowsTraced ==
  LET turns    == HTTPTurns(current)
      Sent(v)  == {n \in DOMAIN turns : v \in turns[n].carries.asked}
      Heard(v) == {n \in DOMAIN turns : v \in turns[n].carries.answered}
      First(v) == CHOOSE n \in Sent(v) \cup Heard(v) : \A m \in Sent(v) \cup Heard(v) : n <= m
      Last1(v) == CHOOSE n \in Sent(v) : \A m \in Sent(v) : m <= n
      Values   == UNION {turns[n].carries.asked : n \in DOMAIN turns}
      Crossing == {v \in Values : First(v) < Last1(v)}
      Expected(v) == Flow(IF First(v) \in Sent(v) THEN "user-input" ELSE "model-output", First(v), Last1(v), Cardinality(Sent(v)))
  IN  /\ \E flows \in {Taint(current)} :
           /\ flows = [v \in Crossing |-> Expected(v)]
           /\ \A p \in Policies : p.exfil => ("exfil" \in CheckPolicy(p, <<current>>) <=> Exfils(flows) # {})
      /\ \A v \in Crossing : \E e \in EgressAudit(current) : e[2] = v.class /\ turns[Last1(v)] = current[e[1]]

\* A policy judges a corpus as it judges the recordings: what no recording does wrong the corpus
\* does not, a value that a body carries is not lost although copies are left out, tools count
\* together, and recordings that share no value do not make or hide each other's flows.
CorpusVerdicts ==
  LET InBodies(f)     == [i \in DOMAIN f |-> [f[i] EXCEPT !.carries = Carries(@.asked, {}, @.answered)]]
      ValuesOf(f)     == UNION {f[i].carries.asked \cup f[i].carries.answered : i \in DOMAIN f}
      Agree(p, all, a, b, inA, inB) ==
        /\ all \cap {"secrets", "egress"} \subseteq a \cup b
        /\ (inA \cup inB) \cap {"secrets", "egress"} \subseteq all
        /\ "coverage" \in all <=> ~(p.tools \subseteq ToolsExercised(<<golden, current>>))
        /\ ValuesOf(golden) \cap ValuesOf(current) = {} => ("exfil" \in all <=> "exfil" \in a \cup b)
  IN  golden # <<>> =>
        \A p \in Policies :
          Agree(p, CheckPolicy(p, <<golden, current>>), CheckPolicy(p, <<golden>>), CheckPolicy(p, <<current>>),
                CheckPolicy(p, <<InBodies(golden)>>), CheckPolicy(p, <<InBodies(current)>>))

\* A schema that says all it means in the words schemacheck knows.
Plain(s) == s.type = "object" /\ \A k \in DOMAIN s.props : Cardinality(s.props[k]) < 2 /\ s.props[k] # {"null"}

\* Schemacheck accuses no call but one whose arguments the schema does not admit, and if the
\* schema is plain it accuses every such call.  Of the calls of a tool server those are the ones
\* the server refused, in a recording of a server that was not changed meanwhile.
SchemaSound ==
  LET Verdict(r, s, bad) ==
        /\ r.verdict.problems # {} => bad
        /\ bad /\ Plain(s) => r.verdict.problems # {}
      Right(r, it) ==
        IF it.kind = "http" THEN Verdict(r, it.tools[r.call.name], ~Admits(it.tools[r.call.name], r.call.args))
        ELSE stable => Verdict(r, server[r.call.name], r.turn \in refused)
  IN  \A r \in SchemaCheck(current) : r.verdict.checked => Right(r, current[r.turn])

\* What mcp-diff compares of the arguments of a call: keys that were declared with a type, and
\* required keys that are declared.
Compared(args, old, new) ==
  /\ new.required \subseteq old.required \cup DOMAIN new.props
  /\ \A k \in DOMAIN args.keys \cap DOMAIN new.props : k \in DOMAIN old.props /\ (old.props[k] = {} => new.props[k] = {})

\* If mcp-diff finds nothing breaking between two recordings, the server that the second one
\* lists admits every call that succeeded in the first one as its schema promised, and no call
\* that succeeded in the first one was last answered with an error in the second.
DiffSound ==
  LET Still(call, was) ==
        /\ call.name \in DOMAIN server
        /\ Admits(was, call.args) /\ Compared(call.args, was, server[call.name]) => Admits(server[call.name], call.args)
      Golden == {i \in DOMAIN golden : IsCall(golden[i]) /\ ~golden[i].error}
  IN  golden # <<>> /\ Compatible(golden, current) =>
        /\ \A i \in Golden : ~LastErred(current, golden[i].call)
        /\ \E was \in {McpToolSchemas(golden)} :
             McpToolSchemas(current) = server =>
               \A i \in Golden : golden[i].call.name \in DOMAIN was => Still(golden[i].call, was[golden[i].call.name])
=============================================================================
