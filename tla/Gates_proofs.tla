----------------------------- MODULE Gates_proofs -----------------------------
(***************************************************************************)
(* The theorems of Gates, for every agent, every tool server and sessions  *)
(* of any length.                                                          *)
(*                                                                         *)
(* The gates are functions of the recordings, some of them recursive: what *)
(* these compute is shown by induction over the recording (SetInduction).  *)
(* SchemaSound compares their verdicts with what the server did, which is  *)
(* what the invariant is about.  For the flows and the verdicts on a       *)
(* corpus there is one notion, Leaks, that says of a recording what taint  *)
(* finds in it; filters and merges that keep it are parts (LeaksPart).     *)
(***************************************************************************)
EXTENDS Gates, TLAPS, SequenceTheorems, FiniteSetTheorems, WellFoundedInduction

\* What was listed is what the server has, and what was refused is what it does not admit, unless
\* it was changed meanwhile.
ServerInv ==
  /\ IF agent.calls = {} THEN server = <<>> ELSE server \in Servers
  /\ \A i \in DOMAIN current : IsList(current[i]) => agent.calls # {}
  /\ stable /\ agent.calls # {} =>
       \A i \in DOMAIN current :
         /\ IsList(current[i]) => current[i].tools = server
         /\ IsCall(current[i]) => (i \in refused <=> ~Served(current[i].call))

\* Whatever is advertised or listed is a schema.
SchemasInv ==
  /\ \A n \in DOMAIN server : IsSchema(server[n])
  /\ \A i \in DOMAIN current : \A n \in DOMAIN current[i].tools : IsSchema(current[i].tools[n])
  /\ \A i \in DOMAIN golden : \A n \in DOMAIN golden[i].tools : IsSchema(golden[i].tools[n])

Inv == TypeOK /\ ServerInv /\ SchemasInv
-----------------------------------------------------------------------------
(* The steps *)

LEMMA AppendFacts ==
  ASSUME NEW S, NEW f \in Seq(S), NEW it \in S
  PROVE  /\ Append(f, it) \in Seq(S)
         /\ Len(f) \in Nat /\ DOMAIN f = 1 .. Len(f)
         /\ Len(Append(f, it)) = Len(f) + 1
         /\ DOMAIN Append(f, it) = 1 .. (Len(f) + 1)
         /\ \A i \in 1 .. Len(f) : Append(f, it)[i] = f[i]
         /\ Append(f, it)[Len(f) + 1] = it
BY AppendProperties, LenProperties

\* Each interaction that a step records, and what is known of it.
LEMMA RecordedFacts ==
  ASSUME Inv
  PROVE  /\ \A it \in agent.turns :
              /\ it \in Recorded /\ ~IsList(it)
              /\ agent.calls # {} => ~IsCall(it)
              /\ \A n \in DOMAIN it.tools : IsSchema(it.tools[n])
         /\ agent.calls # {} =>
              /\ ListTools(server) \in Recorded
              /\ IsList(ListTools(server)) /\ ~IsCall(ListTools(server))
              /\ ListTools(server).tools = server
         /\ \A call \in agent.calls, error \in BOOLEAN :
              LET it == CallTool(call, Carries({}, {}, {}), error) IN
              /\ it \in Recorded /\ ~IsList(it) /\ IsCall(it) /\ it.call = call
              /\ DOMAIN it.tools = {}
<1>1. agent \in Agents BY DEF Inv, TypeOK
<1>2. ASSUME NEW it \in agent.turns
      PROVE  /\ it \in Recorded /\ ~IsList(it)
             /\ agent.calls # {} => ~IsCall(it)
             /\ \A n \in DOMAIN it.tools : IsSchema(it.tools[n])
  <2>1. it \in Spoken BY <1>1 DEF Spoken
  <2>2. it \in Recorded BY <2>1 DEF Recorded
  <2> QED BY <1>1, <2>2, AgentsAssumption DEF IsCall
<1>3. ASSUME agent.calls # {}
      PROVE  /\ ListTools(server) \in Recorded
             /\ IsList(ListTools(server)) /\ ~IsCall(ListTools(server))
             /\ ListTools(server).tools = server
  <2>1. server \in Servers BY <1>3 DEF Inv, ServerInv
  <2>2. ListTools(server) \in Listings BY <2>1 DEF Listings
  <2>3. /\ IsList(ListTools(server)) /\ ~IsCall(ListTools(server))
        /\ ListTools(server).tools = server
    BY DEF ListTools, IsList, IsCall
  <2> QED BY <2>2, <2>3 DEF Recorded
<1>4. ASSUME NEW call \in agent.calls, NEW error \in BOOLEAN
      PROVE  LET it == CallTool(call, Carries({}, {}, {}), error) IN
              /\ it \in Recorded /\ ~IsList(it) /\ IsCall(it) /\ it.call = call
              /\ DOMAIN it.tools = {}
  <2> DEFINE it == CallTool(call, Carries({}, {}, {}), error)
  <2>1. call \in UNION {a.calls : a \in Agents} BY <1>1
  <2>2. it \in Calls
    <3> DEFINE Names == UNION {a.calls : a \in Agents}
    <3>1. call \in Names BY <2>1
    <3>2. Calls = {CallTool(c, Carries({}, {}, {}), e) : c \in Names, e \in BOOLEAN} BY DEF Calls
    <3> HIDE DEF Names
    <3> QED BY <3>1, <3>2
  <2>3. ~IsList(it) /\ IsCall(it) /\ it.call = call BY DEF CallTool, IsList, IsCall
  <2>4. it.tools = <<>> BY DEF CallTool
  <2> QED BY <2>2, <2>3, <2>4 DEF Recorded
<1> QED BY <1>2, <1>3, <1>4

\* What is recorded comes to the end of the session.
LEMMA RecordsFacts ==
  ASSUME TypeOK, NEW it \in Recorded, Records(it)
  PROVE  /\ current' \in Seq(Recorded)
         /\ DOMAIN current = 1 .. Len(current) /\ Len(current) \in Nat
         /\ Len(current') = Len(current) + 1 /\ Len(current') <= MaxTurns
         /\ DOMAIN current' = 1 .. (Len(current) + 1)
         /\ \A i \in DOMAIN current : current'[i] = current[i]
         /\ current'[Len(current) + 1] = it
         /\ UNCHANGED <<agent, server, evolved, golden, stable>>
<1>1. current \in Seq(Recorded) BY DEF TypeOK
<1>2. current' = Append(current, it) BY DEF Records
<1>3. /\ Append(current, it) \in Seq(Recorded)
      /\ Len(current) \in Nat /\ DOMAIN current = 1 .. Len(current)
      /\ Len(Append(current, it)) = Len(current) + 1
      /\ DOMAIN Append(current, it) = 1 .. (Len(current) + 1)
      /\ \A i \in 1 .. Len(current) : Append(current, it)[i] = current[i]
      /\ Append(current, it)[Len(current) + 1] = it
  BY <1>1, AppendFacts
<1>4. MaxTurns \in Nat /\ Len(current) < MaxTurns BY GatesAssumption DEF Records
<1> QED BY <1>2, <1>3, <1>4 DEF Records

\* A step records something, or it changes the server, or it begins the second session.
LEMMA NextCases ==
  ASSUME Inv, [Next]_vars
  PROVE  \/ \E it \in Recorded : Records(it) /\ refused' = refused
              /\ (IsCall(it) => agent.calls = {})
              /\ (IsList(it) => agent.calls # {} /\ it.tools = server)
              /\ \A n \in DOMAIN it.tools : IsSchema(it.tools[n])
         \/ \E it \in Recorded : Records(it) /\ IsCall(it) /\ ~IsList(it) /\ DOMAIN it.tools = {}
              /\ refused' = IF Served(it.call) THEN refused ELSE refused \cup {Len(current')}
         \/ \E tools \in Servers : Evolves(tools)
         \/ Commits
         \/ UNCHANGED vars
<1>1. ASSUME NEW it \in agent.turns, Speaks(it)
      PROVE  /\ it \in Recorded /\ Records(it) /\ refused' = refused /\ ~IsList(it)
             /\ \A n \in DOMAIN it.tools : IsSchema(it.tools[n])
             /\ ~IsCall(it) \/ agent.calls = {}
  BY <1>1, RecordedFacts DEF Speaks
<1>2. ASSUME Lists
      PROVE  LET it == ListTools(server) IN
             /\ it \in Recorded /\ Records(it) /\ refused' = refused /\ ~IsCall(it) /\ IsList(it)
             /\ agent.calls # {} /\ it.tools = server
             /\ \A n \in DOMAIN it.tools : IsSchema(it.tools[n])
  BY <1>2, RecordedFacts DEF Lists, Inv, SchemasInv
<1>3. ASSUME NEW call \in agent.calls, NEW fails \in BOOLEAN, Uses(call, fails)
      PROVE  \E it \in Recorded : Records(it) /\ IsCall(it) /\ ~IsList(it) /\ DOMAIN it.tools = {}
                /\ refused' = IF Served(it.call) THEN refused ELSE refused \cup {Len(current')}
  <2> DEFINE error == fails \/ ~Served(call)
             it == CallTool(call, Carries({}, {}, {}), error)
  <2>1. error \in BOOLEAN OBVIOUS
  <2> HIDE DEF error
  <2>2. it \in Recorded /\ ~IsList(it) /\ IsCall(it) /\ it.call = call /\ DOMAIN it.tools = {}
    BY <2>1, RecordedFacts
  <2>3. Records(it) /\ refused' = IF Served(call) THEN refused ELSE refused \cup {Len(current')}
    BY <1>3 DEF Uses, error
  <2> HIDE DEF it
  <2> QED BY <2>2, <2>3
<1>4. CASE \E it \in agent.turns : Speaks(it) BY <1>1, <1>4
<1>5. CASE Lists BY <1>2, <1>5
<1>6. CASE \E call \in agent.calls, fails \in BOOLEAN : Uses(call, fails) BY <1>3, <1>6
<1> QED BY <1>4, <1>5, <1>6 DEF Next

LEMMA TypeStep == Inv /\ [Next]_vars => TypeOK'
<1> SUFFICES ASSUME Inv, [Next]_vars PROVE TypeOK' OBVIOUS
<1>0. TypeOK BY DEF Inv
<1>1. ASSUME NEW it \in Recorded, Records(it), refused' = refused PROVE TypeOK'
  BY <1>0, <1>1, RecordsFacts DEF TypeOK
<1>2. ASSUME NEW it \in Recorded, Records(it),
             refused' = IF Served(it.call) THEN refused ELSE refused \cup {Len(current')}
      PROVE  TypeOK'
  <2>1. refused' \subseteq DOMAIN current' BY <1>0, <1>2, RecordsFacts DEF TypeOK
  <2> QED BY <1>0, <1>2, <2>1, RecordsFacts DEF TypeOK
<1>3. ASSUME NEW tools \in Servers, Evolves(tools) PROVE TypeOK'
  <2>1. evolved' \in 0 .. MaxEvolutions BY <1>0, <1>3, GatesAssumption DEF TypeOK, Evolves
  <2>2. stable' \in BOOLEAN BY <1>3 DEF Evolves
  <2> QED BY <1>0, <1>3, <2>1, <2>2 DEF TypeOK, Evolves
<1>4. CASE Commits
  <2>1. current' = <<>> /\ golden' = current /\ refused' = {} /\ stable' = TRUE BY <1>4 DEF Commits
  <2>2. Len(current') <= MaxTurns BY <2>1, GatesAssumption
  <2>3. {golden, current}' \subseteq Seq(Recorded) BY <1>0, <2>1 DEF TypeOK
  <2> QED BY <1>0, <1>4, <2>1, <2>2, <2>3 DEF TypeOK, Commits
<1>5. CASE UNCHANGED vars BY <1>0, <1>5 DEF TypeOK, vars
<1> QED BY <1>1, <1>2, <1>3, <1>4, <1>5, NextCases

LEMMA ServerStep == Inv /\ [Next]_vars => ServerInv'
<1> SUFFICES ASSUME Inv, [Next]_vars PROVE ServerInv' OBVIOUS
<1>0. TypeOK /\ ServerInv BY DEF Inv
<1>1. ASSUME NEW it \in Recorded, Records(it), refused' = refused,
             IsCall(it) => agent.calls = {}, IsList(it) => agent.calls # {} /\ it.tools = server
      PROVE  ServerInv'
  <2>1. \A call : Served(call)' <=> Served(call) BY <1>0, <1>1, RecordsFacts DEF Served
  <2>2. Len(current) + 1 \notin refused BY <1>0, <1>1, RecordsFacts DEF TypeOK
  <2>3. ASSUME NEW i \in DOMAIN current'
        PROVE  /\ IsList(current'[i]) => agent.calls # {}
               /\ stable /\ agent.calls # {} =>
                    /\ IsList(current'[i]) => current'[i].tools = server
                    /\ IsCall(current'[i]) => (i \in refused <=> ~Served(current'[i].call))
    <3>1. CASE i \in DOMAIN current BY <1>0, <1>1, <3>1, RecordsFacts DEF ServerInv
    <3>2. CASE i = Len(current) + 1 BY <1>0, <1>1, <3>2, RecordsFacts
    <3> QED BY <1>0, <1>1, <3>1, <3>2, RecordsFacts
  <2> QED BY <1>0, <1>1, <2>1, <2>3, RecordsFacts DEF ServerInv
<1>2. ASSUME NEW it \in Recorded, Records(it), ~IsList(it),
             refused' = IF Served(it.call) THEN refused ELSE refused \cup {Len(current')}
      PROVE  ServerInv'
  <2>1. \A call : Served(call)' <=> Served(call) BY <1>0, <1>2, RecordsFacts DEF Served
  <2>2. Len(current) + 1 \notin refused BY <1>0, <1>2, RecordsFacts DEF TypeOK
  <2>3. ASSUME NEW i \in DOMAIN current'
        PROVE  /\ IsList(current'[i]) => agent.calls # {}
               /\ stable /\ agent.calls # {} =>
                    /\ IsList(current'[i]) => current'[i].tools = server
                    /\ IsCall(current'[i]) => (i \in refused' <=> ~Served(current'[i].call))
    <3>1. CASE i \in DOMAIN current
      <4>1. i # Len(current') /\ current'[i] = current[i] BY <1>0, <1>2, <3>1, RecordsFacts
      <4>2. i \in refused' <=> i \in refused BY <1>2, <4>1
      <4> QED BY <1>0, <3>1, <4>1, <4>2 DEF ServerInv
    <3>2. CASE i = Len(current) + 1
      <4>1. i = Len(current') /\ current'[i] = it BY <1>0, <1>2, <3>2, RecordsFacts
      <4>2. i \in refused' <=> ~Served(it.call) BY <1>2, <2>2, <3>2, <4>1
      <4> QED BY <1>2, <4>1, <4>2
    <3> QED BY <1>0, <1>2, <3>1, <3>2, RecordsFacts
  <2> QED BY <1>0, <1>2, <2>1, <2>3, RecordsFacts DEF ServerInv
<1>3. ASSUME NEW tools \in Servers, Evolves(tools) PROVE ServerInv'
  <2>1. ASSUME stable' PROVE DOMAIN current' = {}
    <3>1. stable' = (current = <<>>) /\ current' = current BY <1>3 DEF Evolves
    <3>2. current = <<>> BY <2>1, <3>1, Zenon
    <3> QED BY <3>1, <3>2
  <2> QED BY <1>0, <1>3, <2>1 DEF ServerInv, Evolves
<1>4. CASE Commits
  <2>1. DOMAIN current' = {} BY <1>4 DEF Commits
  <2> QED BY <1>0, <1>4, <2>1 DEF ServerInv, Commits
<1>5. CASE UNCHANGED vars
  <2>1. \A call : Served(call)' <=> Served(call) BY <1>5 DEF vars, Served
  <2> QED BY <1>0, <1>5, <2>1 DEF ServerInv, vars
<1> QED BY <1>1, <1>2, <1>3, <1>4, <1>5, NextCases

LEMMA SchemasStep == Inv /\ [Next]_vars => SchemasInv'
<1> SUFFICES ASSUME Inv, [Next]_vars PROVE SchemasInv' OBVIOUS
<1>0. TypeOK /\ SchemasInv BY DEF Inv
<1>1. ASSUME NEW it \in Recorded, Records(it), \A n \in DOMAIN it.tools : IsSchema(it.tools[n])
      PROVE  SchemasInv'
  <2>1. ASSUME NEW i \in DOMAIN current', NEW n \in DOMAIN current'[i].tools
        PROVE  IsSchema(current'[i].tools[n])
    <3>1. CASE i \in DOMAIN current BY <1>0, <1>1, <2>1, <3>1, RecordsFacts DEF SchemasInv
    <3>2. CASE i = Len(current) + 1 BY <1>0, <1>1, <2>1, <3>2, RecordsFacts
    <3> QED BY <1>0, <1>1, <3>1, <3>2, RecordsFacts
  <2> QED BY <1>0, <1>1, <2>1, RecordsFacts DEF SchemasInv
<1>2. ASSUME NEW tools \in Servers, Evolves(tools) PROVE SchemasInv'
  BY <1>0, <1>2, ServersAssumption DEF SchemasInv, Evolves
<1>3. CASE Commits
  <2>1. DOMAIN current' = {} /\ golden' = current /\ server' = server BY <1>3 DEF Commits
  <2> QED BY <1>0, <2>1 DEF SchemasInv
<1>4. CASE UNCHANGED vars BY <1>0, <1>4 DEF SchemasInv, vars
<1> QED BY <1>1, <1>2, <1>3, <1>4, NextCases

LEMMA InitInv == Init => Inv
<1> SUFFICES ASSUME Init PROVE Inv OBVIOUS
<1>1. golden = <<>> /\ current = <<>> /\ DOMAIN current = {} /\ DOMAIN golden = {} /\ Len(current) = 0 BY DEF Init
<1>2. TypeOK BY <1>1, GatesAssumption DEF Init, TypeOK
<1>3. ServerInv BY <1>1 DEF Init, ServerInv
<1>4. \A n \in DOMAIN server : IsSchema(server[n]) BY ServersAssumption DEF Init
<1> QED BY <1>1, <1>2, <1>3, <1>4 DEF Inv, SchemasInv

LEMMA InvHolds == Spec => []Inv
<1>1. Inv /\ [Next]_vars => Inv' BY TypeStep, ServerStep, SchemasStep DEF Inv
<1> QED BY InitInv, <1>1, PTL DEF Spec

-----------------------------------------------------------------------------
(* Induction over a recording *)

\* A set of numbers that is not empty has a least one.
LEMMA LeastNatural ==
  ASSUME NEW T, T \subseteq Nat, T # {}
  PROVE  \E x \in T : \A y \in T : ~(y < x)
<1>1. PICK x \in T : \A y \in T : ~(<<y, x>> \in OpToRel(<, Nat))
  BY NatLessThanWellFounded, WFMin
<1>2. ASSUME NEW y \in T, y < x PROVE FALSE
  <2>1. <<y, x>> \in OpToRel(<, Nat) BY <1>2 DEF OpToRel
  <2> QED BY <1>1, <2>1
<1> QED BY <1>2

\* What holds of 0 and is kept holds up to m.
LEMMA SetInduction ==
  ASSUME NEW m \in Nat, NEW P, 0 \in P, \A n \in 0..(m - 1) : n \in P => n + 1 \in P
  PROVE  \A n \in 0..m : n \in P
<1> SUFFICES ASSUME (0..m) \ P # {} PROVE FALSE OBVIOUS
<1>0. (0..m) \ P \subseteq Nat OBVIOUS
<1>1. PICK x \in (0..m) \ P : \A y \in (0..m) \ P : ~(y < x) BY <1>0, LeastNatural
<1>2. x # 0 BY <1>1
<1>3. x - 1 \in 0..(m - 1) /\ x - 1 \in 0..m /\ x - 1 < x BY <1>2
<1>4. x - 1 \in P BY <1>1, <1>3
<1>5. (x - 1) + 1 \in P BY <1>3, <1>4
<1> QED BY <1>1, <1>5
-----------------------------------------------------------------------------
(* Schemas *)

LEMMA SchemasDef ==
  ASSUME NEW f, Len(f) \in Nat
  PROVE  SchemasUpTo(f) = [n \in 0 .. Len(f) |-> IF n = 0 THEN <<>> ELSE Listed(SchemasUpTo(f)[n - 1], f[n])]
<1> DEFINE Is(g, m) == g = [n \in 0 .. m |-> IF n = 0 THEN <<>> ELSE Listed(g[n - 1], f[n])]
           P == {m \in Nat : \E g : Is(g, m)}
<1>1. 0 \in P
  <2>1. Is([n \in 0 .. 0 |-> <<>>], 0) OBVIOUS
  <2> QED BY <2>1
<1>2. ASSUME NEW m \in Nat, m \in P PROVE m + 1 \in P
  <2>1. PICK g : Is(g, m) BY <1>2
  <2> DEFINE h == [n \in 0 .. (m + 1) |-> IF n <= m THEN g[n] ELSE Listed(g[m], f[m + 1])]
  <2>2. ASSUME NEW n \in 0 .. (m + 1)
        PROVE  h[n] = IF n = 0 THEN <<>> ELSE Listed(h[n - 1], f[n])
    <3>1. CASE n = 0 BY <2>1, <3>1
    <3>2. CASE n \in 1 .. m
      <4>1. h[n] = g[n] /\ h[n - 1] = g[n - 1] BY <3>2
      <4>2. g[n] = Listed(g[n - 1], f[n]) BY <2>1, <3>2
      <4> QED BY <3>2, <4>1, <4>2
    <3>3. CASE n = m + 1
      <4>1. h[n] = Listed(g[m], f[m + 1]) /\ h[n - 1] = g[m] /\ n - 1 = m BY <3>3
      <4> QED BY <3>3, <4>1
    <3> QED BY <3>1, <3>2, <3>3
  <2>3. Is(h, m + 1) BY <2>2
  <2> HIDE DEF h, Is
  <2>4. \E x : Is(x, m + 1) BY <2>3
  <2> QED BY <2>4
<1>3. \A n \in 0 .. Len(f) : n \in P BY <1>1, <1>2, SetInduction
<1>4. PICK g : Is(g, Len(f)) BY <1>3
<1>5. SchemasUpTo(f) = CHOOSE x : Is(x, Len(f)) BY DEF SchemasUpTo
<1> HIDE DEF Is
<1>6. Is(SchemasUpTo(f), Len(f)) BY <1>4, <1>5
<1> QED BY <1>6 DEF Is

\* A schema of a tool comes from a list that has the tool.
FromLists(schemas, f) ==
  \A x \in DOMAIN schemas :
    \E i \in DOMAIN f : IsList(f[i]) /\ x \in DOMAIN f[i].tools /\ schemas[x] = f[i].tools[x]

LEMMA SchemasFromLists ==
  ASSUME NEW f, Len(f) \in Nat, DOMAIN f = 1 .. Len(f)
  PROVE  FromLists(McpToolSchemas(f), f)
<1> DEFINE P == {n \in Nat : FromLists(SchemasUpTo(f)[n], f)}
<1>1. 0 \in P
  <2>1. SchemasUpTo(f)[0] = <<>> BY SchemasDef
  <2>2. FromLists(<<>>, f) BY DEF FromLists
  <2> QED BY <2>1, <2>2
<1>2. ASSUME NEW n \in 0 .. (Len(f) - 1), n \in P PROVE n + 1 \in P
  <2> DEFINE old == SchemasUpTo(f)[n]
  <2>1. n + 1 \in 0 .. Len(f) /\ n + 1 # 0 /\ (n + 1) - 1 = n /\ n + 1 \in DOMAIN f OBVIOUS
  <2>2. SchemasUpTo(f)[n + 1] = Listed(old, f[n + 1]) BY <2>1, SchemasDef
  <2>3. FromLists(old, f) BY <1>2
  <2> HIDE DEF old
  <2>4. CASE ~IsList(f[n + 1])
    <3>1. Listed(old, f[n + 1]) = old BY <2>4 DEF Listed
    <3> QED BY <2>1, <2>2, <2>3, <3>1
  <2>5. CASE IsList(f[n + 1])
    <3> DEFINE tools == f[n + 1].tools
    <3>1. Listed(old, f[n + 1]) = [x \in DOMAIN tools \cup DOMAIN old |-> IF x \in DOMAIN tools THEN tools[x] ELSE old[x]]
      BY <2>5 DEF Listed
    <3>2. FromLists(Listed(old, f[n + 1]), f) BY <2>1, <2>3, <2>5, <3>1 DEF FromLists
    <3> QED BY <2>1, <2>2, <3>2
  <2> QED BY <2>4, <2>5
<1>3. \A n \in 0 .. Len(f) : n \in P BY <1>1, <1>2, SetInduction
<1>4. Len(f) \in P BY <1>3
<1> QED BY <1>4 DEF McpToolSchemas

\* schemacheck accuses no arguments that the schema admits.
LEMMA ValidateSound ==
  ASSUME NEW args, NEW s, IsSchema(s), Admits(s, args)
  PROVE  ValidateValue(args, s) = {}
<1>1. args.valid BY DEF Admits
<1>2. CASE s.type # "object" BY <1>1, <1>2 DEF ValidateValue
<1>3. CASE s.type = "object"
  <2>1. s.required \ DOMAIN args.keys = {} BY DEF Admits
  <2>2. {x \in DOMAIN args.keys \ DOMAIN s.props : ~s.additional} = {} BY DEF Admits
  <2>3. \A k \in DOMAIN args.keys \cap DOMAIN s.props :
          s.props[k] = {} \/ s.props[k] \cap TypesOf(args.keys[k]) # {}
    BY DEF Admits
  <2>4. Cardinality({}) = 0 BY FS_EmptySet
  <2> QED BY <1>1, <1>3, <2>1, <2>2, <2>3, <2>4 DEF ValidateValue
<1> QED BY <1>2, <1>3

\* If the schema is plain, it accuses all others.
LEMMA ValidateComplete ==
  ASSUME NEW args, NEW s, IsSchema(s), Plain(s), ~Admits(s, args)
  PROVE  ValidateValue(args, s) # {}
<1>1. s.type = "object" BY DEF Plain
<1>2. CASE ~args.valid BY <1>2 DEF ValidateValue
<1>3. CASE args.valid /\ ~(s.required \subseteq DOMAIN args.keys)
  BY <1>1, <1>3 DEF ValidateValue
<1>4. CASE args.valid /\ ~s.additional /\ ~(DOMAIN args.keys \subseteq DOMAIN s.props)
  <2>1. PICK k \in DOMAIN args.keys \ DOMAIN s.props : TRUE BY <1>4
  <2>2. <<"unknown", k>> \in ValidateValue(args, s) BY <1>1, <1>4, <2>1 DEF ValidateValue
  <2> QED BY <2>2
<1>5. ASSUME args.valid, NEW k \in DOMAIN args.keys \cap DOMAIN s.props,
             s.props[k] # {}, s.props[k] \cap TypesOf(args.keys[k]) = {}
      PROVE  ValidateValue(args, s) # {}
  <2>1. IsFiniteSet(s.props[k]) BY <1>5 DEF IsSchema
  <2>2. Cardinality(s.props[k]) \in Nat /\ Cardinality(s.props[k]) # 0 BY <1>5, <2>1, FS_CardinalityType, FS_EmptySet
  <2>3. Cardinality(s.props[k]) < 2 /\ s.props[k] # {"null"} BY <1>5 DEF Plain
  <2>4. Cardinality(s.props[k]) = 1 BY <2>2, <2>3
  <2>5. <<"type", k>> \in ValidateValue(args, s) BY <1>1, <1>5, <2>3, <2>4 DEF ValidateValue
  <2> QED BY <2>5
<1> QED BY <1>2, <1>3, <1>4, <1>5 DEF Admits

\* What is checked: the calls of a turn, against its own tools or against those of the lists.
LEMMA CheckFacts ==
  ASSUME NEW f, NEW r \in SchemaCheck(f)
  PROVE  /\ r.turn \in DOMAIN f
         /\ f[r.turn].kind = "http" => r.verdict = ValidateCall(r.call, f[r.turn].tools)
         /\ f[r.turn].kind # "http" =>
              /\ IsCall(f[r.turn]) /\ r.call = f[r.turn].call
              /\ r.verdict = ValidateCall(r.call, McpToolSchemas(f))
<1> DEFINE CallsOf(it) == IF it.kind = "http" THEN it.calls ELSE IF IsCall(it) THEN {it.call} ELSE {}
           Schemas(it) == IF it.kind = "http" THEN it.tools ELSE McpToolSchemas(f)
           Checks(i)   == {[turn |-> i, call |-> c, verdict |-> ValidateCall(c, Schemas(f[i]))] : c \in CallsOf(f[i])}
<1>1. SchemaCheck(f) = UNION {Checks(i) : i \in DOMAIN f} BY DEF SchemaCheck
<1>2. PICK i \in DOMAIN f : r \in Checks(i) BY <1>1
<1>3. PICK c \in CallsOf(f[i]) : r = [turn |-> i, call |-> c, verdict |-> ValidateCall(c, Schemas(f[i]))] BY <1>2
<1>4. r.turn = i /\ r.call = c /\ r.verdict = ValidateCall(c, Schemas(f[i])) BY <1>3
<1> QED BY <1>3, <1>4

LEMMA CheckedFacts ==
  ASSUME NEW call, NEW schemas, ValidateCall(call, schemas).checked
  PROVE  /\ call.name \in DOMAIN schemas
         /\ ValidateCall(call, schemas).problems = ValidateValue(call.args, schemas[call.name])
BY DEF ValidateCall

LEMMA SchemaSoundHolds == Inv => SchemaSound
<1> SUFFICES ASSUME Inv PROVE SchemaSound OBVIOUS
<1>0. /\ current \in Seq(Recorded) /\ stable \in BOOLEAN
      /\ DOMAIN current = 1 .. Len(current) /\ Len(current) \in Nat
  BY LenProperties DEF Inv, TypeOK
<1>1. ASSUME NEW r \in SchemaCheck(current), r.verdict.checked, current[r.turn].kind = "http"
      PROVE  LET s == current[r.turn].tools[r.call.name]
                 bad == ~Admits(s, r.call.args)
             IN  /\ r.verdict.problems # {} => bad
                 /\ bad /\ Plain(s) => r.verdict.problems # {}
  <2> DEFINE tools == current[r.turn].tools
  <2>1. r.turn \in DOMAIN current /\ r.verdict = ValidateCall(r.call, tools) BY <1>1, CheckFacts
  <2>2. /\ r.call.name \in DOMAIN tools
        /\ r.verdict.problems = ValidateValue(r.call.args, tools[r.call.name])
    BY <1>1, <2>1, CheckedFacts
  <2>3. IsSchema(tools[r.call.name]) BY <2>1, <2>2 DEF Inv, SchemasInv
  <2> QED BY <2>2, <2>3, ValidateSound, ValidateComplete
<1>2. ASSUME NEW r \in SchemaCheck(current), r.verdict.checked, current[r.turn].kind # "http", stable
      PROVE  /\ r.verdict.problems # {} => r.turn \in refused
             /\ r.turn \in refused /\ Plain(server[r.call.name]) => r.verdict.problems # {}
  <2>1. /\ r.turn \in DOMAIN current /\ IsCall(current[r.turn]) /\ r.call = current[r.turn].call
        /\ r.verdict = ValidateCall(r.call, McpToolSchemas(current))
    BY <1>2, CheckFacts
  <2>2. /\ r.call.name \in DOMAIN McpToolSchemas(current)
        /\ r.verdict.problems = ValidateValue(r.call.args, McpToolSchemas(current)[r.call.name])
    BY <1>2, <2>1, CheckedFacts
  <2>3. PICK i \in DOMAIN current :
          /\ IsList(current[i]) /\ r.call.name \in DOMAIN current[i].tools
          /\ McpToolSchemas(current)[r.call.name] = current[i].tools[r.call.name]
    BY <1>0, <2>2, SchemasFromLists DEF FromLists
  <2>4. agent.calls # {} /\ current[i].tools = server BY <1>2, <2>3 DEF Inv, ServerInv
  <2>5. r.turn \in refused <=> ~Served(r.call) BY <1>2, <2>1, <2>4 DEF Inv, ServerInv
  <2>6. Served(r.call) <=> Admits(server[r.call.name], r.call.args) BY <2>3, <2>4 DEF Served
  <2>7. IsSchema(server[r.call.name]) BY <2>3, <2>4 DEF Inv, SchemasInv
  <2> QED BY <2>2, <2>3, <2>4, <2>5, <2>6, <2>7, ValidateSound, ValidateComplete
<1> QED BY <1>1, <1>2 DEF SchemaSound

\* What mcp-diff finds nothing breaking in admits what was admitted, in so far as it is compared.
LEMMA ChangesSound ==
  ASSUME NEW tool, NEW old, NEW new, NEW args, IsSchema(old), IsSchema(new),
         \A c \in SchemaChanges(tool, old, new) : ~c.breaking,
         Admits(old, args), Compared(args, old, new)
  PROVE  Admits(new, args)
<1> DEFINE keys == DOMAIN args.keys
<1>1. ASSUME NEW c \in SchemaChanges(tool, old, new), NEW kind, NEW k, c = Change(tool, kind, k, TRUE) PROVE FALSE
  BY <1>1 DEF Change
<1>2. ASSUME NEW k \in new.required PROVE k \in keys
  <2>1. CASE k \in old.required BY <2>1 DEF Admits
  <2>2. CASE k \notin old.required
    <3>1. k \in DOMAIN new.props BY <1>2, <2>2 DEF Compared
    <3>2. Change(tool, "required_added", k, TRUE) \in SchemaChanges(tool, old, new)
      BY <1>2, <2>2, <3>1 DEF SchemaChanges
    <3> QED BY <1>1, <3>2
  <2> QED BY <2>1, <2>2
<1>3. ASSUME ~new.additional, NEW k \in keys PROVE k \in DOMAIN new.props
  <2>1. CASE old.additional
    <3>1. Change(tool, "additional_properties_forbidden", "", TRUE) \in SchemaChanges(tool, old, new)
      BY <1>3, <2>1 DEF SchemaChanges
    <3> QED BY <1>1, <3>1
  <2>2. CASE ~old.additional /\ k \notin DOMAIN new.props
    <3>1. k \in DOMAIN old.props BY <1>3, <2>2 DEF Admits
    <3>2. Change(tool, "property_removed", k, TRUE) \in SchemaChanges(tool, old, new)
      BY <2>2, <3>1 DEF SchemaChanges
    <3> QED BY <1>1, <3>2
  <2> QED BY <2>1, <2>2
<1>4. ASSUME NEW k \in keys \cap DOMAIN new.props
      PROVE  new.props[k] = {} \/ new.props[k] \cap TypesOf(args.keys[k]) # {}
  <2>1. k \in DOMAIN old.props /\ (old.props[k] = {} => new.props[k] = {}) BY <1>4 DEF Compared
  <2>2. old.props[k] = {} \/ old.props[k] \cap TypesOf(args.keys[k]) # {} BY <1>4, <2>1 DEF Admits
  <2>3. CASE TypeNarrowed(old.props[k], new.props[k])
    <3>1. Change(tool, "type_changed", k, TRUE) \in SchemaChanges(tool, old, new)
      BY <1>4, <2>1, <2>3 DEF SchemaChanges
    <3> QED BY <1>1, <3>1
  <2>4. CASE ~TypeNarrowed(old.props[k], new.props[k]) BY <2>1, <2>2, <2>4 DEF TypeNarrowed
  <2> QED BY <2>3, <2>4
<1>5. args.valid BY DEF Admits
<1> QED BY <1>2, <1>3, <1>4, <1>5 DEF Admits, IsSchema

LEMMA DiffSoundHolds == Inv => DiffSound
<1> SUFFICES ASSUME Inv, golden # <<>>, Compatible(golden, current)
             PROVE  LET was == McpToolSchemas(golden)
                        Golden == {i \in DOMAIN golden : IsCall(golden[i]) /\ ~golden[i].error}
                        Still(call, s) ==
                          /\ call.name \in DOMAIN server
                          /\ Admits(s, call.args) /\ Compared(call.args, s, server[call.name])
                               => Admits(server[call.name], call.args)
                    IN  /\ \A i \in Golden : ~LastErred(current, golden[i].call)
                        /\ McpToolSchemas(current) = server =>
                             \A i \in Golden : golden[i].call.name \in DOMAIN was =>
                               Still(golden[i].call, was[golden[i].call.name])
  BY DEF DiffSound
<1> DEFINE was == McpToolSchemas(golden)
           is  == McpToolSchemas(current)
<1>0. DOMAIN golden = 1 .. Len(golden) /\ Len(golden) \in Nat BY LenProperties DEF Inv, TypeOK
<1>1. \A c \in MCPDiff(golden, current) : ~c.breaking BY DEF Compatible
<1>2. CallRegressions(golden, current) \subseteq MCPDiff(golden, current) BY DEF MCPDiff
<1>3. \A x \in DOMAIN was \ DOMAIN is : Change(x, "tool_removed", "", TRUE) \in MCPDiff(golden, current)
  BY DEF MCPDiff
<1>4. \A x \in DOMAIN was \cap DOMAIN is : SchemaChanges(x, was[x], is[x]) \subseteq MCPDiff(golden, current)
  BY DEF MCPDiff
<1>5. ASSUME NEW i \in DOMAIN golden, IsCall(golden[i]), ~golden[i].error, LastErred(current, golden[i].call) PROVE FALSE
  <2>1. Change(golden[i].call.name, "now_errors", "", TRUE) \in CallRegressions(golden, current)
    BY <1>5 DEF CallRegressions
  <2> QED BY <1>1, <1>2, <2>1 DEF Change
<1>6. ASSUME is = server, NEW x \in DOMAIN was
      PROVE  /\ x \in DOMAIN server
             /\ \A args : Admits(was[x], args) /\ Compared(args, was[x], server[x]) => Admits(server[x], args)
  <2>1. x \in DOMAIN server
    <3>1. Change(x, "tool_removed", "", TRUE).breaking BY DEF Change
    <3> QED BY <1>1, <1>3, <1>6, <3>1
  <2>2. PICK i \in DOMAIN golden : IsList(golden[i]) /\ x \in DOMAIN golden[i].tools /\ was[x] = golden[i].tools[x]
    BY <1>0, SchemasFromLists DEF FromLists
  <2>3. IsSchema(was[x]) /\ IsSchema(server[x]) BY <2>1, <2>2 DEF Inv, SchemasInv
  <2>4. \A c \in SchemaChanges(x, was[x], server[x]) : ~c.breaking BY <1>1, <1>4, <1>6, <2>1
  <2> HIDE DEF was, is
  <2> QED BY <2>1, <2>3, <2>4, ChangesSound
<1> HIDE DEF is
<1> QED BY <1>5, <1>6 DEF is

-----------------------------------------------------------------------------
(* The interactions at some places *)

LEMMA PickedDef ==
  ASSUME NEW f, Len(f) \in Nat, NEW places
  PROVE  PickedUpTo(f, places) = [n \in 0 .. Len(f) |->
           IF n = 0 THEN <<>>
           ELSE Picking(PickedUpTo(f, places)[n - 1], f[n], n, places)]
<1> DEFINE Is(g, m) == g = [n \in 0 .. m |-> IF n = 0 THEN <<>> ELSE Picking(g[n - 1], f[n], n, places)]
           P == {m \in Nat : \E g : Is(g, m)}
<1>1. 0 \in P
  <2>1. Is([n \in 0 .. 0 |-> <<>>], 0) OBVIOUS
  <2> QED BY <2>1
<1>2. ASSUME NEW m \in Nat, m \in P PROVE m + 1 \in P
  <2>1. PICK g : Is(g, m) BY <1>2
  <2> DEFINE h == [n \in 0 .. (m + 1) |-> IF n <= m THEN g[n] ELSE Picking(g[m], f[m + 1], m + 1, places)]
  <2>2. ASSUME NEW n \in 0 .. (m + 1)
        PROVE  h[n] = IF n = 0 THEN <<>> ELSE Picking(h[n - 1], f[n], n, places)
    <3>1. CASE n = 0 BY <2>1, <3>1
    <3>2. CASE n \in 1 .. m
      <4>1. h[n] = g[n] /\ h[n - 1] = g[n - 1] BY <3>2
      <4>2. g[n] = Picking(g[n - 1], f[n], n, places) BY <2>1, <3>2
      <4> QED BY <3>2, <4>1, <4>2
    <3>3. CASE n = m + 1
      <4>1. h[n] = Picking(g[m], f[m + 1], m + 1, places) /\ h[n - 1] = g[m] /\ n - 1 = m BY <3>3
      <4> QED BY <3>3, <4>1
    <3> QED BY <3>1, <3>2, <3>3
  <2>3. Is(h, m + 1) BY <2>2
  <2> HIDE DEF h, Is
  <2>4. \E x : Is(x, m + 1) BY <2>3
  <2> QED BY <2>4
<1>3. \A n \in 0 .. Len(f) : n \in P BY <1>1, <1>2, SetInduction
<1>4. PICK g : Is(g, Len(f)) BY <1>3
<1>5. PickedUpTo(f, places) = CHOOSE x : Is(x, Len(f)) BY DEF PickedUpTo
<1> HIDE DEF Is
<1>6. Is(PickedUpTo(f, places), Len(f)) BY <1>4, <1>5
<1> QED BY <1>6 DEF Is

\* s is the part of f up to n at the places, and at says where each of it was.
Embeds(at, s, f, places, n) ==
  /\ at \in [1 .. Len(s) -> (1 .. n) \cap places]
  /\ \A i, j \in 1 .. Len(s) : i < j => at[i] < at[j]
  /\ \A i \in 1 .. Len(s) : s[i] = f[at[i]]
  /\ \A j \in (1 .. n) \cap places : \E i \in 1 .. Len(s) : at[i] = j

LEMMA PickedFacts ==
  ASSUME NEW S, NEW f \in Seq(S), NEW places
  PROVE  /\ Picked(f, places) \in Seq(S)
         /\ \E at : Embeds(at, Picked(f, places), f, places, Len(f))
<1> DEFINE upTo == PickedUpTo(f, places)
           Right(n) == upTo[n] \in Seq(S) /\ \E at : Embeds(at, upTo[n], f, places, n)
           P == {n \in Nat : Right(n)}
<1>0. Len(f) \in Nat /\ \A i \in 1 .. Len(f) : f[i] \in S BY LenProperties, ElementOfSeq
<1>1. 0 \in P
  <2>1. upTo[0] = <<>> BY <1>0, PickedDef
  <2> HIDE DEF upTo
  <2>2. Embeds(<<>>, <<>>, f, places, 0) BY DEF Embeds
  <2>3. upTo[0] \in Seq(S) BY <2>1
  <2> QED BY <2>1, <2>2, <2>3
<1>2. ASSUME NEW n \in 0 .. (Len(f) - 1), n \in P PROVE n + 1 \in P
  <2>0. n \in Nat /\ n + 1 \in 1 .. Len(f) /\ (n + 1) - 1 = n /\ n + 1 \in Nat BY <1>0
  <2>1. PICK at : Embeds(at, upTo[n], f, places, n) BY <1>2
  <2>2. upTo[n] \in Seq(S) /\ Len(upTo[n]) \in Nat BY <1>2, LenProperties
  <2> DEFINE s == upTo[n]
             new == upTo[n + 1]
  <2>a. n + 1 \in 0 .. Len(f) /\ n + 1 # 0 BY <2>0
  <2>b. new = Picking(s, f[n + 1], n + 1, places) BY <1>0, <2>0, <2>a, PickedDef
  <2> HIDE DEF upTo
  <2>3. CASE n + 1 \notin places
    <3>1. new = s BY <2>0, <2>3, <2>b DEF Picking
    <3>2. Embeds(at, s, f, places, n + 1) BY <2>0, <2>1, <2>2, <2>3 DEF Embeds
    <3> QED BY <2>0, <2>2, <3>1, <3>2
  <2>4. CASE n + 1 \in places
    <3>1. new = Append(s, f[n + 1]) BY <2>4, <2>b DEF Picking
    <3>2. f[n + 1] \in S BY <1>0, <2>0
    <3>3. /\ new \in Seq(S) /\ Len(new) = Len(s) + 1
          /\ \A i \in 1 .. Len(s) : new[i] = s[i]
          /\ new[Len(s) + 1] = f[n + 1]
      BY <2>2, <3>1, <3>2, AppendFacts
    <3> DEFINE to == [i \in 1 .. (Len(s) + 1) |-> IF i <= Len(s) THEN at[i] ELSE n + 1]
    <3>4. at \in [1 .. Len(s) -> (1 .. n) \cap places] BY <2>1 DEF Embeds
    <3>5. to \in [1 .. Len(new) -> (1 .. (n + 1)) \cap places] BY <2>0, <2>2, <2>4, <3>3, <3>4
    <3>6. \A i \in 1 .. Len(s) : to[i] = at[i] /\ to[i] < n + 1 BY <2>0, <2>2, <3>4
    <3>7. to[Len(s) + 1] = n + 1 BY <2>2
    <3> HIDE DEF new, s, to
    <3>8. ASSUME NEW i \in 1 .. Len(new), NEW j \in 1 .. Len(new), i < j PROVE to[i] < to[j]
      <4>1. i \in 1 .. Len(s) BY <2>2, <3>3, <3>8 DEF s
      <4>2. CASE j \in 1 .. Len(s) BY <2>1, <3>6, <3>8, <4>1, <4>2 DEF Embeds, s
      <4>3. CASE j = Len(s) + 1 BY <3>6, <3>7, <4>1, <4>3
      <4> QED BY <2>2, <3>3, <4>2, <4>3 DEF s
    <3>9. ASSUME NEW i \in 1 .. Len(new) PROVE new[i] = f[to[i]]
      <4>1. CASE i \in 1 .. Len(s) BY <2>1, <3>3, <3>6, <4>1 DEF Embeds, s
      <4>2. CASE i = Len(s) + 1 BY <3>3, <3>7, <4>2
      <4> QED BY <2>2, <3>3, <4>1, <4>2 DEF s
    <3>10. ASSUME NEW j \in (1 .. (n + 1)) \cap places PROVE \E i \in 1 .. Len(new) : to[i] = j
      <4>1. CASE j = n + 1
        <5>1. Len(s) + 1 \in 1 .. Len(new) BY <2>2, <3>3 DEF s
        <5> QED BY <3>7, <4>1, <5>1
      <4>2. CASE j \in 1 .. n
        <5>1. PICK i \in 1 .. Len(s) : at[i] = j BY <2>1, <4>2 DEF Embeds, s
        <5>2. i \in 1 .. Len(new) BY <2>2, <3>3 DEF s
        <5> QED BY <3>6, <5>1, <5>2
      <4> QED BY <2>0, <4>1, <4>2
    <3>11. Embeds(to, new, f, places, n + 1) BY <3>5, <3>8, <3>9, <3>10 DEF Embeds
    <3> QED BY <2>0, <3>3, <3>11 DEF new
  <2> QED BY <2>3, <2>4
<1>3. \A n \in 0 .. Len(f) : n \in P BY <1>0, <1>1, <1>2, SetInduction
<1>4. Len(f) \in P BY <1>0, <1>3
<1> QED BY <1>4 DEF Picked

-----------------------------------------------------------------------------
(* Taint *)

LEMMA FlowsDef ==
  ASSUME NEW f, Len(f) \in Nat
  PROVE  FlowsUpTo(f) = [n \in 0 .. Len(f) |->
           IF n = 0 THEN <<>> ELSE TaintTurn(FlowsUpTo(f)[n - 1], n, f[n].carries)]
<1> DEFINE Is(g, m) == g = [n \in 0 .. m |-> IF n = 0 THEN <<>> ELSE TaintTurn(g[n - 1], n, f[n].carries)]
           P == {m \in Nat : \E g : Is(g, m)}
<1>1. 0 \in P
  <2>1. Is([n \in 0 .. 0 |-> <<>>], 0) OBVIOUS
  <2> QED BY <2>1
<1>2. ASSUME NEW m \in Nat, m \in P PROVE m + 1 \in P
  <2>1. PICK g : Is(g, m) BY <1>2
  <2> DEFINE h == [n \in 0 .. (m + 1) |-> IF n <= m THEN g[n] ELSE TaintTurn(g[m], m + 1, f[m + 1].carries)]
  <2>2. ASSUME NEW n \in 0 .. (m + 1)
        PROVE  h[n] = IF n = 0 THEN <<>> ELSE TaintTurn(h[n - 1], n, f[n].carries)
    <3>1. CASE n = 0 BY <2>1, <3>1
    <3>2. CASE n \in 1 .. m
      <4>1. h[n] = g[n] /\ h[n - 1] = g[n - 1] BY <3>2
      <4>2. g[n] = TaintTurn(g[n - 1], n, f[n].carries) BY <2>1, <3>2
      <4> QED BY <3>2, <4>1, <4>2
    <3>3. CASE n = m + 1
      <4>1. h[n] = TaintTurn(g[m], m + 1, f[m + 1].carries) /\ h[n - 1] = g[m] /\ n - 1 = m BY <3>3
      <4> QED BY <3>3, <4>1
    <3> QED BY <3>1, <3>2, <3>3
  <2>3. Is(h, m + 1) BY <2>2
  <2> HIDE DEF h, Is
  <2>4. \E x : Is(x, m + 1) BY <2>3
  <2> QED BY <2>4
<1>3. \A n \in 0 .. Len(f) : n \in P BY <1>1, <1>2, SetInduction
<1>4. PICK g : Is(g, Len(f)) BY <1>3
<1>5. FlowsUpTo(f) = CHOOSE x : Is(x, Len(f)) BY DEF FlowsUpTo
<1> HIDE DEF Is
<1>6. Is(FlowsUpTo(f), Len(f)) BY <1>4, <1>5
<1> QED BY <1>6 DEF Is

\* The turns up to n whose request sends a value out, and whose response holds it.
SentIn(turns, v, n)  == {m \in 1 .. n : v \in turns[m].carries.asked}
HeardIn(turns, v, n) == {m \in 1 .. n : v \in turns[m].carries.answered}

\* What is seen of a value: where it was first, where it was sent last, how often it was sent.
Describes(flow, sent, heard) ==
  \E first \in sent \cup heard, last \in Nat :
    /\ \A m \in sent \cup heard : first <= m
    /\ IF sent = {} THEN last = 0 ELSE last \in sent /\ \A m \in sent : m <= last
    /\ flow = Flow(IF first \in sent THEN "user-input" ELSE "model-output", first, last, Cardinality(sent))

SeenRight(seen, turns, n) ==
  \A v : /\ v \in DOMAIN seen <=> SentIn(turns, v, n) \cup HeardIn(turns, v, n) # {}
         /\ v \in DOMAIN seen => Describes(seen[v], SentIn(turns, v, n), HeardIn(turns, v, n))

\* What one turn does to the flow of one value.
LEMMA TurnFacts ==
  ASSUME NEW seen, NEW n, NEW carries, NEW v
  PROVE  LET new == TaintTurn(seen, n, carries) IN
         /\ v \in DOMAIN new <=> v \in DOMAIN seen \cup carries.asked \cup carries.answered
         /\ v \in DOMAIN seen => new[v] =
              IF v \in carries.asked /\ seen[v].source < n
              THEN Flow(seen[v].kind, seen[v].source, n, seen[v].outbound + 1) ELSE seen[v]
         /\ v \notin DOMAIN seen /\ v \in carries.asked => new[v] = Flow("user-input", n, n, 1)
         /\ v \notin DOMAIN seen /\ v \notin carries.asked /\ v \in carries.answered =>
              new[v] = Flow("model-output", n, 0, 0)
<1> DEFINE mid == Asks(seen, n, carries.asked)
<1>1. /\ DOMAIN mid = DOMAIN seen \cup carries.asked
      /\ v \in DOMAIN seen => mid[v] =
           IF v \in carries.asked /\ seen[v].source < n
           THEN Flow(seen[v].kind, seen[v].source, n, seen[v].outbound + 1) ELSE seen[v]
      /\ v \notin DOMAIN seen /\ v \in carries.asked => mid[v] = Flow("user-input", n, n, 1)
  BY DEF Asks
<1> HIDE DEF mid
<1>2. /\ DOMAIN Answers(mid, n, carries.answered) = DOMAIN mid \cup carries.answered
      /\ v \in DOMAIN mid => Answers(mid, n, carries.answered)[v] = mid[v]
      /\ v \notin DOMAIN mid /\ v \in carries.answered =>
           Answers(mid, n, carries.answered)[v] = Flow("model-output", n, 0, 0)
  BY DEF Answers
<1>3. TaintTurn(seen, n, carries) = Answers(mid, n, carries.answered) BY DEF TaintTurn, mid
<1> QED BY <1>1, <1>2, <1>3

LEMMA NextTurn ==
  ASSUME NEW turns, NEW v, NEW n \in Nat
  PROVE  /\ SentIn(turns, v, n + 1) =
              IF v \in turns[n + 1].carries.asked THEN SentIn(turns, v, n) \cup {n + 1} ELSE SentIn(turns, v, n)
         /\ HeardIn(turns, v, n + 1) =
              IF v \in turns[n + 1].carries.answered THEN HeardIn(turns, v, n) \cup {n + 1} ELSE HeardIn(turns, v, n)
         /\ SentIn(turns, v, n) \subseteq 1 .. n /\ HeardIn(turns, v, n) \subseteq 1 .. n
         /\ IsFiniteSet(SentIn(turns, v, n))
<1>1. 1 .. (n + 1) = (1 .. n) \cup {n + 1} OBVIOUS
<1>2. SentIn(turns, v, n) \subseteq 1 .. n BY DEF SentIn
<1>3. IsFiniteSet(SentIn(turns, v, n)) BY <1>2, FS_Interval, FS_Subset
<1> QED BY <1>1, <1>2, <1>3 DEF SentIn, HeardIn

LEMMA SeenFacts ==
  ASSUME NEW turns, Len(turns) \in Nat
  PROVE  SeenRight(FlowsUpTo(turns)[Len(turns)], turns, Len(turns))
<1> DEFINE P == {n \in Nat : SeenRight(FlowsUpTo(turns)[n], turns, n)}
<1>1. 0 \in P
  <2>1. FlowsUpTo(turns)[0] = <<>> BY FlowsDef
  <2>2. \A v : SentIn(turns, v, 0) = {} /\ HeardIn(turns, v, 0) = {} BY DEF SentIn, HeardIn
  <2>3. SeenRight(<<>>, turns, 0) BY <2>2 DEF SeenRight
  <2> QED BY <2>1, <2>3
<1>2. ASSUME NEW n \in 0 .. (Len(turns) - 1), n \in P PROVE n + 1 \in P
  <2> DEFINE seen == FlowsUpTo(turns)[n]
             new  == FlowsUpTo(turns)[n + 1]
             c    == turns[n + 1].carries
  <2>1. n \in Nat /\ n + 1 \in 0 .. Len(turns) /\ n + 1 # 0 /\ (n + 1) - 1 = n /\ n + 1 \in Nat OBVIOUS
  <2>2. new = TaintTurn(seen, n + 1, c) BY <2>1, FlowsDef
  <2>3. SeenRight(seen, turns, n) BY <1>2
  <2> HIDE DEF seen, new
  <2>4. ASSUME NEW v
        PROVE  /\ v \in DOMAIN new <=> SentIn(turns, v, n + 1) \cup HeardIn(turns, v, n + 1) # {}
               /\ v \in DOMAIN new => Describes(new[v], SentIn(turns, v, n + 1), HeardIn(turns, v, n + 1))
    <3> DEFINE sent == SentIn(turns, v, n)
               heard == HeardIn(turns, v, n)
               sent1 == SentIn(turns, v, n + 1)
               heard1 == HeardIn(turns, v, n + 1)
    <3>1. /\ sent1 = IF v \in c.asked THEN sent \cup {n + 1} ELSE sent
          /\ heard1 = IF v \in c.answered THEN heard \cup {n + 1} ELSE heard
          /\ sent \subseteq 1 .. n /\ heard \subseteq 1 .. n /\ IsFiniteSet(sent)
      BY <2>1, NextTurn
    <3>2. /\ v \in DOMAIN seen <=> sent \cup heard # {}
          /\ v \in DOMAIN seen => Describes(seen[v], sent, heard)
      BY <2>3 DEF SeenRight
    <3>3. /\ v \in DOMAIN new <=> v \in DOMAIN seen \cup c.asked \cup c.answered
          /\ v \in DOMAIN seen => new[v] =
               IF v \in c.asked /\ seen[v].source < n + 1
               THEN Flow(seen[v].kind, seen[v].source, n + 1, seen[v].outbound + 1) ELSE seen[v]
          /\ v \notin DOMAIN seen /\ v \in c.asked => new[v] = Flow("user-input", n + 1, n + 1, 1)
          /\ v \notin DOMAIN seen /\ v \notin c.asked /\ v \in c.answered =>
               new[v] = Flow("model-output", n + 1, 0, 0)
      BY <2>2, TurnFacts
    <3> HIDE DEF c, sent, heard, sent1, heard1
    <3>4. v \in DOMAIN new <=> sent1 \cup heard1 # {} BY <3>1, <3>2, <3>3
    <3>5. ASSUME v \in DOMAIN seen /\ v \in c.asked PROVE Describes(new[v], sent1, heard1)
      <4>1. PICK first \in sent \cup heard, last \in Nat :
              /\ \A m \in sent \cup heard : first <= m
              /\ seen[v] = Flow(IF first \in sent THEN "user-input" ELSE "model-output", first, last, Cardinality(sent))
        BY <3>2, <3>5 DEF Describes
      <4>2. first \in 1 .. n /\ first < n + 1 /\ n + 1 \notin sent BY <2>1, <3>1
      <4>3. Cardinality(sent1) = Cardinality(sent) + 1 BY <3>1, <3>5, <4>2, FS_AddElement
      <4>4. seen[v].source = first BY <4>1 DEF Flow
      <4>5. new[v] = Flow(seen[v].kind, seen[v].source, n + 1, seen[v].outbound + 1)
        BY <3>3, <3>5, <4>2, <4>4
      <4>6. new[v] = Flow(IF first \in sent THEN "user-input" ELSE "model-output", first, n + 1, Cardinality(sent1))
        BY <4>1, <4>3, <4>5 DEF Flow
      <4>7. first \in sent1 <=> first \in sent BY <3>1, <4>2
      <4>8. first \in sent1 \cup heard1 /\ n + 1 \in sent1 /\ sent1 # {} BY <3>1, <3>5, <4>1
      <4>9. \A m \in sent1 \cup heard1 : first <= m BY <2>1, <3>1, <4>1, <4>2
      <4>10. \A m \in sent1 : m <= n + 1 BY <2>1, <3>1
      <4>11. new[v] = Flow(IF first \in sent1 THEN "user-input" ELSE "model-output", first, n + 1, Cardinality(sent1))
        BY <4>6, <4>7
      <4> QED BY <2>1, <3>4, <4>8, <4>9, <4>10, <4>11 DEF Describes
    <3>6. ASSUME v \in DOMAIN seen /\ v \notin c.asked PROVE Describes(new[v], sent1, heard1)
      <4>1. PICK first \in sent \cup heard, last \in Nat :
              /\ \A m \in sent \cup heard : first <= m
              /\ IF sent = {} THEN last = 0 ELSE last \in sent /\ \A m \in sent : m <= last
              /\ seen[v] = Flow(IF first \in sent THEN "user-input" ELSE "model-output", first, last, Cardinality(sent))
        BY <3>2, <3>6 DEF Describes
      <4>2. first \in 1 .. n /\ sent1 = sent /\ new[v] = seen[v] BY <3>1, <3>3, <3>6
      <4>3. first \in sent1 \cup heard1 /\ \A m \in sent1 \cup heard1 : first <= m BY <2>1, <3>1, <4>1, <4>2
      <4> QED BY <3>4, <4>1, <4>2, <4>3 DEF Describes
    <3>7. ASSUME v \notin DOMAIN seen /\ v \in c.asked PROVE Describes(new[v], sent1, heard1)
      <4>1. sent = {} /\ heard = {} /\ sent1 = {n + 1} /\ heard1 \subseteq {n + 1} BY <3>1, <3>2, <3>7
      <4>2. Cardinality(sent1) = 1 BY <4>1, FS_Singleton
      <4>3. new[v] = Flow("user-input", n + 1, n + 1, Cardinality(sent1)) BY <3>3, <3>7, <4>2
      <4>4. n + 1 \in sent1 /\ \A m \in sent1 \cup heard1 : n + 1 <= m /\ m <= n + 1 BY <2>1, <4>1
      <4> QED BY <2>1, <3>4, <4>3, <4>4 DEF Describes
    <3>8. ASSUME v \notin DOMAIN seen /\ v \notin c.asked /\ v \in c.answered PROVE Describes(new[v], sent1, heard1)
      <4>1. sent = {} /\ heard = {} /\ sent1 = {} /\ heard1 = {n + 1} BY <3>1, <3>2, <3>8
      <4>2. Cardinality(sent1) = 0 BY <4>1, FS_EmptySet
      <4>3. new[v] = Flow("model-output", n + 1, 0, Cardinality(sent1)) BY <3>3, <3>8, <4>2
      <4>4. n + 1 \in heard1 /\ n + 1 \notin sent1 /\ \A m \in sent1 \cup heard1 : n + 1 <= m BY <2>1, <4>1
      <4> QED BY <2>1, <3>4, <4>1, <4>3, <4>4 DEF Describes
    <3>9. v \in DOMAIN new => v \in DOMAIN seen \/ v \in c.asked \/ v \in c.answered BY <3>3
    <3> QED BY <3>4, <3>5, <3>6, <3>7, <3>8, <3>9 DEF sent1, heard1
  <2>5. SeenRight(new, turns, n + 1) BY <2>4 DEF SeenRight
  <2> QED BY <2>1, <2>5 DEF new
<1>3. \A n \in 0 .. Len(turns) : n \in P BY <1>1, <1>2, SetInduction
<1>4. Len(turns) \in P BY <1>3
<1> QED BY <1>4

-----------------------------------------------------------------------------
(* What the model brought up and a later request sends out *)

\* The request of a turn sends the value out.
Sends(f, v, i) == f[i].kind = "http" /\ v \in f[i].carries.asked

\* The response of turn i holds the value, no request sent it out until then, and that of k does.
LeaksAt(f, v, i, k) ==
  /\ i < k
  /\ f[i].kind = "http" /\ v \in f[i].carries.answered
  /\ Sends(f, v, k)
  /\ \A j \in 1 .. i : ~Sends(f, v, j)

Leaks(f) == \E v : \E i, k \in 1 .. Len(f) : LeaksAt(f, v, i, k)

HTTPPlaces(f) == {i \in DOMAIN f : f[i].kind = "http"}

LEMMA TurnsFacts ==
  ASSUME NEW S, NEW f \in Seq(S)
  PROVE  /\ HTTPTurns(f) \in Seq(S) /\ Len(HTTPTurns(f)) \in Nat /\ Len(f) \in Nat
         /\ DOMAIN HTTPTurns(f) = 1 .. Len(HTTPTurns(f)) /\ DOMAIN f = 1 .. Len(f)
         /\ \E at : Embeds(at, HTTPTurns(f), f, HTTPPlaces(f), Len(f))
         /\ \A i \in 1 .. Len(HTTPTurns(f)) : HTTPTurns(f)[i].kind = "http"
<1>1. HTTPTurns(f) = Picked(f, HTTPPlaces(f)) BY DEF HTTPTurns, HTTPPlaces
<1>2. HTTPTurns(f) \in Seq(S) BY <1>1, PickedFacts
<1>3. PICK at : Embeds(at, HTTPTurns(f), f, HTTPPlaces(f), Len(f)) BY <1>1, PickedFacts
<1>4. ASSUME NEW i \in 1 .. Len(HTTPTurns(f)) PROVE HTTPTurns(f)[i].kind = "http"
  <2>1. at[i] \in HTTPPlaces(f) /\ HTTPTurns(f)[i] = f[at[i]] BY <1>3 DEF Embeds
  <2> QED BY <2>1 DEF HTTPPlaces
<1> QED BY <1>2, <1>3, <1>4, LenProperties

\* A part of a recording that has a turn like j at j or before it, for each http turn j, leaks the
\* same.
LEMMA LeaksPart ==
  ASSUME NEW f, NEW part, NEW at, NEW places, Len(f) \in Nat, Len(part) \in Nat,
         Embeds(at, part, f, places, Len(f)),
         \A j \in 1 .. Len(f) : f[j].kind = "http" =>
           \E i \in (1 .. j) \cap places :
             f[i].kind = "http" /\ f[i].carries.asked = f[j].carries.asked /\ f[i].carries.answered = f[j].carries.answered
  PROVE  Leaks(part) <=> Leaks(f)
<1>1. /\ \A i \in 1 .. Len(part) : at[i] \in 1 .. Len(f) /\ part[i] = f[at[i]]
      /\ \A i, j \in 1 .. Len(part) : i < j => at[i] < at[j]
  BY DEF Embeds
<1>2. \A i, j \in 1 .. Len(part) : at[i] < at[j] => i < j
  <2> SUFFICES ASSUME NEW i \in 1 .. Len(part), NEW j \in 1 .. Len(part), at[i] < at[j], ~(i < j) PROVE FALSE
    OBVIOUS
  <2>1. i = j \/ j < i OBVIOUS
  <2>2. at[i] \in 1 .. Len(f) /\ at[j] \in 1 .. Len(f) BY <1>1
  <2> QED BY <1>1, <2>1, <2>2
<1>3. ASSUME NEW j \in 1 .. Len(f), f[j].kind = "http"
      PROVE  \E i \in 1 .. Len(part) :
               /\ at[i] \in 1 .. j /\ f[at[i]].kind = "http"
               /\ f[at[i]].carries.asked = f[j].carries.asked
               /\ f[at[i]].carries.answered = f[j].carries.answered
  <2>1. PICK n \in (1 .. j) \cap places :
          f[n].kind = "http" /\ f[n].carries.asked = f[j].carries.asked /\ f[n].carries.answered = f[j].carries.answered
    BY <1>3
  <2>2. n \in (1 .. Len(f)) \cap places BY <2>1
  <2>3. PICK i \in 1 .. Len(part) : at[i] = n BY <2>2 DEF Embeds
  <2> QED BY <2>1, <2>3
<1>4. \A v : \A i \in 1 .. Len(part) : Sends(part, v, i) <=> Sends(f, v, at[i]) BY <1>1 DEF Sends
<1>5. ASSUME NEW v, NEW i \in 1 .. Len(part), NEW k \in 1 .. Len(part), LeaksAt(part, v, i, k) PROVE Leaks(f)
  <2>1. at[i] < at[k] /\ f[at[i]].kind = "http" /\ v \in f[at[i]].carries.answered /\ Sends(f, v, at[k])
    BY <1>1, <1>4, <1>5 DEF LeaksAt
  <2>2. ASSUME NEW j \in 1 .. at[i], Sends(f, v, j) PROVE FALSE
    <3>1. at[i] \in 1 .. Len(f) BY <1>1
    <3>2. j \in 1 .. Len(f) /\ f[j].kind = "http" BY <2>2, <3>1 DEF Sends
    <3>3. PICK n \in 1 .. Len(part) :
            at[n] \in 1 .. j /\ f[at[n]].kind = "http" /\ f[at[n]].carries.asked = f[j].carries.asked
      BY <1>3, <3>2
    <3>4. Sends(part, v, n) BY <1>4, <2>2, <3>3 DEF Sends
    <3>5. ~(at[i] < at[n]) BY <3>1, <3>2, <3>3
    <3>6. n \in 1 .. i BY <1>1, <3>5
    <3> QED BY <1>5, <3>4, <3>6 DEF LeaksAt
  <2>3. LeaksAt(f, v, at[i], at[k]) BY <2>1, <2>2 DEF LeaksAt
  <2> QED BY <1>1, <2>3 DEF Leaks
<1>6. ASSUME NEW v, NEW i \in 1 .. Len(f), NEW k \in 1 .. Len(f), LeaksAt(f, v, i, k) PROVE Leaks(part)
  <2>1. PICK m \in 1 .. Len(part) :
          at[m] \in 1 .. i /\ f[at[m]].kind = "http" /\ f[at[m]].carries.answered = f[i].carries.answered
    BY <1>3, <1>6 DEF LeaksAt
  <2>2. PICK n \in 1 .. Len(part) :
          at[n] \in 1 .. k /\ f[at[n]].kind = "http" /\ f[at[n]].carries.asked = f[k].carries.asked
    BY <1>3, <1>6 DEF LeaksAt, Sends
  <2>3. Sends(f, v, at[n]) BY <1>6, <2>2 DEF LeaksAt, Sends
  <2>4. at[n] \notin 1 .. i BY <1>6, <2>3 DEF LeaksAt
  <2>5. m < n BY <1>2, <2>1, <2>2, <2>4
  <2>6. part[m].kind = "http" /\ v \in part[m].carries.answered /\ Sends(part, v, n)
    BY <1>1, <1>4, <1>6, <2>1, <2>3 DEF LeaksAt
  <2>7. ASSUME NEW j \in 1 .. m PROVE ~Sends(part, v, j)
    <3>1. j \in 1 .. Len(part) /\ (j = m \/ j < m) OBVIOUS
    <3>2. at[j] \in 1 .. Len(f) /\ at[j] <= at[m] BY <1>1, <3>1
    <3>3. at[j] \in 1 .. i BY <2>1, <3>2
    <3> QED BY <1>4, <1>6, <3>1, <3>3 DEF LeaksAt
  <2>8. LeaksAt(part, v, m, n) BY <2>5, <2>6, <2>7 DEF LeaksAt
  <2> QED BY <2>8 DEF Leaks
<1> QED BY <1>5, <1>6 DEF Leaks

\* Only http turns matter to a leak.
LEMMA LeaksTurns ==
  ASSUME NEW S, NEW f \in Seq(S)
  PROVE  Leaks(HTTPTurns(f)) <=> Leaks(f)
<1>1. PICK at : Embeds(at, HTTPTurns(f), f, HTTPPlaces(f), Len(f)) BY TurnsFacts
<1>2. Len(HTTPTurns(f)) \in Nat /\ Len(f) \in Nat /\ DOMAIN f = 1 .. Len(f) BY TurnsFacts
<1>3. \A j \in 1 .. Len(f) : f[j].kind = "http" => j \in (1 .. j) \cap HTTPPlaces(f) BY <1>2 DEF HTTPPlaces
<1> QED BY <1>1, <1>2, <1>3, LeaksPart

\* Taint finds the leaks.
LEMMA ExfilsLeak ==
  ASSUME NEW S, NEW f \in Seq(S)
  PROVE  Exfils(Taint(f)) # {} <=> Leaks(f)
<1> DEFINE turns == HTTPTurns(f)
           seen  == FlowsUpTo(turns)[Len(turns)]
           sent(v)  == SentIn(turns, v, Len(turns))
           heard(v) == HeardIn(turns, v, Len(turns))
<1>1. Len(turns) \in Nat /\ \A i \in 1 .. Len(turns) : turns[i].kind = "http" BY TurnsFacts
<1>2. SeenRight(seen, turns, Len(turns)) BY <1>1, SeenFacts
<1>3. Taint(f) = [v \in {w \in DOMAIN seen : seen[w].sink > seen[w].source} |-> seen[v]] BY DEF Taint
<1>4. \A v : v \in Exfils(Taint(f)) <=>
        v \in DOMAIN seen /\ seen[v].sink > seen[v].source /\ seen[v].kind = "model-output"
  BY <1>3 DEF Exfils
<1> HIDE DEF turns, seen
<1>5. ASSUME NEW v \in Exfils(Taint(f)) PROVE Leaks(turns)
  <2>1. v \in DOMAIN seen /\ seen[v].sink > seen[v].source /\ seen[v].kind = "model-output" BY <1>4, <1>5
  <2>2. PICK first \in sent(v) \cup heard(v), last \in Nat :
          /\ \A m \in sent(v) \cup heard(v) : first <= m
          /\ IF sent(v) = {} THEN last = 0 ELSE last \in sent(v) /\ \A m \in sent(v) : m <= last
          /\ seen[v] = Flow(IF first \in sent(v) THEN "user-input" ELSE "model-output", first, last, Cardinality(sent(v)))
    BY <1>2, <2>1 DEF SeenRight, Describes
  <2>3. seen[v].sink = last /\ seen[v].source = first /\ first \notin sent(v) BY <2>1, <2>2 DEF Flow
  <2>4. first \in heard(v) /\ first \in 1 .. Len(turns) BY <2>2, <2>3 DEF HeardIn
  <2>5. last \in sent(v) /\ last \in 1 .. Len(turns) BY <2>1, <2>2, <2>3, <2>4 DEF SentIn
  <2>6. first < last BY <2>1, <2>3, <2>4, <2>5
  <2>7. \A j \in 1 .. first : j \notin sent(v) BY <1>1, <2>2, <2>3, <2>4
  <2>8. \A j \in 1 .. Len(turns) : Sends(turns, v, j) <=> j \in sent(v) BY <1>1 DEF Sends, SentIn
  <2>9. \A j \in 1 .. first : ~Sends(turns, v, j) BY <1>1, <2>4, <2>7, <2>8
  <2>10. turns[first].kind = "http" /\ v \in turns[first].carries.answered BY <1>1, <2>4 DEF HeardIn
  <2>11. LeaksAt(turns, v, first, last) BY <2>5, <2>6, <2>8, <2>9, <2>10 DEF LeaksAt
  <2> QED BY <2>4, <2>5, <2>11 DEF Leaks
<1>6. ASSUME NEW v, NEW i \in 1 .. Len(turns), NEW k \in 1 .. Len(turns), LeaksAt(turns, v, i, k)
      PROVE  v \in Exfils(Taint(f))
  <2>1. i \in heard(v) /\ k \in sent(v) /\ i < k /\ \A j \in 1 .. i : j \notin sent(v)
    BY <1>1, <1>6 DEF LeaksAt, Sends, SentIn, HeardIn
  <2>2. v \in DOMAIN seen BY <1>2, <2>1 DEF SeenRight
  <2>3. PICK first \in sent(v) \cup heard(v), last \in Nat :
          /\ \A m \in sent(v) \cup heard(v) : first <= m
          /\ IF sent(v) = {} THEN last = 0 ELSE last \in sent(v) /\ \A m \in sent(v) : m <= last
          /\ seen[v] = Flow(IF first \in sent(v) THEN "user-input" ELSE "model-output", first, last, Cardinality(sent(v)))
    BY <1>2, <2>2 DEF SeenRight, Describes
  <2>4. first \in 1 .. Len(turns) /\ first <= i BY <2>1, <2>3 DEF SentIn, HeardIn
  <2>5. first \notin sent(v) BY <1>1, <2>1, <2>4
  <2>6. k <= last BY <2>1, <2>3
  <2>7. seen[v].sink = last /\ seen[v].source = first /\ seen[v].kind = "model-output" BY <2>3, <2>5 DEF Flow
  <2>8. last > first BY <1>1, <2>1, <2>4, <2>6
  <2> QED BY <1>4, <2>2, <2>7, <2>8
<1>7. Exfils(Taint(f)) # {} <=> Leaks(turns) BY <1>5, <1>6 DEF Leaks
<1> QED BY <1>7, LeaksTurns DEF turns

\* Where a value was first, and where it was sent last.
FirstOf(places) == CHOOSE n \in places : \A m \in places : n <= m
LastOf(places)  == CHOOSE n \in places : \A m \in places : m <= n

LEMMA OnlyFirst ==
  ASSUME NEW places, places \subseteq Nat, NEW n \in places, \A m \in places : n <= m
  PROVE  FirstOf(places) = n
<1>1. FirstOf(places) \in places /\ \A m \in places : FirstOf(places) <= m BY DEF FirstOf
<1>2. FirstOf(places) \in Nat /\ n \in Nat BY <1>1
<1>3. FirstOf(places) <= n /\ n <= FirstOf(places) BY <1>1
<1> HIDE DEF FirstOf
<1> QED BY <1>2, <1>3

LEMMA OnlyLast ==
  ASSUME NEW places, places \subseteq Nat, NEW n \in places, \A m \in places : m <= n
  PROVE  LastOf(places) = n
<1>1. LastOf(places) \in places /\ \A m \in places : m <= LastOf(places) BY DEF LastOf
<1>2. LastOf(places) \in Nat /\ n \in Nat BY <1>1
<1>3. LastOf(places) <= n /\ n <= LastOf(places) BY <1>1
<1> HIDE DEF LastOf
<1> QED BY <1>2, <1>3

\* Taint names the values that are sent later than they were first seen, each with its places.
LEMMA TaintExact ==
  ASSUME NEW S, NEW f \in Seq(S)
  PROVE  LET turns    == HTTPTurns(f)
             Sent(v)  == {n \in DOMAIN turns : v \in turns[n].carries.asked}
             Heard(v) == {n \in DOMAIN turns : v \in turns[n].carries.answered}
             First(v) == CHOOSE n \in Sent(v) \cup Heard(v) : \A m \in Sent(v) \cup Heard(v) : n <= m
             Last1(v) == CHOOSE n \in Sent(v) : \A m \in Sent(v) : m <= n
             Values   == UNION {turns[n].carries.asked : n \in DOMAIN turns}
             Crossing == {v \in Values : First(v) < Last1(v)}
             Expected(v) == Flow(IF First(v) \in Sent(v) THEN "user-input" ELSE "model-output",
                                 First(v), Last1(v), Cardinality(Sent(v)))
         IN  /\ Taint(f) = [v \in Crossing |-> Expected(v)]
             /\ \A v \in Crossing : Last1(v) \in Sent(v)
<1> DEFINE turns    == HTTPTurns(f)
           seen     == FlowsUpTo(turns)[Len(turns)]
           Sent(v)  == {n \in DOMAIN turns : v \in turns[n].carries.asked}
           Heard(v) == {n \in DOMAIN turns : v \in turns[n].carries.answered}
           First(v) == CHOOSE n \in Sent(v) \cup Heard(v) : \A m \in Sent(v) \cup Heard(v) : n <= m
           Last1(v) == CHOOSE n \in Sent(v) : \A m \in Sent(v) : m <= n
           Values   == UNION {turns[n].carries.asked : n \in DOMAIN turns}
           Crossing == {v \in Values : First(v) < Last1(v)}
           Expected(v) == Flow(IF First(v) \in Sent(v) THEN "user-input" ELSE "model-output",
                               First(v), Last1(v), Cardinality(Sent(v)))
           Flowing  == {w \in DOMAIN seen : seen[w].sink > seen[w].source}
<1>1. Len(turns) \in Nat /\ DOMAIN turns = 1 .. Len(turns) BY TurnsFacts
<1>a. SeenRight(seen, turns, Len(turns)) BY <1>1, SeenFacts
<1>3. Taint(f) = [v \in Flowing |-> seen[v]] BY DEF Taint
<1> HIDE DEF turns, seen
<1>b. \A v : Sent(v) = SentIn(turns, v, Len(turns)) /\ Heard(v) = HeardIn(turns, v, Len(turns))
  BY <1>1 DEF SentIn, HeardIn
<1>2. \A v : /\ v \in DOMAIN seen <=> Sent(v) \cup Heard(v) # {}
             /\ v \in DOMAIN seen => Describes(seen[v], Sent(v), Heard(v))
  <2> HIDE DEF Sent, Heard
  <2> QED BY <1>a, <1>b DEF SeenRight
<1>c. \A v : First(v) = FirstOf(Sent(v) \cup Heard(v)) /\ Last1(v) = LastOf(Sent(v)) BY DEF FirstOf, LastOf
<1>4. \A v : v \in Values <=> Sent(v) # {} OBVIOUS
<1>5. \A v : Sent(v) \subseteq 1 .. Len(turns) /\ Heard(v) \subseteq 1 .. Len(turns) BY <1>1
<1> HIDE DEF Sent, Heard, First, Last1, Expected, Values
<1>6. ASSUME NEW v \in DOMAIN seen
      PROVE  /\ Sent(v) = {} => v \notin Flowing
             /\ Sent(v) # {} => /\ Last1(v) \in Sent(v)
                                /\ seen[v] = Expected(v)
                                /\ v \in Flowing <=> First(v) < Last1(v)
  <2>1. PICK first \in Sent(v) \cup Heard(v), last \in Nat :
          /\ \A m \in Sent(v) \cup Heard(v) : first <= m
          /\ IF Sent(v) = {} THEN last = 0 ELSE last \in Sent(v) /\ \A m \in Sent(v) : m <= last
          /\ seen[v] = Flow(IF first \in Sent(v) THEN "user-input" ELSE "model-output", first, last, Cardinality(Sent(v)))
    BY <1>2 DEF Describes
  <2>2. seen[v].sink = last /\ seen[v].source = first BY <2>1 DEF Flow
  <2>3. first \in 1 .. Len(turns) BY <1>5, <2>1
  <2>4. Sent(v) \cup Heard(v) \subseteq Nat /\ Sent(v) \subseteq Nat BY <1>1, <1>5
  <2>5. first = First(v) BY <1>c, <2>1, <2>4, OnlyFirst
  <2>6. Sent(v) # {} => last \in Sent(v) /\ last = Last1(v) BY <1>c, <2>1, <2>4, OnlyLast
  <2>7. Sent(v) = {} => v \notin Flowing BY <2>1, <2>2, <2>3
  <2>8. v \in Flowing <=> last > first BY <2>2
  <2>9. last > first <=> first < last BY <1>1, <2>1, <2>3
  <2> HIDE DEF Flowing
  <2>10. ASSUME Sent(v) # {} PROVE last \in Sent(v) /\ last = Last1(v) /\ seen[v] = Expected(v)
    BY <2>1, <2>5, <2>6, <2>10 DEF Expected
  <2>11. ASSUME Sent(v) # {} PROVE v \in Flowing <=> First(v) < Last1(v) BY <2>5, <2>8, <2>9, <2>10, <2>11
  <2> QED BY <2>7, <2>10, <2>11
<1>7. \A v : Sent(v) # {} => v \in DOMAIN seen BY <1>2
<1>8. Crossing = Flowing
  <2> HIDE DEF Flowing
  <2>1. \A v \in Crossing : v \in Flowing BY <1>4, <1>6, <1>7
  <2>2. Flowing \subseteq DOMAIN seen BY DEF Flowing
  <2>3. ASSUME NEW v \in Flowing PROVE v \in Crossing
    <3>1. v \in DOMAIN seen BY <2>2
    <3>2. Sent(v) # {} /\ First(v) < Last1(v) BY <1>6, <2>3, <3>1
    <3> QED BY <1>4, <3>2
  <2> QED BY <2>1, <2>3
<1>9. \A v \in Crossing : seen[v] = Expected(v) /\ Last1(v) \in Sent(v) BY <1>4, <1>6, <1>7
<1> HIDE DEF Crossing, Flowing
<1>10. [v \in Flowing |-> seen[v]] = [v \in Crossing |-> Expected(v)] BY <1>8, <1>9
<1> QED BY <1>3, <1>9, <1>10 DEF turns, Sent, Heard, Values, First, Last1, Crossing, Expected
-----------------------------------------------------------------------------
(* Copies *)

LEMMA Interactions == \A it \in Recorded : IsInteraction(it)
<1>1. ASSUME NEW it \in Spoken PROVE IsInteraction(it) BY AgentsAssumption DEF Spoken
<1>2. ASSUME NEW it \in Listings PROVE IsInteraction(it)
  <2>1. PICK tools \in Servers : it = ListTools(tools) BY <1>2 DEF Listings
  <2>2. it.carries = Carries({}, {}, {}) BY <2>1 DEF ListTools
  <2>3. it.carries = Carries(it.carries.asked, it.carries.beside, it.carries.answered) BY <2>2 DEF Carries
  <2> QED BY <2>1, <2>3 DEF IsInteraction, ListTools
<1>3. ASSUME NEW it \in Calls PROVE IsInteraction(it)
  <2>1. PICK call, error : it = CallTool(call, Carries({}, {}, {}), error) BY <1>3 DEF Calls
  <2>2. it.carries = Carries({}, {}, {}) BY <2>1 DEF CallTool
  <2>3. it.carries = Carries(it.carries.asked, it.carries.beside, it.carries.answered) BY <2>2 DEF Carries
  <2> QED BY <2>1, <2>3 DEF IsInteraction, CallTool
<1> QED BY <1>1, <1>2, <1>3 DEF Recorded

\* What two copies share: all but the headers.
LEMMA Copies ==
  ASSUME NEW a, NEW b, IsInteraction(a), IsInteraction(b)
  PROVE  Identity(a) = Identity(b) =>
           /\ a.kind = b.kind /\ a.calls = b.calls
           /\ a.carries.asked = b.carries.asked /\ a.carries.answered = b.carries.answered
<1>1. ASSUME NEW it, IsInteraction(it)
      PROVE  /\ Identity(it).kind = it.kind /\ Identity(it).calls = it.calls
             /\ Identity(it).carries.asked = it.carries.asked
             /\ Identity(it).carries.answered = it.carries.answered
  <2>1. it = [kind |-> it.kind, method |-> it.method, call |-> it.call, carries |-> it.carries,
              tools |-> it.tools, calls |-> it.calls, error |-> it.error]
    BY <1>1 DEF IsInteraction
  <2>2. it.carries = [asked |-> it.carries.asked, beside |-> it.carries.beside, answered |-> it.carries.answered]
    BY <1>1 DEF IsInteraction, Carries
  <2> QED BY <2>1, <2>2 DEF Identity, Carries
<1> QED BY <1>1

\* The first of each group of copies.
Firsts(f) == {i \in DOMAIN f : \A k \in 1 .. (i - 1) : Identity(f[k]) # Identity(f[i])}

LEMMA FirstCopy ==
  ASSUME NEW S, NEW f \in Seq(S), NEW j \in 1 .. Len(f)
  PROVE  \E i \in (1 .. j) \cap Firsts(f) : Identity(f[i]) = Identity(f[j])
<1> DEFINE T == {i \in 1 .. j : Identity(f[i]) = Identity(f[j])}
<1>1. Len(f) \in Nat /\ DOMAIN f = 1 .. Len(f) BY LenProperties
<1>2. T \subseteq Nat /\ j \in T BY <1>1
<1>3. PICK i \in T : \A k \in T : ~(k < i) BY <1>2, LeastNatural
<1>4. i \in 1 .. j /\ Identity(f[i]) = Identity(f[j]) BY <1>3
<1>5. ASSUME NEW k \in 1 .. (i - 1), Identity(f[k]) = Identity(f[i]) PROVE FALSE
  <2>1. k \in T /\ k < i BY <1>1, <1>4, <1>5
  <2> QED BY <1>3, <2>1
<1>6. i \in Firsts(f) BY <1>1, <1>4, <1>5 DEF Firsts
<1> QED BY <1>4, <1>6

LEMMA Flattened ==
  /\ \A f : FlattenSeq(<<f>>) = f
  /\ \A f, g : FlattenSeq(<<f, g>>) = f \o g
<1>1. ASSUME NEW f PROVE FlattenSeq(<<f>>) = f
  <2> DEFINE Is(h) == h = [i \in 1 .. Len(<<f>>) |-> IF i = 1 THEN <<f>>[i] ELSE h[i - 1] \o <<f>>[i]]
  <2>1. FlattenSeq(<<f>>) = (CHOOSE h : Is(h))[Len(<<f>>)] BY DEF FlattenSeq
  <2>2. Is([i \in 1 .. 1 |-> f]) OBVIOUS
  <2>3. Is(CHOOSE h : Is(h)) BY <2>2
  <2> DEFINE h == CHOOSE h : Is(h)
  <2>4. Is(h) BY <2>3
  <2> HIDE DEF h
  <2>5. h[1] = f BY <2>4
  <2> QED BY <2>1, <2>5 DEF h
<1>2. ASSUME NEW f, NEW g PROVE FlattenSeq(<<f, g>>) = f \o g
  <2> DEFINE fg == <<f, g>>
             Is(h) == h = [i \in 1 .. Len(fg) |-> IF i = 1 THEN fg[i] ELSE h[i - 1] \o fg[i]]
  <2>0. Len(fg) = 2 /\ fg[1] = f /\ fg[2] = g OBVIOUS
  <2>1. FlattenSeq(fg) = (CHOOSE h : Is(h))[Len(fg)] BY <2>0 DEF FlattenSeq
  <2> HIDE DEF fg
  <2>2. Is([i \in 1 .. 2 |-> IF i = 1 THEN f ELSE f \o g]) BY <2>0
  <2>3. Is(CHOOSE h : Is(h)) BY <2>2
  <2> DEFINE h == CHOOSE h : Is(h)
  <2>4. Is(h) BY <2>3
  <2> HIDE DEF h
  <2>a. 1 \in 1 .. Len(fg) /\ 2 \in 1 .. Len(fg) /\ 2 - 1 = 1 /\ 2 # 1 BY <2>0
  <2>b. \A i \in 1 .. Len(fg) : h[i] = IF i = 1 THEN fg[i] ELSE h[i - 1] \o fg[i] BY <2>4
  <2> HIDE DEF Is
  <2>5. h[1] = f /\ h[2] = h[1] \o g BY <2>0, <2>a, <2>b
  <2> QED BY <2>0, <2>1, <2>5 DEF h, fg
<1> QED BY <1>1, <1>2

\* A merge keeps the first copies, and it leaks what its sources leak.
LEMMA MergeFacts ==
  ASSUME NEW files, NEW S, FlattenSeq(files) \in Seq(S), \A it \in S : IsInteraction(it)
  PROVE  /\ Merge(files) \in Seq(S)
         /\ \A i \in DOMAIN Merge(files) : \E j \in Firsts(FlattenSeq(files)) : Merge(files)[i] = FlattenSeq(files)[j]
         /\ \A j \in Firsts(FlattenSeq(files)) : \E i \in DOMAIN Merge(files) : Merge(files)[i] = FlattenSeq(files)[j]
         /\ Leaks(Merge(files)) <=> Leaks(FlattenSeq(files))
<1> DEFINE f == FlattenSeq(files)
           merged == Merge(files)
<1>1. merged = Picked(f, Firsts(f)) BY DEF Merge, Firsts
<1>2. merged \in Seq(S) BY <1>1, PickedFacts
<1>3. PICK at : Embeds(at, merged, f, Firsts(f), Len(f)) BY <1>1, PickedFacts
<1> HIDE DEF merged, f
<1>4. f \in Seq(S) BY DEF f
<1>5. /\ Len(f) \in Nat /\ DOMAIN f = 1 .. Len(f) /\ \A j \in 1 .. Len(f) : f[j] \in S
      /\ Len(merged) \in Nat /\ DOMAIN merged = 1 .. Len(merged)
  BY <1>2, <1>4, LenProperties, ElementOfSeq
<1>6. \A i \in DOMAIN merged : at[i] \in Firsts(f) /\ merged[i] = f[at[i]] BY <1>3, <1>5 DEF Embeds
<1>7. ASSUME NEW j \in Firsts(f) PROVE \E i \in DOMAIN merged : merged[i] = f[j]
  <2>1. j \in (1 .. Len(f)) \cap Firsts(f) BY <1>5 DEF Firsts
  <2>2. PICK i \in 1 .. Len(merged) : at[i] = j BY <1>3, <2>1 DEF Embeds
  <2> QED BY <1>5, <1>6, <2>2
<1>8. ASSUME NEW j \in 1 .. Len(f), f[j].kind = "http"
      PROVE  \E i \in (1 .. j) \cap Firsts(f) :
               f[i].kind = "http" /\ f[i].carries.asked = f[j].carries.asked /\ f[i].carries.answered = f[j].carries.answered
  <2>1. PICK i \in (1 .. j) \cap Firsts(f) : Identity(f[i]) = Identity(f[j]) BY <1>4, FirstCopy
  <2>2. i \in 1 .. Len(f) BY <1>5, <2>1
  <2>3. IsInteraction(f[i]) /\ IsInteraction(f[j]) BY <1>5, <2>2
  <2> QED BY <1>8, <2>1, <2>3, Copies
<1>9. Leaks(merged) <=> Leaks(f) BY <1>3, <1>5, <1>8, LeaksPart
<1> QED BY <1>2, <1>6, <1>7, <1>9 DEF merged, f

-----------------------------------------------------------------------------
(* Verdicts of a policy *)

HasSecret(it)          == SecretsIn(it) # {}
SendsForbidden(p, it)  == \E v \in Outbound(it) : v.class \in p.forbidden

\* What each rule says of the files.
LEMMA PolicyFacts ==
  ASSUME NEW files, NEW S, FlattenSeq(files) \in Seq(S), \A it \in S : IsInteraction(it), NEW p
  PROVE  LET all   == FlattenSeq(files)
             fails == CheckPolicy(p, files)
         IN  /\ "secrets" \in fails <=> p.secrets /\ \E j \in Firsts(all) : HasSecret(all[j])
             /\ "egress" \in fails <=> \E j \in Firsts(all) : SendsForbidden(p, all[j])
             /\ "exfil" \in fails <=> p.exfil /\ Leaks(all)
             /\ "coverage" \in fails <=> ~(p.tools \subseteq ToolsExercised(files))
<1> DEFINE all    == FlattenSeq(files)
           merged == Merge(files)
           b      == BuildAudit(files)
           fails  == CheckPolicy(p, files)
<1>1. b.egress = EgressAudit(merged) /\ b.taint = Taint(merged) /\ b.tools = ToolsExercised(files) BY DEF BuildAudit
<1>2. /\ "secrets" \in fails <=> p.secrets /\ \E i \in DOMAIN merged : HasSecret(merged[i])
      /\ "egress" \in fails <=> \E e \in b.egress : e[2] \in p.forbidden
      /\ "exfil" \in fails <=> p.exfil /\ Exfils(b.taint) # {}
      /\ "coverage" \in fails <=> ~(p.tools \subseteq b.tools)
  BY DEF CheckPolicy, HasSecret
<1>3. /\ merged \in Seq(S)
      /\ \A i \in DOMAIN merged : \E j \in Firsts(all) : merged[i] = all[j]
      /\ \A j \in Firsts(all) : \E i \in DOMAIN merged : merged[i] = all[j]
      /\ Leaks(merged) <=> Leaks(all)
  BY MergeFacts
<1> HIDE DEF all, merged, b, fails
<1>4. (\E e \in EgressAudit(merged) : e[2] \in p.forbidden) <=> \E i \in DOMAIN merged : SendsForbidden(p, merged[i])
  <2>1. ASSUME NEW e \in EgressAudit(merged), e[2] \in p.forbidden
        PROVE  \E i \in DOMAIN merged : SendsForbidden(p, merged[i])
    <3>1. PICK i \in DOMAIN merged : e \in {<<i, v.class>> : v \in Outbound(merged[i])} BY <2>1 DEF EgressAudit
    <3>2. PICK v \in Outbound(merged[i]) : e = <<i, v.class>> BY <3>1
    <3>3. v.class \in p.forbidden BY <2>1, <3>2
    <3> QED BY <3>3 DEF SendsForbidden
  <2>2. ASSUME NEW i \in DOMAIN merged, NEW v \in Outbound(merged[i]), v.class \in p.forbidden
        PROVE  \E e \in EgressAudit(merged) : e[2] \in p.forbidden
    <3>1. <<i, v.class>> \in EgressAudit(merged) BY DEF EgressAudit
    <3>2. <<i, v.class>>[2] = v.class OBVIOUS
    <3> QED BY <2>2, <3>1, <3>2
  <2> QED BY <2>1, <2>2 DEF SendsForbidden
<1>5. Exfils(Taint(merged)) # {} <=> Leaks(merged) BY <1>3, ExfilsLeak
<1>6. "secrets" \in fails <=> p.secrets /\ \E j \in Firsts(all) : HasSecret(all[j]) BY <1>2, <1>3
<1>7. "egress" \in fails <=> \E j \in Firsts(all) : SendsForbidden(p, all[j]) BY <1>1, <1>2, <1>3, <1>4
<1>8. "exfil" \in fails <=> p.exfil /\ Leaks(all) BY <1>1, <1>2, <1>3, <1>5
<1>9. "coverage" \in fails <=> ~(p.tools \subseteq ToolsExercised(files)) BY <1>1, <1>2
<1> QED BY <1>6, <1>7, <1>8, <1>9 DEF all, fails

-----------------------------------------------------------------------------
(* The verdicts on a session *)

LEMMA FlowsTracedHolds == TypeOK => FlowsTraced
<1> SUFFICES ASSUME TypeOK PROVE FlowsTraced OBVIOUS
<1> DEFINE turns    == HTTPTurns(current)
           Sent(v)  == {n \in DOMAIN turns : v \in turns[n].carries.asked}
           Heard(v) == {n \in DOMAIN turns : v \in turns[n].carries.answered}
           First(v) == CHOOSE n \in Sent(v) \cup Heard(v) : \A m \in Sent(v) \cup Heard(v) : n <= m
           Last1(v) == CHOOSE n \in Sent(v) : \A m \in Sent(v) : m <= n
           Values   == UNION {turns[n].carries.asked : n \in DOMAIN turns}
           Crossing == {v \in Values : First(v) < Last1(v)}
           Expected(v) == Flow(IF First(v) \in Sent(v) THEN "user-input" ELSE "model-output",
                               First(v), Last1(v), Cardinality(Sent(v)))
<1>1. current \in Seq(Recorded) BY DEF TypeOK
<1>2. Taint(current) = [v \in Crossing |-> Expected(v)] BY <1>1, TaintExact
<1>3. \A v \in Crossing : Last1(v) \in Sent(v) BY <1>1, TaintExact
<1>4. ASSUME NEW p \in Policies, p.exfil
      PROVE  "exfil" \in CheckPolicy(p, <<current>>) <=> Exfils(Taint(current)) # {}
  <2>1. FlattenSeq(<<current>>) = current BY Flattened
  <2>2. "exfil" \in CheckPolicy(p, <<current>>) <=> p.exfil /\ Leaks(current)
    BY <1>1, <2>1, Interactions, PolicyFacts
  <2> QED BY <1>1, <1>4, <2>2, ExfilsLeak
<1>5. PICK at : Embeds(at, turns, current, HTTPPlaces(current), Len(current)) BY <1>1, TurnsFacts
<1>6. DOMAIN turns = 1 .. Len(turns) /\ DOMAIN current = 1 .. Len(current) BY <1>1, TurnsFacts
<1> HIDE DEF turns, First, Last1, Values, Expected
<1>7. ASSUME NEW v \in Crossing
      PROVE  \E e \in EgressAudit(current) : e[2] = v.class /\ turns[Last1(v)] = current[e[1]]
  <2> DEFINE last == Last1(v)
             e == <<at[last], v.class>>
  <2>1. last \in Sent(v) BY <1>3
  <2>2. last \in DOMAIN turns /\ v \in turns[last].carries.asked BY <2>1
  <2> HIDE DEF last
  <2>3. at[last] \in DOMAIN current /\ turns[last] = current[at[last]] BY <1>5, <1>6, <2>2 DEF Embeds
  <2>4. v \in Outbound(current[at[last]]) BY <2>2, <2>3 DEF Outbound
  <2>5. e \in EgressAudit(current) BY <2>3, <2>4 DEF EgressAudit
  <2>6. e[1] = at[last] /\ e[2] = v.class OBVIOUS
  <2> HIDE DEF e
  <2> QED BY <2>3, <2>5, <2>6 DEF last
<1> HIDE DEF Crossing, Sent, Heard
<1>8. \E flows \in {Taint(current)} :
        /\ flows = [v \in Crossing |-> Expected(v)]
        /\ \A p \in Policies : p.exfil => ("exfil" \in CheckPolicy(p, <<current>>) <=> Exfils(flows) # {})
  BY <1>2, <1>4
<1> QED BY <1>7, <1>8 DEF FlowsTraced, turns, Sent, Heard, First, Last1, Values, Crossing, Expected

-----------------------------------------------------------------------------
(* The verdicts on a corpus *)

LEMMA Joined ==
  ASSUME NEW S, NEW f \in Seq(S), NEW g \in Seq(S)
  PROVE  /\ f \o g \in Seq(S)
         /\ Len(f) \in Nat /\ Len(g) \in Nat /\ Len(f \o g) = Len(f) + Len(g)
         /\ DOMAIN f = 1 .. Len(f) /\ DOMAIN g = 1 .. Len(g) /\ DOMAIN (f \o g) = 1 .. (Len(f) + Len(g))
         /\ \A j \in 1 .. Len(f) : (f \o g)[j] = f[j]
         /\ \A j \in 1 .. Len(g) : (f \o g)[Len(f) + j] = g[j]
<1>1. /\ f \o g \in Seq(S) /\ Len(f \o g) = Len(f) + Len(g)
      /\ \A j \in 1 .. Len(f) + Len(g) : (f \o g)[j] = IF j <= Len(f) THEN f[j] ELSE g[j - Len(f)]
  BY ConcatProperties
<1>2. /\ Len(f) \in Nat /\ Len(g) \in Nat
      /\ DOMAIN f = 1 .. Len(f) /\ DOMAIN g = 1 .. Len(g) /\ DOMAIN (f \o g) = 1 .. (Len(f) + Len(g))
  BY <1>1, LenProperties
<1> DEFINE all == f \o g
<1> HIDE DEF all
<1>3. \A j \in 1 .. Len(f) + Len(g) : all[j] = IF j <= Len(f) THEN f[j] ELSE g[j - Len(f)] BY <1>1 DEF all
<1>4. \A j \in 1 .. Len(f) : all[j] = f[j] BY <1>2, <1>3
<1>5. ASSUME NEW j \in 1 .. Len(g) PROVE all[Len(f) + j] = g[j]
  <2>1. Len(f) + j \in 1 .. Len(f) + Len(g) /\ ~(Len(f) + j <= Len(f)) /\ (Len(f) + j) - Len(f) = j BY <1>2
  <2> QED BY <1>3, <2>1
<1> QED BY <1>1, <1>2, <1>4, <1>5 DEF all

\* What a corpus keeps its recordings keep.
LEMMA FirstsJoined ==
  ASSUME NEW S, NEW f \in Seq(S), NEW g \in Seq(S), NEW j \in Firsts(f \o g)
  PROVE  \/ \E i \in Firsts(f) : f[i] = (f \o g)[j]
         \/ \E i \in Firsts(g) : g[i] = (f \o g)[j]
<1> DEFINE all == f \o g
<1>1. /\ Len(f) \in Nat /\ Len(g) \in Nat
      /\ DOMAIN f = 1 .. Len(f) /\ DOMAIN g = 1 .. Len(g) /\ DOMAIN all = 1 .. (Len(f) + Len(g))
      /\ \A n \in 1 .. Len(f) : all[n] = f[n]
      /\ \A n \in 1 .. Len(g) : all[Len(f) + n] = g[n]
  BY Joined
<1>2. j \in DOMAIN all /\ \A k \in 1 .. (j - 1) : Identity(all[k]) # Identity(all[j]) BY DEF Firsts
<1> HIDE DEF all
<1>3. CASE j <= Len(f)
  <2>1. j \in 1 .. Len(f) /\ all[j] = f[j] BY <1>1, <1>2, <1>3
  <2>2. \A k \in 1 .. (j - 1) : all[k] = f[k] BY <1>1, <2>1
  <2>3. j \in Firsts(f) BY <1>1, <1>2, <2>1, <2>2 DEF Firsts
  <2> QED BY <2>1, <2>3 DEF all
<1>4. CASE j > Len(f)
  <2> DEFINE i == j - Len(f)
  <2>1. i \in 1 .. Len(g) /\ j = Len(f) + i BY <1>1, <1>2, <1>4
  <2> HIDE DEF i
  <2>2. all[j] = g[i] BY <1>1, <2>1
  <2>3. ASSUME NEW k \in 1 .. (i - 1) PROVE Identity(g[k]) # Identity(g[i])
    <3>1. k \in 1 .. Len(g) /\ Len(f) + k \in 1 .. (j - 1) BY <1>1, <2>1
    <3>2. all[Len(f) + k] = g[k] BY <1>1, <3>1
    <3> QED BY <1>2, <2>2, <3>1, <3>2
  <2>4. i \in Firsts(g) BY <1>1, <2>1, <2>3 DEF Firsts
  <2> QED BY <2>2, <2>4 DEF all
<1>5. j <= Len(f) \/ j > Len(f) BY <1>1, <1>2
<1> QED BY <1>3, <1>4, <1>5

\* The values that the bodies of http turns and calls carry.
Carried(f) == UNION {f[i].carries.asked \cup f[i].carries.answered : i \in DOMAIN f}

LEMMA LeaksJoined ==
  ASSUME NEW S, NEW f \in Seq(S), NEW g \in Seq(S), Carried(f) \cap Carried(g) = {}
  PROVE  Leaks(f \o g) <=> Leaks(f) \/ Leaks(g)
<1> DEFINE all == f \o g
           n == Len(f)
<1>1. /\ n \in Nat /\ Len(g) \in Nat /\ Len(all) = n + Len(g)
      /\ DOMAIN f = 1 .. n /\ DOMAIN g = 1 .. Len(g)
      /\ \A j \in 1 .. n : all[j] = f[j]
      /\ \A j \in 1 .. Len(g) : all[n + j] = g[j]
  BY Joined
<1> HIDE DEF all, n
<1>2. /\ \A v : \A j \in 1 .. n : Sends(all, v, j) <=> Sends(f, v, j)
      /\ \A v : \A j \in 1 .. Len(g) : Sends(all, v, n + j) <=> Sends(g, v, j)
  BY <1>1 DEF Sends
<1>3. ASSUME NEW v, NEW j \in 1 .. n, v \in f[j].carries.answered \/ Sends(f, v, j),
             NEW k \in 1 .. Len(g), v \in g[k].carries.answered \/ Sends(g, v, k)
      PROVE  FALSE
  <2>1. v \in Carried(f) BY <1>1, <1>3 DEF Carried, Sends
  <2>2. v \in Carried(g) BY <1>1, <1>3 DEF Carried, Sends
  <2> QED BY <2>1, <2>2
<1>4. ASSUME NEW v, NEW i \in 1 .. Len(all), NEW k \in 1 .. Len(all), LeaksAt(all, v, i, k)
      PROVE  Leaks(f) \/ Leaks(g)
  <2>1. CASE k <= n
    <3>1. i \in 1 .. n /\ k \in 1 .. n BY <1>1, <1>4, <2>1 DEF LeaksAt
    <3>2. \A j \in 1 .. i : j \in 1 .. n BY <1>1, <3>1
    <3>3. LeaksAt(f, v, i, k) BY <1>1, <1>2, <1>4, <3>1, <3>2 DEF LeaksAt
    <3> QED BY <3>1, <3>3 DEF Leaks, n
  <2>2. CASE i > n
    <3> DEFINE a == i - n
               b == k - n
    <3>1. a \in 1 .. Len(g) /\ b \in 1 .. Len(g) /\ i = n + a /\ k = n + b /\ a < b
      BY <1>1, <1>4, <2>2 DEF LeaksAt
    <3> HIDE DEF a, b
    <3>2. g[a].kind = "http" /\ v \in g[a].carries.answered /\ Sends(g, v, b)
      BY <1>1, <1>2, <1>4, <3>1 DEF LeaksAt
    <3>3. ASSUME NEW j \in 1 .. a PROVE ~Sends(g, v, j)
      <4>1. j \in 1 .. Len(g) /\ n + j \in 1 .. i BY <1>1, <3>1
      <4> QED BY <1>2, <1>4, <4>1 DEF LeaksAt
    <3>4. LeaksAt(g, v, a, b) BY <3>1, <3>2, <3>3 DEF LeaksAt
    <3> QED BY <3>1, <3>4 DEF Leaks
  <2>3. CASE i <= n /\ k > n
    <3> DEFINE b == k - n
    <3>1. i \in 1 .. n /\ b \in 1 .. Len(g) /\ k = n + b BY <1>1, <2>3
    <3> HIDE DEF b
    <3>2. v \in f[i].carries.answered /\ Sends(g, v, b) BY <1>1, <1>2, <1>4, <3>1 DEF LeaksAt
    <3> QED BY <1>3, <3>1, <3>2
  <2> QED BY <1>1, <2>1, <2>2, <2>3
<1>5. ASSUME NEW v, NEW i \in 1 .. n, NEW k \in 1 .. n, LeaksAt(f, v, i, k) PROVE Leaks(all)
  <2>1. i \in 1 .. Len(all) /\ k \in 1 .. Len(all) /\ \A j \in 1 .. i : j \in 1 .. n BY <1>1
  <2>2. LeaksAt(all, v, i, k) BY <1>1, <1>2, <1>5, <2>1 DEF LeaksAt
  <2> QED BY <2>1, <2>2 DEF Leaks
<1>6. ASSUME NEW v, NEW i \in 1 .. Len(g), NEW k \in 1 .. Len(g), LeaksAt(g, v, i, k) PROVE Leaks(all)
  <2>1. n + i \in 1 .. Len(all) /\ n + k \in 1 .. Len(all) /\ n + i < n + k BY <1>1, <1>6 DEF LeaksAt
  <2>2. v \in g[i].carries.answered BY <1>6 DEF LeaksAt
  <2>3. ASSUME NEW j \in 1 .. (n + i) PROVE ~Sends(all, v, j)
    <3>1. CASE j \in 1 .. n BY <1>2, <1>3, <2>2, <3>1
    <3>2. CASE j > n
      <4>1. PICK m \in 1 .. i : j = n + m
        <5>1. j - n \in 1 .. i /\ j = n + (j - n) BY <1>1, <3>2
        <5> QED BY <5>1
      <4>2. m \in 1 .. Len(g) BY <1>1, <4>1
      <4> QED BY <1>2, <1>6, <4>1, <4>2 DEF LeaksAt
    <3> QED BY <1>1, <3>1, <3>2
  <2>4. LeaksAt(all, v, n + i, n + k) BY <1>1, <1>2, <1>6, <2>1, <2>3 DEF LeaksAt
  <2> QED BY <2>1, <2>4 DEF Leaks
<1>7. Leaks(f) => Leaks(all) BY <1>5 DEF Leaks, n
<1>8. Leaks(g) => Leaks(all) BY <1>6 DEF Leaks
<1>9. Leaks(all) => Leaks(f) \/ Leaks(g) BY <1>4 DEF Leaks
<1> QED BY <1>7, <1>8, <1>9 DEF all

\* A recording with the headers outside the keys left out.
Bodies(f) == [i \in DOMAIN f |-> Identity(f[i])]

LEMMA BodiesFacts ==
  ASSUME NEW S, \A it \in S : IsInteraction(it), NEW f \in Seq(S)
  PROVE  /\ Bodies(f) \in Seq({Identity(it) : it \in S})
         /\ \A it \in {Identity(x) : x \in S} : IsInteraction(it)
<1> DEFINE T == {Identity(it) : it \in S}
<1>1. Len(f) \in Nat /\ DOMAIN f = 1 .. Len(f) /\ \A i \in 1 .. Len(f) : f[i] \in S BY LenProperties, ElementOfSeq
<1>2. \A i \in 1 .. Len(f) : Identity(f[i]) \in T BY <1>1
<1> HIDE DEF T
<1>3. Bodies(f) \in [1 .. Len(f) -> T] BY <1>1, <1>2 DEF Bodies
<1>4. Bodies(f) \in Seq(T) BY <1>1, <1>3, SeqDef
<1>5. ASSUME NEW it \in S PROVE IsInteraction(Identity(it))
  <2>1. /\ it = [kind |-> it.kind, method |-> it.method, call |-> it.call, carries |-> it.carries,
                 tools |-> it.tools, calls |-> it.calls, error |-> it.error]
        /\ it.carries = [asked |-> it.carries.asked, beside |-> it.carries.beside, answered |-> it.carries.answered]
    BY DEF IsInteraction, Carries
  <2> DEFINE c == [asked |-> it.carries.asked, beside |-> {}, answered |-> it.carries.answered]
  <2>2. Identity(it) = [kind |-> it.kind, method |-> it.method, call |-> it.call, carries |-> c,
                        tools |-> it.tools, calls |-> it.calls, error |-> it.error]
    <3>1. Identity(it) = [it EXCEPT !.carries = c] BY DEF Identity, Carries
    <3> HIDE DEF c
    <3> QED BY <2>1, <3>1
  <2>3. c = Carries(c.asked, c.beside, c.answered) BY DEF Carries
  <2> HIDE DEF c
  <2> QED BY <2>2, <2>3 DEF IsInteraction
<1> QED BY <1>4, <1>5 DEF T

Interacting(S) == \A it \in S : IsInteraction(it)

\* Every interaction of the recording is one of the corpus.
Within(f, all) == \A j \in DOMAIN f : \E i \in DOMAIN all : all[i] = f[j]

\* Some first copy has a secret if the interaction has one, and sends what it sends that is forbidden.
Keeps(all, it, p) ==
  /\ HasSecret(it) => \E i \in Firsts(all) : HasSecret(all[i])
  /\ SendsForbidden(p, it) => \E i \in Firsts(all) : SendsForbidden(p, all[i])

\* What a body of a recording carries a corpus with the recording keeps.
LEMMA BodiesKept ==
  ASSUME NEW S, Interacting(S), NEW f \in Seq(S), NEW all \in Seq(S), Within(f, all),
         NEW j \in Firsts(Bodies(f)), NEW p
  PROVE  Keeps(all, Bodies(f)[j], p)
<1>1. j \in DOMAIN f /\ Bodies(f)[j] = Identity(f[j]) BY DEF Firsts, Bodies
<1>2. PICK k \in DOMAIN all : all[k] = f[j] BY <1>1 DEF Within
<1>3. /\ Len(all) \in Nat /\ DOMAIN all = 1 .. Len(all) /\ \A i \in 1 .. Len(all) : all[i] \in S
  BY LenProperties, ElementOfSeq
<1>4. PICK i \in (1 .. k) \cap Firsts(all) : Identity(all[i]) = Identity(all[k]) BY <1>2, <1>3, FirstCopy
<1>5. IsInteraction(all[i]) /\ IsInteraction(all[k]) BY <1>2, <1>3, <1>4 DEF Interacting
<1>6. /\ all[i].carries.asked = f[j].carries.asked
      /\ all[i].carries.answered = f[j].carries.answered
  BY <1>2, <1>4, <1>5, Copies
<1>7. /\ Identity(f[j]).carries.asked = f[j].carries.asked
      /\ Identity(f[j]).carries.answered = f[j].carries.answered
      /\ Identity(f[j]).carries.beside = {}
  <2> DEFINE it == f[j]
  <2>1. IsInteraction(it) BY <1>2, <1>5
  <2> HIDE DEF it
  <2>2. /\ it = [kind |-> it.kind, method |-> it.method, call |-> it.call, carries |-> it.carries,
                 tools |-> it.tools, calls |-> it.calls, error |-> it.error]
        /\ it.carries = [asked |-> it.carries.asked, beside |-> it.carries.beside, answered |-> it.carries.answered]
    BY <2>1 DEF IsInteraction, Carries
  <2>3. /\ Identity(it).carries.asked = it.carries.asked
        /\ Identity(it).carries.answered = it.carries.answered
        /\ Identity(it).carries.beside = {}
    BY <2>2 DEF Identity, Carries
  <2> QED BY <2>3 DEF it
<1>8. HasSecret(Bodies(f)[j]) => HasSecret(all[i]) BY <1>1, <1>6, <1>7 DEF HasSecret, SecretsIn
<1>9. SendsForbidden(p, Bodies(f)[j]) => SendsForbidden(p, all[i]) BY <1>1, <1>6, <1>7 DEF SendsForbidden, Outbound
<1> QED BY <1>4, <1>8, <1>9 DEF Keeps

LEMMA CorpusVerdictsHold == TypeOK => CorpusVerdicts
<1> SUFFICES ASSUME TypeOK PROVE CorpusVerdicts OBVIOUS
<1> DEFINE all == golden \o current
<1>1. golden \in Seq(Recorded) /\ current \in Seq(Recorded) BY DEF TypeOK
<1>a. Interacting(Recorded) BY Interactions DEF Interacting
<1>2. all \in Seq(Recorded) /\ Within(golden, all) /\ Within(current, all)
  <2>1. /\ Len(golden) \in Nat /\ Len(current) \in Nat
        /\ DOMAIN golden = 1 .. Len(golden) /\ DOMAIN current = 1 .. Len(current)
        /\ DOMAIN all = 1 .. (Len(golden) + Len(current))
        /\ all \in Seq(Recorded)
        /\ \A j \in 1 .. Len(golden) : all[j] = golden[j]
        /\ \A j \in 1 .. Len(current) : all[Len(golden) + j] = current[j]
    BY <1>1, Joined
  <2> HIDE DEF all
  <2>2. \A j \in DOMAIN golden : j \in DOMAIN all BY <2>1
  <2>3. \A j \in DOMAIN current : Len(golden) + j \in DOMAIN all BY <2>1
  <2> QED BY <2>1, <2>2, <2>3 DEF Within
<1>3. ASSUME NEW j \in Firsts(all)
      PROVE  \/ \E i \in Firsts(golden) : golden[i] = all[j]
             \/ \E i \in Firsts(current) : current[i] = all[j]
  BY <1>1, FirstsJoined
<1>4. Carried(golden) \cap Carried(current) = {} => (Leaks(all) <=> Leaks(golden) \/ Leaks(current))
  BY <1>1, LeaksJoined
<1>5. /\ FlattenSeq(<<golden, current>>) = all
      /\ FlattenSeq(<<golden>>) = golden /\ FlattenSeq(<<current>>) = current
      /\ FlattenSeq(<<Bodies(golden)>>) = Bodies(golden) /\ FlattenSeq(<<Bodies(current)>>) = Bodies(current)
  BY Flattened
<1> HIDE DEF all
<1>6. ASSUME NEW p
      PROVE  LET fails == CheckPolicy(p, <<golden, current>>)
                 a     == CheckPolicy(p, <<golden>>)
                 b     == CheckPolicy(p, <<current>>)
                 inA   == CheckPolicy(p, <<Bodies(golden)>>)
                 inB   == CheckPolicy(p, <<Bodies(current)>>)
             IN  /\ fails \cap {"secrets", "egress"} \subseteq a \cup b
                 /\ (inA \cup inB) \cap {"secrets", "egress"} \subseteq fails
                 /\ "coverage" \in fails <=> ~(p.tools \subseteq ToolsExercised(<<golden, current>>))
                 /\ Carried(golden) \cap Carried(current) = {} => ("exfil" \in fails <=> "exfil" \in a \cup b)
  <2> DEFINE fails == CheckPolicy(p, <<golden, current>>)
             a     == CheckPolicy(p, <<golden>>)
             b     == CheckPolicy(p, <<current>>)
             inA   == CheckPolicy(p, <<Bodies(golden)>>)
             inB   == CheckPolicy(p, <<Bodies(current)>>)
  <2>1. /\ "secrets" \in fails <=> p.secrets /\ \E j \in Firsts(all) : HasSecret(all[j])
        /\ "egress" \in fails <=> \E j \in Firsts(all) : SendsForbidden(p, all[j])
        /\ "exfil" \in fails <=> p.exfil /\ Leaks(all)
        /\ "coverage" \in fails <=> ~(p.tools \subseteq ToolsExercised(<<golden, current>>))
    BY <1>2, <1>5, Interactions, PolicyFacts
  <2>2. /\ "secrets" \in a <=> p.secrets /\ \E j \in Firsts(golden) : HasSecret(golden[j])
        /\ "egress" \in a <=> \E j \in Firsts(golden) : SendsForbidden(p, golden[j])
        /\ "exfil" \in a <=> p.exfil /\ Leaks(golden)
    BY <1>1, <1>5, Interactions, PolicyFacts
  <2>3. /\ "secrets" \in b <=> p.secrets /\ \E j \in Firsts(current) : HasSecret(current[j])
        /\ "egress" \in b <=> \E j \in Firsts(current) : SendsForbidden(p, current[j])
        /\ "exfil" \in b <=> p.exfil /\ Leaks(current)
    BY <1>1, <1>5, Interactions, PolicyFacts
  <2>4. /\ "secrets" \in inA <=> p.secrets /\ \E j \in Firsts(Bodies(golden)) : HasSecret(Bodies(golden)[j])
        /\ "egress" \in inA <=> \E j \in Firsts(Bodies(golden)) : SendsForbidden(p, Bodies(golden)[j])
    BY <1>1, <1>5, Interactions, BodiesFacts, PolicyFacts
  <2>5. /\ "secrets" \in inB <=> p.secrets /\ \E j \in Firsts(Bodies(current)) : HasSecret(Bodies(current)[j])
        /\ "egress" \in inB <=> \E j \in Firsts(Bodies(current)) : SendsForbidden(p, Bodies(current)[j])
    BY <1>1, <1>5, Interactions, BodiesFacts, PolicyFacts
  <2>6. ASSUME NEW j \in Firsts(Bodies(golden))
        PROVE  Keeps(all, Bodies(golden)[j], p)
    BY <1>1, <1>2, <1>a, BodiesKept
  <2>7. ASSUME NEW j \in Firsts(Bodies(current))
        PROVE  Keeps(all, Bodies(current)[j], p)
    BY <1>1, <1>2, <1>a, BodiesKept
  <2> HIDE DEF fails, a, b, inA, inB
  <2>8. "secrets" \in fails => "secrets" \in a \cup b BY <1>3, <2>1, <2>2, <2>3
  <2>9. "egress" \in fails => "egress" \in a \cup b BY <1>3, <2>1, <2>2, <2>3
  <2>10. "secrets" \in inA \cup inB => "secrets" \in fails BY <2>1, <2>4, <2>5, <2>6, <2>7 DEF Keeps
  <2>11. "egress" \in inA \cup inB => "egress" \in fails BY <2>1, <2>4, <2>5, <2>6, <2>7 DEF Keeps
  <2>12. Carried(golden) \cap Carried(current) = {} => ("exfil" \in fails <=> "exfil" \in a \cup b)
    BY <1>4, <2>1, <2>2, <2>3
  <2>13. "coverage" \in fails <=> ~(p.tools \subseteq ToolsExercised(<<golden, current>>)) BY <2>1
  <2> QED BY <2>8, <2>9, <2>10, <2>11, <2>12, <2>13 DEF fails, a, b, inA, inB
<1> QED BY <1>6 DEF CorpusVerdicts, Carried, Bodies, Identity

-----------------------------------------------------------------------------

\* Of every agent and every server: the recordings are lists of what the two may do, no longer
\* than MaxTurns, and what was refused is a place in the recording.
THEOREM TypeCorrect == Spec => []TypeOK
<1>1. Inv => TypeOK BY DEF Inv
<1> QED BY <1>1, InvHolds, PTL

\* Schemacheck accuses calls whose arguments the schema does not admit and no other, all of them
\* if the schema is plain; of a tool server that was not changed those are the calls it refused.
THEOREM SchemaSoundCorrect == Spec => []SchemaSound
<1> QED BY SchemaSoundHolds, InvHolds, PTL

\* If mcp-diff finds nothing breaking, the server that was listed last admits what the golden
\* session called with success, as far as mcp-diff compares, and no such call fails now.
THEOREM DiffSoundCorrect == Spec => []DiffSound
<1> QED BY DiffSoundHolds, InvHolds, PTL

\* Taint names the values that come up in one turn and go out with a later one, and no other;
\* egress-audit has a finding of each, and a policy that forbids exfiltration fails if the model
\* brought one up, although it looks at the recording without its repeated turns.
THEOREM FlowsTracedCorrect == Spec => []FlowsTraced
<1>1. Inv => FlowsTraced BY FlowsTracedHolds DEF Inv
<1> QED BY <1>1, InvHolds, PTL

\* A policy judges two recordings together as it judges each of them.
THEOREM CorpusVerdictsCorrect == Spec => []CorpusVerdicts
<1>1. Inv => CorpusVerdicts BY CorpusVerdictsHold DEF Inv
<1> QED BY <1>1, InvHolds, PTL
=============================================================================
