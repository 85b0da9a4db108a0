------------------------------- MODULE MCReplay -------------------------------
(***************************************************************************)
(* A small instance of CassetteReplay: two clients, two HTTP keys and an   *)
(* MCP key, four cassettes and five chaos overlays.                        *)
(***************************************************************************)
EXTENDS CassetteReplay

CONSTANTS h1, h2, m1

ClientSymmetry == Permutations(Clients)

messages  == <<"v1", "messages">>
responses == <<"v1", "responses">>

Http(saved, derived, path, frames) ==
    [kind |-> "http", saved |-> saved, derived |-> derived,
     method |-> "POST", path |-> path, frames |-> frames]

Mcp(key) ==
    [kind |-> "mcp", saved |-> key, derived |-> key,
     method |-> "", path |-> <<>>, frames |-> 1]

Other(saved) ==
    [kind |-> "other", saved |-> saved, derived |-> NoKey,
     method |-> "", path |-> <<>>, frames |-> 1]

MCFiles ==
    { \* recorded: a repeated key, and a tool call in between
      <<Http(h1, h1, messages, 3), Mcp(m1), Http(h1, h1, messages, 1)>>,
      \* scrubbed bodies (the derived key is stale) and a hand-written entry
      <<Http(h2, h1, messages, 2), Other(NoKey), Http(NoKey, h1, messages, 0), Mcp(m1), Mcp(m1)>>,
      \* an entry of another kind that carries a key
      <<Http(h1, h1, messages, 2), Other(h1), Http(h2, h2, responses, 1)>>,
      \* a stored body that no longer decodes
      <<Http(h1, h1, messages, 1), Http(NoKey, NoKey, messages, 1)>> }

Req(kind, key, method, path) ==
    [kind |-> kind, key |-> key, method |-> method, path |-> path]

MCRequests ==
    { Req("http", h1, "POST", messages),
      Req("http", h2, "POST", responses),
      Req("http", NoKey, "POST", messages),
      Req("mcp", m1, "", <<>>) }

Refuse(path, n) == [NoFault EXCEPT !.path = path, !.attempt = n, !.status = 529]

MCFaultSets ==
    { <<>>,
      <<Refuse(<<"messages">>, 1), Refuse(<<"messages">>, 3)>>,
      <<Refuse(responses, 0)>>,
      <<[NoFault EXCEPT !.keep = 2, !.drop = TRUE, !.attempt = 1], Refuse(<<>>, 2)>>,
      <<[NoFault EXCEPT !.drop = TRUE, !.method = "POST"], Refuse(<<>>, 0)>> }
===============================================================================
