------------------------------ MODULE MCSession ------------------------------
(***************************************************************************)
(* A small instance of CassetteSession: three concurrent calls over two    *)
(* HTTP keys and a tool's key, recording from nothing or branching from    *)
(* one of three seeds.                                                     *)
(***************************************************************************)
EXTENDS CassetteSession

CONSTANTS h1, h2, m1

Entry(kind, k) == [kind |-> kind, saved |-> k, derived |-> k, full |-> TRUE]

MCSeeds ==
    { <<Entry("http", h1), Entry("http", h1)>>,
      <<Entry("http", h1), Entry("mcp", m1)>>,
      \* a hand-written entry, keyed by its body
      <<[Entry("http", h1) EXCEPT !.saved = NoKey]>> }

MCRequests ==
    { [kind |-> "http", key |-> h1], [kind |-> "http", key |-> h2],
      [kind |-> "http", key |-> NoKey], [kind |-> "mcp", key |-> m1] }

CallSymmetry == Permutations(Calls)
===============================================================================
