------------------------------ MODULE MatchTable ------------------------------
(***************************************************************************)
(* The match table of a cassette: how a loaded interaction gets the key it *)
(* is filed under (cassette.go, index) and which entry of a key's group    *)
(* the next request takes (transport.go, nextIndexLocked).  Both the HTTP  *)
(* transport and the MCP wrapper go through these two, in replay and in    *)
(* branch mode, so they are stated once, without state.                    *)
(*                                                                         *)
(* An interaction is a record                                              *)
(*   kind    "http", "mcp", or "other" for whatever else the file holds    *)
(*   saved   the match key persisted when it was recorded, or NoKey        *)
(*   derived the key recomputed from the stored request; NoKey when the    *)
(*           recomputation fails (an undecodable gzip body)                *)
(*   method, path   the stored route, <<>> and "" for MCP                  *)
(*   frames  how many SSE frames its stored response has                   *)
(***************************************************************************)
EXTENDS Integers, Sequences

CONSTANTS
    Keys,   \* the match keys
    NoKey   \* the empty string: no persisted key, or no derivable one

ASSUME NoKeyAssumption == NoKey \notin Keys

Policies == {"Error", "RepeatLast", "Cycle"}

(* index handles only these two kinds when it has to recompute the key.    *)
Matchable(it) == it.kind \in {"http", "mcp"}

(* Mutant: trust the stored body over the persisted key.                   *)
IndexKey_Recompute(it) ==
    IF Matchable(it) /\ it.derived # NoKey THEN it.derived ELSE it.saved

(* The persisted key wins: it was computed over the live request, before   *)
(* scrubbing changed the stored body.                                      *)
IndexKey(it) ==
    IF it.saved # NoKey \/ ~Matchable(it) THEN it.saved ELSE it.derived

(* index returns an error, and Open with it.                               *)
Unindexable(it) == Matchable(it) /\ IndexKey(it) = NoKey

(***************************************************************************)
(* nextIndexLocked.  group is the ordered list of interaction indices of a *)
(* key and n its cursor, the number of entries already taken (0-based in   *)
(* the code, so group[n] there is group[n + 1] here).                      *)
(***************************************************************************)
Exhausted(group, n) == n >= Len(group)

CanServe(group, n, policy) ==
    group # <<>> /\ (Exhausted(group, n) => policy # "Error")

(* Mutant: the wrapped index is off by one.                                *)
ServedIndex_OffByOne(group, n, policy) ==
    IF ~Exhausted(group, n) THEN group[n + 1]
    ELSE IF policy = "RepeatLast" THEN group[Len(group)]
    ELSE group[((n + 1) % Len(group)) + 1]

ServedIndex(group, n, policy) ==
    IF ~Exhausted(group, n) THEN group[n + 1]
    ELSE IF policy = "RepeatLast" THEN group[Len(group)]
    ELSE group[(n % Len(group)) + 1]

(* Mutant: the repeated last entry also advances the cursor, and a cycling *)
(* one does not.                                                           *)
NextCursor_Swapped(group, n, policy) ==
    IF Exhausted(group, n) /\ policy = "Cycle" THEN n ELSE n + 1

NextCursor(group, n, policy) ==
    IF Exhausted(group, n) /\ policy = "RepeatLast" THEN n ELSE n + 1
===============================================================================
