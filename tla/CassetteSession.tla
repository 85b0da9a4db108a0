---------------------------- MODULE CassetteSession ----------------------------
(***************************************************************************)
(* The life of a cassette file across two processes: a run in record or in *)
(* branch mode grows it, a Save writes it, and a second process opens it   *)
(* for replay.  Branch mode (transport.go, branch) serves a request from   *)
(* the seed it was opened with and, when there is no entry left for the    *)
(* key, goes live and appends; the appended interaction is not indexed     *)
(* until the file is opened again.  An MCP call does not go live there: on *)
(* a miss it returns the error (mcp.go, replay).                           *)
(*                                                                         *)
(* How a live body is captured is CassetteRecord's subject and how clients *)
(* of one open cassette interleave is CassetteReplay's; here capture is    *)
(* one step, which may fail, and a replayed request is one step.           *)
(* Scrubbing rewrites stored bodies when the file is saved, so that the    *)
(* key derived from a stored body is another one after a reload.           *)
(***************************************************************************)
EXTENDS MatchTable, SequencesExt

CONSTANTS
    Calls,      \* the calls of the run
    Requests,   \* what a call may ask: records [kind, key]
    Seeds,      \* the files a branch may be opened with
    MaxPlays    \* bound on the requests made of the reopened cassette

ASSUME SeedsAssumption ==
    Seeds \subseteq Seq([kind : {"http", "mcp"}, saved : Keys \cup {NoKey},
                         derived : Keys \cup {NoKey}, full : BOOLEAN])

ASSUME RequestsAssumption ==
    /\ Requests \subseteq [kind : {"http", "mcp"}, key : Keys \cup {NoKey}]
    /\ \A r \in Requests : r.kind = "mcp" => r.key # NoKey

ASSUME MaxPlaysAssumption == MaxPlays \in Nat

VARIABLES
    phase,     \* "run", then "replay", or "failed" if the file does not open
    mode,      \* of the run: "record" or "branch"
    policy,    \* OnExhausted, the same in both processes
    seed,      \* length of the file the run started from
    mem,       \* c.file.Interactions; full: its response body is there
    keys,      \* c.keys
    cursor,    \* c.cursor
    pc,        \* call -> where it is
    req,       \* call -> its request
    slot,      \* call -> the interaction record filled in for it, or 0
    disk,      \* the file
    answered,  \* history: key -> the interactions that answered it in the run
    upTo,      \* history: answered, as it was at the last Save
    replayed   \* history: key -> the interactions replayed after the reopening

opened == <<mode, policy, seed>>
run    == <<pc, req, slot>>
vars   == <<phase, opened, mem, keys, cursor, run, disk, answered, upTo, replayed>>

NoRequest == [kind |-> "none", key |-> NoKey]
Nowhere   == [k \in Keys |-> <<>>]
Zero      == [k \in Keys |-> 0]

(* index files the n-th interaction of a file under its key.               *)
Filing(groups, it, n) ==
    [k \in Keys |-> IF IndexKey(it) = k THEN Append(groups[k], n) ELSE groups[k]]

(* The groups it has built after each interaction (the steps of its loop   *)
(* are in CassetteReplay), and in the end.                                 *)
Filed(f) ==
    LET filed[n \in 0..Len(f)] == IF n = 0 THEN Nowhere ELSE Filing(filed[n - 1], f[n], n)
    IN  filed

Groups(f) == Filed(f)[Len(f)]

Opens(f) == \A i \in DOMAIN f : ~Unindexable(f[i])

Init ==
    /\ phase = "run"
    /\ policy \in Policies
    /\ \/ mode = "record" /\ mem = <<>>
       \/ mode = "branch" /\ mem \in Seeds /\ Opens(mem)
    /\ seed = Len(mem)
    /\ keys = Groups(mem)
    /\ cursor = Zero
    /\ pc = [c \in Calls |-> "idle"]
    /\ req = [c \in Calls |-> NoRequest]
    /\ slot = [c \in Calls |-> 0]
    /\ disk = mem
    /\ answered = Nowhere
    /\ upTo = Nowhere
    /\ replayed = Nowhere
-----------------------------------------------------------------------------
(* The run.                                                                *)

Call(c) ==
    /\ phase = "run"
    /\ pc[c] = "idle"
    /\ \E r \in Requests : req' = [req EXCEPT ![c] = r]
    /\ pc' = [pc EXCEPT ![c] = IF mode = "record" THEN "live" ELSE "lookup"]
    /\ UNCHANGED <<phase, opened, mem, keys, cursor, slot, disk, answered, upTo, replayed>>

Ends(c) == pc' = [pc EXCEPT ![c] = "done"]

(* Branch: the context is done, or the request has no key: no dial.        *)
LookupFails(c) ==
    /\ phase = "run"
    /\ pc[c] = "lookup"
    /\ Ends(c)
    /\ UNCHANGED <<phase, opened, mem, keys, cursor, req, slot, disk, answered, upTo, replayed>>

Take(k) ==
    /\ CanServe(keys[k], cursor[k], policy)
    /\ cursor' = [cursor EXCEPT ![k] = NextCursor(keys[k], @, policy)]

Next1(k) == ServedIndex(keys[k], cursor[k], policy)

(* Branch: the seed answers.                                               *)
ServePrefix(c) ==
    LET k == req[c].key
    IN  /\ phase = "run"
        /\ pc[c] = "lookup" /\ k # NoKey
        /\ Take(k)
        /\ answered' = [answered EXCEPT ![k] = Append(@, Next1(k))]
        /\ Ends(c)
        /\ UNCHANGED <<phase, opened, mem, keys, req, slot, disk, upTo, replayed>>

(* Mutant: a key that is exhausted goes live only if it was never served.  *)
Diverge_OnUnknownOnly(c) ==
    LET k == req[c].key
    IN  /\ phase = "run"
        /\ pc[c] = "lookup" /\ k # NoKey
        /\ cursor[k] = 0 \/ ~CanServe(keys[k], cursor[k], policy)
        /\ pc' = [pc EXCEPT ![c] = IF req[c].kind = "http" THEN "live" ELSE "done"]
        /\ UNCHANGED <<phase, opened, mem, keys, cursor, req, slot, disk, answered, upTo, replayed>>

(* Branch: the seed has no answer: an HTTP request dials, an MCP call      *)
(* returns ErrNoMatch.                                                     *)
Diverge(c) ==
    LET k == req[c].key
    IN  /\ phase = "run"
        /\ pc[c] = "lookup" /\ k # NoKey
        /\ ~CanServe(keys[k], cursor[k], policy)
        /\ pc' = [pc EXCEPT ![c] = IF req[c].kind = "http" THEN "live" ELSE "done"]
        /\ UNCHANGED <<phase, opened, mem, keys, cursor, req, slot, disk, answered, upTo, replayed>>

(* The real server cannot be reached: nothing is recorded.                 *)
LiveFails(c) ==
    /\ phase = "run"
    /\ pc[c] = "live"
    /\ Ends(c)
    /\ UNCHANGED <<phase, opened, mem, keys, cursor, req, slot, disk, answered, upTo, replayed>>

Heard(k, i) == IF k = NoKey THEN answered ELSE [answered EXCEPT ![k] = Append(@, i)]

(* Mutant: the key is not persisted.                                       *)
Recorded_Keyless(r, full) ==
    [kind |-> r.kind, saved |-> NoKey, derived |-> r.key, full |-> full]

(* A request without a key is recorded all the same, with no match_key.    *)
Recorded(r, full) ==
    [kind |-> r.kind, saved |-> r.key, derived |-> r.key, full |-> full]

(* Mutant: the appended interaction also joins the index.                  *)
LiveAnswers_Indexed(c) ==
    LET i == Len(mem) + 1
        k == req[c].key
    IN  /\ phase = "run"
        /\ pc[c] = "live"
        /\ mem' = Append(mem, Recorded(req[c], req[c].kind = "mcp"))
        /\ keys' = IF k = NoKey THEN keys ELSE [keys EXCEPT ![k] = Append(@, i)]
        /\ slot' = [slot EXCEPT ![c] = i]
        /\ answered' = Heard(k, i)
        /\ pc' = [pc EXCEPT ![c] = IF req[c].kind = "mcp" THEN "done" ELSE "filling"]
        /\ UNCHANGED <<phase, opened, cursor, req, disk, upTo, replayed>>

(* appendInteraction: an MCP result complete, an HTTP response without its *)
(* body.  c.keys stays as it is.                                           *)
LiveAnswers(c) ==
    LET i == Len(mem) + 1
    IN  /\ phase = "run"
        /\ pc[c] = "live"
        /\ mem' = Append(mem, Recorded(req[c], req[c].kind = "mcp"))
        /\ slot' = [slot EXCEPT ![c] = i]
        /\ answered' = Heard(req[c].key, i)
        /\ pc' = [pc EXCEPT ![c] = IF req[c].kind = "mcp" THEN "done" ELSE "filling"]
        /\ UNCHANGED <<phase, opened, keys, cursor, req, disk, upTo, replayed>>

(* Mutant: the caller has the response before the cassette has the body.   *)
Capture_Late(c) ==
    /\ phase = "run"
    /\ \/ pc[c] = "filling" /\ Ends(c) /\ UNCHANGED mem
       \/ /\ pc[c] = "done" /\ slot[c] # 0 /\ UNCHANGED pc
          /\ mem' = [mem EXCEPT ![slot[c]].full = TRUE]
    /\ UNCHANGED <<phase, opened, keys, cursor, req, slot, disk, answered, upTo, replayed>>

(* The body is read to its end and stored, and then the caller has it.     *)
Capture(c) ==
    /\ phase = "run"
    /\ pc[c] = "filling"
    /\ mem' = [mem EXCEPT ![slot[c]].full = TRUE]
    /\ Ends(c)
    /\ UNCHANGED <<phase, opened, keys, cursor, req, slot, disk, answered, upTo, replayed>>

(* It cannot be read or decoded: the interaction stays, without a body.    *)
CaptureFails(c) ==
    /\ phase = "run"
    /\ pc[c] = "filling"
    /\ pc' = [pc EXCEPT ![c] = "cut"]
    /\ UNCHANGED <<phase, opened, mem, keys, cursor, req, slot, disk, answered, upTo, replayed>>
-----------------------------------------------------------------------------
(* The file.                                                               *)

(* After scrubbing, the stored body of a live request derives any key, or  *)
(* none.  A seed without persisted keys has been scrubbed before, and      *)
(* scrubbing it again changes nothing; what does not decode stays so.      *)
Scrubbed(i, stale) ==
    IF (i <= seed /\ mem[i].saved = NoKey) \/ mem[i].derived = NoKey THEN mem[i]
    ELSE [mem[i] EXCEPT !.derived = stale]

(* Save, or VerifyError in these modes, at any time during the run.        *)
Save ==
    /\ phase = "run"
    /\ \E stale \in Keys \cup {NoKey} :
          disk' = [i \in DOMAIN mem |-> Scrubbed(i, stale)]
    /\ upTo' = answered
    /\ UNCHANGED <<phase, opened, mem, keys, cursor, run, answered, replayed>>

(* The process ends, or is killed, and another opens what is on the disk.  *)
Reopen ==
    /\ phase = "run"
    /\ Opens(disk)
    /\ phase' = "replay"
    /\ mem' = disk
    /\ keys' = Groups(disk)
    /\ cursor' = Zero
    /\ UNCHANGED <<opened, run, disk, answered, upTo, replayed>>

ReopenFails ==
    /\ phase = "run"
    /\ ~Opens(disk)
    /\ phase' = "failed"
    /\ UNCHANGED <<opened, mem, keys, cursor, run, disk, answered, upTo, replayed>>

Plays == FoldFunction(LAMBDA s, n : n + Len(s), 0, replayed)

Play(k) ==
    /\ phase = "replay"
    /\ Plays < MaxPlays
    /\ Take(k)
    /\ replayed' = [replayed EXCEPT ![k] = Append(@, Next1(k))]
    /\ UNCHANGED <<phase, opened, mem, keys, run, disk, answered, upTo>>

Next ==
    \/ \E c \in Calls :
        \/ Call(c) \/ LookupFails(c) \/ ServePrefix(c) \/ Diverge(c)
        \/ LiveFails(c) \/ LiveAnswers(c) \/ Capture(c) \/ CaptureFails(c)
    \/ Save \/ Reopen \/ ReopenFails
    \/ \E k \in Keys : Play(k)

Spec == Init /\ [][Next]_vars
-----------------------------------------------------------------------------
(* Type invariant.                                                         *)
Stored == [kind : {"http", "mcp"}, saved : Keys \cup {NoKey},
           derived : Keys \cup {NoKey}, full : BOOLEAN]

Trace == [Keys -> Seq(Nat \ {0})]

TypeOK ==
    /\ phase \in {"run", "replay", "failed"}
    /\ mode \in {"record", "branch"}
    /\ policy \in Policies
    /\ seed \in 0..Len(mem)
    /\ mem \in Seq(Stored)
    /\ keys \in [Keys -> Seq(DOMAIN mem)]
    /\ cursor \in [Keys -> Nat]
    /\ pc \in [Calls -> {"idle", "lookup", "live", "filling", "cut", "done"}]
    /\ req \in [Calls -> Requests \cup {NoRequest}]
    /\ slot \in [Calls -> Nat]
    /\ disk \in Seq(Stored)
    /\ answered \in Trace /\ upTo \in Trace /\ replayed \in Trace

(* A run can be replayed: whatever was interleaved in it, and although the *)
(* stored bodies no longer derive their keys, the n-th request of a key is *)
(* answered after the reopening by the interaction that answered the n-th  *)
(* one when the file was saved, and is never a miss (README, "the branch   *)
(* replays"; transport.go, branch and record; cassette.go, index).         *)
RunReplays ==
    phase = "replay" =>
        \A k \in Keys :
            /\ \A n \in DOMAIN upTo[k] :
                  n \in DOMAIN replayed[k] => replayed[k][n] = upTo[k][n]
            /\ Len(replayed[k]) < Len(upTo[k]) => CanServe(keys[k], cursor[k], policy)

(* The live suffix never shadows the prefix (transport.go, branch): the    *)
(* seed's own entries of a key are used up before a request of that key    *)
(* goes live, and once it has, the seed is not gone back to.               *)
SuffixAfterPrefix ==
    \A k \in Keys : \A n \in DOMAIN answered[k] :
        LET own == {i \in 1..seed : IndexKey(mem[i]) = k}
            live(m) == answered[k][m] > seed
        IN  live(n) =>
                /\ \A i \in own : \E m \in 1..(n - 1) : answered[k][m] = i
                /\ \A m \in n..Len(answered[k]) : live(m)

(* A call that returned its whole body before the file was saved finds it  *)
(* in the file, and a body that failed to arrive is not in it.             *)
HeardIsSaved ==
    [][\A c \in Calls :
        (disk' # disk /\ slot[c] # 0) =>
            /\ slot[c] \in DOMAIN disk'
            /\ pc[c] = "done" => disk'[slot[c]].full
            /\ pc[c] = "cut" => ~disk'[slot[c]].full]_vars

(* One keyless request of a record run, and nothing else, makes the whole  *)
(* file unreadable for replay (cassette.go, index: the error of any        *)
(* interaction is the error of Open); a branch never writes such a file.   *)
UnopenableOnlyIfKeyless ==
    phase = "failed" =>
        /\ mode = "record"
        /\ \E c \in Calls : slot[c] # 0 /\ req[c].key = NoKey /\ req[c].kind = "http"
===============================================================================
