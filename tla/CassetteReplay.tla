---------------------------- MODULE CassetteReplay ----------------------------
(***************************************************************************)
(* A cassette opened for replay and shared by concurrent clients: Open's   *)
(* index loop, the HTTP lookup (transport.go, matchResponse; the replay    *)
(* RoundTripper and the serve Handler both end there), the MCP lookup      *)
(* (mcp.go, replay) and VerifyError.                                       *)
(*                                                                         *)
(* Everything between c.mu.Lock() and c.mu.Unlock() is one action; what a  *)
(* client does outside the lock (deriving the key, damaging the response   *)
(* of a modify fault, the MCP wrapper's read of the file) is a step of its *)
(* own, so that the steps of other clients come in between.                *)
(*                                                                         *)
(* Not here: dials.  No replay path calls the blocking transport, so the   *)
(* dial counter stays 0 and VerifyError's first check cannot fire.         *)
(***************************************************************************)
EXTENDS MatchTable, Faults

CONSTANTS
    Clients,      \* goroutines sharing the cassette
    Files,        \* the cassettes that may be opened: sequences of interactions
    Requests,     \* records [kind, key, method, path] a client may send
    FaultSets,    \* the chaos overlays that may be configured
    MaxCalls      \* bound on the calls of a session

Interactions == [kind : {"http", "mcp", "other"},
                 saved : Keys \cup {NoKey}, derived : Keys \cup {NoKey},
                 method : Methods \cup {""}, path : Seq(Segments), frames : Nat]

ASSUME FilesAssumption == Files \subseteq Seq(Interactions)

ASSUME RequestsAssumption ==
    /\ Requests \subseteq [kind : {"http", "mcp"}, key : Keys \cup {NoKey},
                          method : Methods \cup {""}, path : Seq(Segments)]
    /\ \A r \in Requests : r.kind = "mcp" => r.key # NoKey

ASSUME FaultSetsAssumption == FaultSets \subseteq Seq(Fault)

ASSUME MaxCallsAssumption == MaxCalls \in Nat

Positions == UNION {DOMAIN f : f \in Files}

VARIABLES
    file,         \* c.file.Interactions
    policy,       \* c.opts.OnExhausted
    faults,       \* c.opts.Faults
    phase,        \* "indexing", then "ready"; "failed" when Open returns an error
    pos,          \* index's loop variable, 1-based
    keys,         \* c.keys
    cursor,       \* c.cursor
    consumed,     \* c.consumed
    attempts,     \* c.attempts
    pc,           \* client -> where its call is
    req,          \* client -> the request of its current or last call
    hand,         \* client -> [idx, fault] taken under the lock, used after it
    reply,        \* client -> what its last call returned
    missing,      \* what the last VerifyError listed
    calls,        \* calls made so far (bounded by MaxCalls)
    served,       \* history: key -> positions handed out, in order
    injected      \* history: key -> synthetic failures handed out

opened  == <<file, policy, faults, phase, pos, keys>>
table   == <<cursor, consumed, attempts>>
client  == <<pc, req, hand, reply, calls>>
history == <<served, injected>>
vars    == <<opened, table, client, missing, history>>

NoRequest == [kind |-> "none", key |-> NoKey, method |-> "", path |-> AnyPath]
NoHand    == [idx |-> 0, fault |-> NoFault]
NoReply   == [kind |-> "none", idx |-> 0, frames |-> 0]
Zero      == [k \in Keys |-> 0]

Init ==
    /\ file \in Files
    /\ policy \in Policies
    /\ faults \in FaultSets
    /\ phase = "indexing"
    /\ pos = 1
    /\ keys = [k \in Keys |-> <<>>]
    /\ cursor = Zero
    /\ consumed = {}
    /\ attempts = Zero
    /\ pc = [c \in Clients |-> "idle"]
    /\ req = [c \in Clients |-> NoRequest]
    /\ hand = [c \in Clients |-> NoHand]
    /\ reply = [c \in Clients |-> NoReply]
    /\ missing = {}
    /\ calls = 0
    /\ served = [k \in Keys |-> <<>>]
    /\ injected = Zero
-----------------------------------------------------------------------------
(* Open: one step per iteration of index's loop.                           *)

IndexOne ==
    /\ phase = "indexing"
    /\ pos <= Len(file)
    /\ IndexKey(file[pos]) # NoKey
    /\ keys' = [keys EXCEPT ![IndexKey(file[pos])] = Append(@, pos)]
    /\ pos' = pos + 1
    /\ UNCHANGED <<file, policy, faults, phase, table, client, missing, history>>

(* An interaction of another kind, without a persisted key.                *)
IndexSkip ==
    /\ phase = "indexing"
    /\ pos <= Len(file)
    /\ ~Matchable(file[pos]) /\ IndexKey(file[pos]) = NoKey
    /\ pos' = pos + 1
    /\ UNCHANGED <<file, policy, faults, phase, keys, table, client, missing, history>>

IndexFail ==
    /\ phase = "indexing"
    /\ pos <= Len(file)
    /\ Unindexable(file[pos])
    /\ phase' = "failed"
    /\ UNCHANGED <<file, policy, faults, pos, keys, table, client, missing, history>>

OpenDone ==
    /\ phase = "indexing"
    /\ pos = Len(file) + 1
    /\ phase' = "ready"
    /\ UNCHANGED <<file, policy, faults, pos, keys, table, client, missing, history>>
-----------------------------------------------------------------------------
(* A client's call.                                                        *)

Return(c, kind) ==
    /\ pc' = [pc EXCEPT ![c] = "idle"]
    /\ reply' = [reply EXCEPT ![c] = [kind |-> kind, idx |-> 0, frames |-> 0]]

Call(c) ==
    /\ phase = "ready"
    /\ pc[c] = "idle"
    /\ calls < MaxCalls
    /\ calls' = calls + 1
    /\ \E r \in Requests : req' = [req EXCEPT ![c] = r]
    /\ pc' = [pc EXCEPT ![c] = "called"]
    /\ hand' = [hand EXCEPT ![c] = NoHand]
    /\ UNCHANGED <<opened, table, reply, missing, history>>

(* The context is already done when the lookup starts.                     *)
ContextDone(c) ==
    /\ pc[c] = "called"
    /\ Return(c, "canceled")
    /\ UNCHANGED <<opened, table, req, hand, calls, missing, history>>

(* match.FromRequest or match.Key fails: an error, not a miss.             *)
KeyFails(c) ==
    /\ pc[c] = "called"
    /\ req[c].key = NoKey
    /\ Return(c, "badRequest")
    /\ UNCHANGED <<opened, table, req, hand, calls, missing, history>>

KeyDerived(c) ==
    /\ pc[c] = "called"
    /\ req[c].key # NoKey
    /\ pc' = [pc EXCEPT ![c] = "keyed"]
    /\ UNCHANGED <<opened, table, req, hand, reply, calls, missing, history>>

(***************************************************************************)
(* The critical section.  With an overlay configured every HTTP request    *)
(* counts as an attempt of its key before the overlay is consulted; MCP    *)
(* calls are neither counted nor looked up.                                *)
(***************************************************************************)
Counted(c) == req[c].kind = "http" /\ faults # <<>>

Attempt(c) == IF Counted(c) THEN attempts[req[c].key] + 1 ELSE 0

Overlay(c) ==
    IF Counted(c)
    THEN Lookup(faults, req[c].method, req[c].path, Attempt(c))
    ELSE NoFault

(* Mutant: an attempt answered by a fault is not counted.                  *)
CountAttempt_ServedOnly(c) ==
    attempts' = IF Counted(c) /\ ~Synthetic(Overlay(c))
                THEN [attempts EXCEPT ![req[c].key] = @ + 1]
                ELSE attempts

CountAttempt(c) ==
    attempts' = IF Counted(c)
                THEN [attempts EXCEPT ![req[c].key] = @ + 1]
                ELSE attempts

(* A synthetic failure is returned without consuming a recording.          *)
InjectFault(c) ==
    /\ pc[c] = "keyed"
    /\ Synthetic(Overlay(c))
    /\ CountAttempt(c)
    /\ injected' = [injected EXCEPT ![req[c].key] = @ + 1]
    /\ Return(c, "synthetic")
    /\ UNCHANGED <<opened, cursor, consumed, req, hand, calls, missing, served>>

Hit(k) == CanServe(keys[k], cursor[k], policy)

(* Mutant: the played mark is left to the HTTP path.                       *)
Take_MarkHTTPOnly(c, k) ==
    LET idx == ServedIndex(keys[k], cursor[k], policy)
    IN  /\ Hit(k)
        /\ cursor' = [cursor EXCEPT ![k] = NextCursor(keys[k], @, policy)]
        /\ consumed' = IF req[c].kind = "http" THEN consumed \cup {idx} ELSE consumed
        /\ served' = [served EXCEPT ![k] = Append(@, idx)]
        /\ hand' = [hand EXCEPT ![c] = [idx |-> idx, fault |-> Overlay(c)]]
        /\ pc' = [pc EXCEPT ![c] = "taken"]

(* nextIndexLocked, and the mark that the interaction was played.          *)
Take(c, k) ==
    LET idx == ServedIndex(keys[k], cursor[k], policy)
    IN  /\ Hit(k)
        /\ cursor' = [cursor EXCEPT ![k] = NextCursor(keys[k], @, policy)]
        /\ consumed' = consumed \cup {idx}
        /\ served' = [served EXCEPT ![k] = Append(@, idx)]
        /\ hand' = [hand EXCEPT ![c] = [idx |-> idx, fault |-> Overlay(c)]]
        /\ pc' = [pc EXCEPT ![c] = "taken"]

TakeRecorded(c) ==
    /\ pc[c] = "keyed"
    /\ ~Synthetic(Overlay(c))
    /\ CountAttempt(c)
    /\ Take(c, req[c].key)
    /\ UNCHANGED <<opened, req, reply, calls, missing, injected>>

(* Unknown key, or exhausted under ExhaustError.                           *)
Miss(c) ==
    /\ pc[c] = "keyed"
    /\ ~Synthetic(Overlay(c))
    /\ ~Hit(req[c].key)
    /\ CountAttempt(c)
    /\ Return(c, "noMatch")
    /\ UNCHANGED <<opened, cursor, consumed, req, hand, calls, missing, history>>

(* Mutant: the response is looked up again by the cursor, after the unlock. *)
Deliver_ByCursor(c) ==
    /\ pc[c] = "taken"
    /\ pc' = [pc EXCEPT ![c] = "idle"]
    /\ LET idx == cursor[req[c].key]
       IN  reply' = [reply EXCEPT ![c] =
                        [kind   |-> "recorded",
                         idx    |-> idx,
                         frames |-> ApplyModify(file[idx].frames, hand[c].fault)]]
    /\ UNCHANGED <<opened, table, req, hand, calls, missing, history>>

(* After the unlock: the HTTP path applies the modify fault to its copy of *)
(* the response, the MCP path only now reads the interaction of the index. *)
Deliver(c) ==
    /\ pc[c] = "taken"
    /\ pc' = [pc EXCEPT ![c] = "idle"]
    /\ reply' = [reply EXCEPT ![c] =
                    [kind   |-> "recorded",
                     idx    |-> hand[c].idx,
                     frames |-> ApplyModify(file[hand[c].idx].frames, hand[c].fault)]]
    /\ UNCHANGED <<opened, table, req, hand, calls, missing, history>>
-----------------------------------------------------------------------------
(* VerifyError, at any time and any number of times.                       *)
Unconsumed ==
    {i \in DOMAIN file :
        /\ Matchable(file[i])
        /\ i \notin consumed
        /\ ~ShadowsEveryAttempt(faults, file[i].method, file[i].path)}

Verify ==
    /\ phase = "ready"
    /\ missing' = Unconsumed
    /\ UNCHANGED <<opened, table, client, history>>

Next ==
    \/ IndexOne \/ IndexSkip \/ IndexFail \/ OpenDone
    \/ \E c \in Clients :
        \/ Call(c) \/ ContextDone(c) \/ KeyFails(c) \/ KeyDerived(c)
        \/ InjectFault(c) \/ TakeRecorded(c) \/ Miss(c) \/ Deliver(c)
    \/ Verify

Spec == Init /\ [][Next]_vars
-----------------------------------------------------------------------------
(* Type invariant.                                                         *)
Replies == [kind   : {"none", "canceled", "badRequest", "synthetic", "noMatch", "recorded"},
            idx    : Positions \cup {0},
            frames : Nat]

TypeOK ==
    /\ file \in Files
    /\ policy \in Policies
    /\ faults \in FaultSets
    /\ phase \in {"indexing", "ready", "failed"}
    /\ pos \in 1..(Len(file) + 1)
    /\ keys \in [Keys -> Seq(Positions)]
    /\ cursor \in [Keys -> Nat]
    /\ consumed \in SUBSET Positions
    /\ attempts \in [Keys -> Nat]
    /\ pc \in [Clients -> {"idle", "called", "keyed", "taken"}]
    /\ req \in [Clients -> Requests \cup {NoRequest}]
    /\ hand \in [Clients -> [idx : Positions \cup {0}, fault : Fault]]
    /\ reply \in [Clients -> Replies]
    /\ missing \in SUBSET Positions
    /\ calls \in 0..MaxCalls
    /\ served \in [Keys -> Seq(Positions)]
    /\ injected \in [Keys -> Nat]

(* Opening loses nothing and mixes nothing up: once the loop is over, every *)
(* interaction that has a persisted key, or else a derivable one, stands at *)
(* exactly one place of the group of THAT key, groups are in recorded       *)
(* order, and nothing else is in a group (cassette.go, index).              *)
FiledKey(it) == IF it.saved = NoKey THEN it.derived ELSE it.saved

IndexSound ==
    phase = "ready" =>
        \A i \in DOMAIN file, k \in Keys :
            LET places == {n \in DOMAIN keys[k] : keys[k][n] = i}
                filed  == FiledKey(file[i]) = k /\
                          (Matchable(file[i]) \/ file[i].saved # NoKey)
            IN  /\ Cardinality(places) = IF filed THEN 1 ELSE 0
                /\ \A m, n \in DOMAIN keys[k] : m < n => keys[k][m] < keys[k][n]

(* A reply that carries a recording carries one of the request's own key,   *)
(* whatever other clients did between the lookup and the read; its stream   *)
(* is shortened only for an HTTP request under a chaos overlay.             *)
OwnRecording ==
    \A c \in Clients :
        (pc[c] = "idle" /\ reply[c].kind = "recorded") =>
            /\ reply[c].idx \in DOMAIN file
            /\ LET it == file[reply[c].idx]
               IN  /\ FiledKey(it) = req[c].key
                   /\ reply[c].frames <= it.frames
                   /\ (req[c].kind = "mcp" \/ faults = <<>>) => reply[c].frames = it.frames

(* With only bounded synthetic faults configured, a key is refused at most  *)
(* once per ordinal the overlay names, however many clients retry it: the   *)
(* retry after the last of them is not refused again (faults.go: "a later   *)
(* retry can still reach the real recording", transport.go matchResponse).  *)
RetriesOutlastFaults ==
    LET synthetics == {i \in DOMAIN faults : Synthetic(faults[i])}
        ordinals   == {faults[i].attempt : i \in synthetics}
    IN  0 \notin ordinals => \A k \in Keys : injected[k] <= Cardinality(ordinals)

(* VerifyError accuses no recording that some client was given, and lets    *)
(* off an unplayed one only if the overlay has an unbounded synthetic fault *)
(* (cassette.go, VerifyError).                                              *)
Played == UNION {{served[k][n] : n \in DOMAIN served[k]} : k \in Keys}

VerifyExact ==
    [][Verify =>
        \A i \in DOMAIN file :
            IF i \in missing'
            THEN i \notin Played
            ELSE \/ i \in Played
                 \/ ~Matchable(file[i])
                 \/ \E j \in DOMAIN faults :
                        Synthetic(faults[j]) /\ faults[j].attempt = 0]_vars

(* The whole machine is a Tape: whatever clients, faults, cancellations and *)
(* misses do, the n-th recording handed out for a key is the one the tape   *)
(* and the exhaustion policy determine for n.                               *)
T == INSTANCE Tape WITH tape <- keys, sealed <- (phase = "ready"), given <- served

IsTape == T!Spec
===============================================================================
