-------------------------------- MODULE Upkeep --------------------------------
(***************************************************************************)
(* The commands that edit a recorded cassette, and the match keys they     *)
(* must not break: scrub, prune, rekey and redact-field                    *)
(* (cmd/cassette/maintain.go), RekeyPath (rekey.go), stitch, merge and     *)
(* split (internal/analysis/compose.go and merge.go), and the self-check   *)
(* that is to tell an intact file from a broken one (conformance.go).      *)
(*                                                                         *)
(* A stored request is matched by the key saved with it, computed when it  *)
(* was live.  Scrubbing and redaction then change the stored body but not  *)
(* what a client sends, so a key derived again from the stored body may    *)
(* not be the key the client's request derives.  Each interaction carries  *)
(* "live", the request as a client sends it, to compare with; nothing in   *)
(* the code has it any more.                                               *)
(*                                                                         *)
(* A command that ends in an error leaves the file as it was.  Responses   *)
(* are a status and a body; the edits leave them alone or change all of a  *)
(* body's copies alike.                                                    *)
(***************************************************************************)
EXTENDS Integers, Sequences, FiniteSets

CONSTANTS
    Fields,    \* the JSON paths of a request body
    Plain,     \* the values no scrub pattern matches
    NoKey,     \* the empty match key
    Answers,   \* responses: records [status, body]
    Edits,     \* what a person may write into a body: pairs <<field, value>>
    Recorded,  \* the cassettes at hand: records [its, volatile]
    MaxLength  \* bound on the interactions of the edited file

Secret    == "secret"                   \* a value a scrub pattern matches
Sentinels == {"REDACTED", "[REDACTED]"} \* both contain scrub.Replacement
Values    == Plain \cup {Secret} \cup Sentinels

Bodies == [Fields -> Values]

(* raw: the digest is over bytes that were not decoded or canonicalized.   *)
Key == [kind : {"http", "mcp"}, raw : BOOLEAN,
        body : UNION {[S -> Values] : S \in SUBSET Fields}]

Interactions == [kind : {"http", "mcp"}, json : BOOLEAN, gzip : BOOLEAN,
                 live : [Fields -> Plain \cup {Secret}], stored : Bodies,
                 saved : Key \cup {NoKey}, answer : Answers]

ASSUME NoKeyAssumption == NoKey \notin Key

ASSUME PlainAssumption == Plain \cap ({Secret} \cup Sentinels) = {}

ASSUME EditsAssumption == Edits \subseteq Fields \X Plain

ASSUME MaxLengthAssumption == MaxLength \in Nat
-----------------------------------------------------------------------------
(* Match keys.                                                             *)

(* Mutant: the volatile paths stay in the digest.                          *)
KeyOf_KeepVolatile(e, body, drop) ==
    [kind |-> e.kind, raw |-> FALSE, body |-> body]

(* match.Key drops the volatile paths of a JSON body; the MCP keys drop    *)
(* none.  Method, path and tool are the same for all interactions here,    *)
(* and both sides remove a gzip encoding first.                            *)
KeyOf(e, body, drop) ==
    [kind |-> e.kind, raw |-> FALSE,
     body |-> IF e.kind = "http" /\ e.json
              THEN [f \in Fields \ drop |-> body[f]] ELSE body]

LiveKey(e, drop) == KeyOf(e, e.live, drop)
DerivedKey(e, drop) == KeyOf(e, e.stored, drop)

MT == INSTANCE MatchTable WITH Keys <- Key

IndexKey(e, drop) ==
    MT!IndexKey([kind |-> e.kind, saved |-> e.saved, derived |-> DerivedKey(e, drop)])

(* The interaction is filed under the key its client's request derives.    *)
Found(e, drop) == IndexKey(e, drop) = LiveKey(e, drop)

(* The stored body contains scrub.Replacement; a gzip body never does.     *)
Scrubbed(e) == ~e.gzip /\ \E f \in Fields : e.stored[f] \in Sentinels

(* The fields of the stored body that are not what the client sends.       *)
Hidden(e) == {f \in Fields : e.stored[f] # e.live[f]}

(* A stored body differs from the live request only where it was scrubbed  *)
(* or redacted, and never when it is compressed.                           *)
Shows(e) == \A f \in Hidden(e) : ~e.gzip /\ e.stored[f] \in Sentinels

ASSUME RecordedAssumption ==
    /\ Recorded \subseteq [its : Seq(Interactions), volatile : SUBSET Fields]
    /\ \A g \in Recorded : \A n \in DOMAIN g.its : Shows(g.its[n])

(* No hidden field enters the interaction's key.                           *)
Rederivable(e, drop) ==
    Hidden(e) \subseteq (IF e.kind = "http" /\ e.json THEN drop ELSE {})
-----------------------------------------------------------------------------
(* Replay under the Error policy.  filed and asked map positions to keys:  *)
(* what is filed under which key, and what is asked in which order.        *)

Turn(keys, n) == Cardinality({m \in DOMAIN keys : m < n /\ keys[m] = keys[n]})

(* What the n-th position's request takes, at most one interaction: the    *)
(* first request of a key takes the first interaction of its group, and so *)
(* on; past the end of the group there is nothing.                         *)
Takes(filed, asked, n) ==
    {p \in DOMAIN filed : filed[p] = asked[n] /\ Turn(filed, p) = Turn(asked, n)}

Filed(its, drop) == [n \in DOMAIN its |-> IndexKey(its[n], drop)]

(* The clients ask everything in recorded order and hear what was recorded.*)
Replays(its, drop) ==
    LET asked == [n \in DOMAIN its |-> LiveKey(its[n], drop)]
    IN  \A n \in DOMAIN its : \E p \in Takes(Filed(its, drop), asked, n) :
            its[p].answer = its[n].answer
-----------------------------------------------------------------------------
(* Conformance.                                                            *)

(* bodyScrubbed with a key: the stored key is trusted, nothing is asked.   *)
Trusted(e) == e.kind = "http" /\ Scrubbed(e) /\ e.saved # NoKey

(* Mutant: an MCP key is taken as it is.                                   *)
KeyOK_HTTPOnly(e, drop) ==
    \/ e.saved = NoKey
    \/ e.saved = DerivedKey(e, drop)
    \/ e.kind = "mcp"
    \/ Trusted(e)

KeyOK(e, drop) ==
    \/ e.saved = NoKey
    \/ e.saved = DerivedKey(e, drop)
    \/ Trusted(e)

(* The request conformHTTP rebuilds.  It has lost its Content-Encoding, so *)
(* a gzip body is digested as it is.                                       *)
RebuiltKey(e, drop) == [DerivedKey(e, drop) EXCEPT !.raw = e.gzip]

(* Mutant: the trusted interactions are asked as well.                     *)
Driven_All(its) == {n \in DOMAIN its : its[n].kind = "http"}

Driven(its) == {n \in DOMAIN its : its[n].kind = "http" /\ ~Trusted(its[n])}

Conforms(its, drop) ==
    LET asked == [n \in Driven(its) |-> RebuiltKey(its[n], drop)]
    IN  /\ \A n \in DOMAIN its : KeyOK(its[n], drop)
        /\ \A n \in Driven(its) : \E p \in Takes(Filed(its, drop), asked, n) :
              its[p].answer.body = its[n].answer.body
-----------------------------------------------------------------------------
VARIABLES
    file,     \* f.Interactions of the cassette on disk
    volatile  \* f.Match.VolatileJSONPaths

vars == <<file, volatile>>

(* Types, and what a stored body may differ in from its live request.      *)
TypeOK ==
    /\ file \in Seq(Interactions)
    /\ Len(file) <= MaxLength
    /\ volatile \subseteq Fields
    /\ \A n \in DOMAIN file : Shows(file[n])

Init ==
    \E g \in Recorded :
        /\ Len(g.its) <= MaxLength
        /\ file = g.its
        /\ volatile = g.volatile

(* scrub.Config.File: the patterns match text, not a compressed body.      *)
ScrubOne(e) ==
    IF e.gzip THEN e
    ELSE [e EXCEPT !.stored =
            [f \in Fields |-> IF e.stored[f] = Secret THEN "REDACTED" ELSE e.stored[f]]]

ScrubAll(its) == [n \in DOMAIN its |-> ScrubOne(its[n])]

Scrub ==
    /\ file' = ScrubAll(file)
    /\ UNCHANGED volatile

(* The interactions at the positions keep, in order.                       *)
Select(its, keep) ==
    [i \in 1 .. Cardinality(keep) |->
        its[CHOOSE n \in keep : Cardinality({m \in keep : m < n}) = i - 1]]

Prune ==
    \E pruned \in SUBSET DOMAIN file \ {{}} :
        /\ file' = ScrubAll(Select(file, DOMAIN file \ pruned))
        /\ UNCHANGED volatile

(* rekey.File.                                                             *)
RekeyOne(e, drop) == [e EXCEPT !.saved = DerivedKey(e, drop)]

RekeyAll(its, drop) == [n \in DOMAIN its |-> RekeyOne(its[n], drop)]

(* Mutant: the guard looks at the response side only.                      *)
Corrupts_Never(e, drop) == FALSE

(* What cmdRekey refuses without --force.                                  *)
Corrupts(e, drop) ==
    Trusted(e) /\ DerivedKey(e, drop) # e.saved

(* Mutant: the keys that are there stay.                                   *)
Rekey_MissingOnly(force) ==
    /\ force \/ \A n \in DOMAIN file : ~Corrupts(file[n], volatile)
    /\ file' = ScrubAll([n \in DOMAIN file |-> IF file[n].saved = NoKey
                            THEN RekeyOne(file[n], volatile) ELSE file[n]])
    /\ UNCHANGED volatile

(* cmdRekey.                                                               *)
Rekey(force) ==
    /\ force \/ \A n \in DOMAIN file : ~Corrupts(file[n], volatile)
    /\ file' = ScrubAll(RekeyAll(file, volatile))
    /\ UNCHANGED volatile

(* RekeyPath, called with the match config of the file: no guard, and no   *)
(* scrub before it saves.                                                  *)
RekeyPath ==
    /\ file' = RekeyAll(file, volatile)
    /\ UNCHANGED volatile

RedactOne(e, f) ==
    IF e.json /\ ~e.gzip THEN [e EXCEPT !.stored[f] = "[REDACTED]"] ELSE e

RedactAll(its, f) == [n \in DOMAIN its |-> RedactOne(its[n], f)]

(* Mutant: the redacted path replaces the paths already volatile.          *)
AddVolatile_Replace(drop, f) == {f}

AddVolatile(drop, f) == drop \cup {f}

RedactField(f) ==
    LET drop == AddVolatile(volatile, f)
    IN  /\ file' = ScrubAll(RekeyAll(RedactAll(file, f), drop))
        /\ volatile' = drop

(* analysis.Stitch.                                                        *)
Stitch(g) ==
    /\ Len(file) + Len(g.its) <= MaxLength
    /\ file' = ScrubAll(file \o g.its)
    /\ volatile' = volatile \cup g.volatile

(* logicalKey: without a saved key the stored bytes stand for the request. *)
LogicalKey(e) ==
    IF e.saved # NoKey THEN e.saved
    ELSE [KeyOf(e, e.stored, {}) EXCEPT !.raw = e.gzip \/ e.kind = "mcp"]

Identity(e) == <<LogicalKey(e), e.gzip, e.stored, e.answer.body>>

(* Mutant: an interaction that repeats a request is a duplicate.           *)
Duplicate_ByKey(its, n) ==
    \E m \in 1 .. n - 1 : LogicalKey(its[m]) = LogicalKey(its[n])

Duplicate(its, n) == \E m \in 1 .. n - 1 : Identity(its[m]) = Identity(its[n])

Distinct(its) == Select(its, {n \in DOMAIN its : ~Duplicate(its, n)})

(* analysis.Merge.                                                         *)
Merge(g) ==
    /\ Len(file) + Len(g.its) <= MaxLength
    /\ file' = ScrubAll(Distinct(file \o g.its))
    /\ volatile' = volatile \cup g.volatile

(* analysis.Split, one of the files it writes: by "provider" the MCP calls *)
(* part from the HTTP ones, by "tool" the turns that call different tools. *)
Split(keep) ==
    /\ file' = ScrubAll(Select(file, keep))
    /\ UNCHANGED volatile

SplitByProvider ==
    \E k \in {"http", "mcp"} : Split({n \in DOMAIN file : file[n].kind = k})

SplitByTool ==
    \E a \in Answers : Split({n \in DOMAIN file : file[n].answer.body = a.body})

(* A person edits a stored body so that it matches another request.        *)
EditOne(e, edit) ==
    [e EXCEPT !.stored[edit[1]] = edit[2], !.live[edit[1]] = edit[2]]

HandEdit(n, edit) ==
    /\ ~file[n].gzip
    /\ file' = [file EXCEPT ![n] = EditOne(@, edit)]
    /\ UNCHANGED volatile

Next ==
    \/ Scrub
    \/ Prune
    \/ \E force \in BOOLEAN : Rekey(force)
    \/ RekeyPath
    \/ \E f \in Fields : RedactField(f)
    \/ \E g \in Recorded : Stitch(g) \/ Merge(g)
    \/ SplitByProvider
    \/ SplitByTool
    \/ \E n \in DOMAIN file, edit \in Edits : HandEdit(n, edit)

Spec == Init /\ [][Next]_vars
-----------------------------------------------------------------------------
(* Properties.                                                             *)

Keyed(its) == \A n \in DOMAIN its : its[n].saved # NoKey

Faithful(its, drop) == \A n \in DOMAIN its : Found(its[n], drop)

(* A cassette whose interactions are all filed under the keys their        *)
(* clients derive stays so, and replays in recorded order, through scrub,  *)
(* prune and split; through stitch with a cassette of the same match       *)
(* config; through a rekey that is not refused, unless an MCP body was     *)
(* redacted; and through redact-field where no other redacted field enters *)
(* a key (maintain.go, compose.go).                                        *)
SafeEdit ==
    \/ Scrub \/ Prune \/ SplitByProvider \/ SplitByTool
    \/ /\ Rekey(FALSE)
       /\ \A n \in DOMAIN file : file[n].kind = "mcp" => Rederivable(file[n], volatile)
    \/ \E f \in Fields :
          /\ RedactField(f)
          /\ \A n \in DOMAIN file :
                Rederivable(RedactOne(file[n], f), volatile \cup {f})
    \/ \E g \in Recorded :
          /\ Stitch(g)
          /\ g.volatile = volatile
          /\ Keyed(g.its) /\ Faithful(g.its, volatile)

KeepsReplay ==
    [][Keyed(file) /\ Faithful(file, volatile) /\ SafeEdit
       => Faithful(file', volatile') /\ Replays(file', volatile')]_vars

(* Whatever was edited before, a rekey that is not refused makes the       *)
(* cassette replay, if no redacted field enters a key (cmdRekey).          *)
RekeyRepairs ==
    [][Rekey(FALSE) /\ (\A n \in DOMAIN file : Rederivable(file[n], volatile))
       => Faithful(file', volatile') /\ Replays(file', volatile')]_vars

(* Merge drops copies and nothing else: every response body recorded for a *)
(* key is still there (merge.go, Merge).                                   *)
Recordings(its) == {<<its[n].saved, its[n].answer.body>> : n \in DOMAIN its}

MergeKeepsBodies ==
    [][\A g \in Recorded :
          Keyed(file) /\ Keyed(g.its) /\ Merge(g)
          => Recordings(file') = Recordings(file) \cup Recordings(g.its)]_vars

(* A cassette with nothing redacted that passes conformance replays, its   *)
(* MCP calls included, though conformance does not ask those (conformance.go). *)
ConformanceSound ==
    /\ \A n \in DOMAIN file : Hidden(file[n]) = {}
    /\ Conforms(file, volatile)
    => Replays(file, volatile)

(* Conformance accepts every cassette that is filed as its clients ask, if *)
(* no body is compressed, no MCP body is redacted, and the interactions of *)
(* a key are all redacted or all intact (conformance.go).                  *)
ConformanceAccepts ==
    /\ Faithful(file, volatile)
    /\ \A n \in DOMAIN file :
          /\ ~file[n].gzip
          /\ file[n].kind = "mcp" => Hidden(file[n]) = {}
    /\ \A m, n \in DOMAIN file :
          LiveKey(file[m], volatile) = LiveKey(file[n], volatile)
          => (Trusted(file[m]) <=> Trusted(file[n]))
    => Conforms(file, volatile)
===============================================================================
