-------------------------------- MODULE Faults --------------------------------
(***************************************************************************)
(* The chaos overlay of faults.go: an ordered list of faults, each of them *)
(* selected by method, path suffix and attempt ordinal, that either        *)
(* answers a request with a synthetic failure or damages the recorded      *)
(* stream it is answered with.                                             *)
(*                                                                         *)
(* A fault is a record                                                     *)
(*   method   "" for any method                                            *)
(*   path     a path suffix, as a sequence of segments; <<>> for any path  *)
(*   attempt  1-based attempt ordinal of the key, 0 for every attempt      *)
(*   status   > 0 for a synthetic failure, 0 for a modify fault            *)
(*   keep     TruncateAfterFrame, or -1 for the nil pointer                *)
(*   drop     DropTerminal                                                 *)
(* The body and the Retry-After header of a synthetic response are data no *)
(* property looks at.                                                      *)
(***************************************************************************)
EXTENDS Integers, Sequences, SequencesExt, FiniteSetsExt

CONSTANTS
    Methods,    \* request methods; "" is not one of them
    Segments    \* the segments URL paths are made of

Fault == [method : Methods \cup {""}, path : Seq(Segments), attempt : Nat,
          status : Nat, keep : Int, drop : BOOLEAN]

(* What lookup's nil stands for: not synthetic, and modifies nothing.      *)
AnyPath == <<>>

NoFault == [method |-> "", path |-> AnyPath, attempt |-> 0, status |-> 0,
            keep |-> -1, drop |-> FALSE]

Synthetic(f) == f.status > 0

(* Mutant: a bounded fault stays armed once its attempt is reached.        *)
Matches_AtLeast(f, method, path, attempt) ==
    /\ f.method \in {"", method}
    /\ IsSuffix(f.path, path)
    /\ f.attempt <= attempt

Matches(f, method, path, attempt) ==
    /\ f.method \in {"", method}
    /\ IsSuffix(f.path, path)
    /\ f.attempt \in {0, attempt}

(* The FIRST entry of the overlay that matches, whatever its kind.         *)
Lookup(fs, method, path, attempt) ==
    LET hits == {i \in DOMAIN fs : Matches(fs[i], method, path, attempt)}
    IN  IF hits = {} THEN NoFault ELSE fs[Min(hits)]

(* Mutant: a bounded synthetic fault is taken for an unbounded one.        *)
ShadowsEveryAttempt_Bounded(fs, method, path) ==
    \E i \in DOMAIN fs :
        Synthetic(fs[i]) /\ Matches(fs[i], method, path, fs[i].attempt)

(* An unbounded synthetic fault covers the route.  Unlike Lookup it looks  *)
(* at every entry, not at the first that matches.                          *)
ShadowsEveryAttempt(fs, method, path) ==
    \E i \in DOMAIN fs :
        Synthetic(fs[i]) /\ fs[i].attempt = 0 /\ Matches(fs[i], method, path, 0)

(* applyModify on a response of that many frames: truncation first, then   *)
(* the terminal frame of what is left.                                     *)
ApplyModify(frames, f) ==
    LET cut == IF f.keep >= 0 /\ f.keep < frames THEN f.keep ELSE frames
    IN  IF Synthetic(f) THEN frames
        ELSE IF f.drop /\ cut > 0 THEN cut - 1 ELSE cut
===============================================================================
