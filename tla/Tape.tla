--------------------------------- MODULE Tape ---------------------------------
(***************************************************************************)
(* What a cassette promises, without clients, locks or cursors.  A tape    *)
(* holds, per match key, the positions of the recorded interactions in     *)
(* recorded order.  Once it is sealed, the n-th play of a key is a         *)
(* function of n, of the key's tape and of the exhaustion policy alone:    *)
(* nothing another key, another client or the interleaving does can change *)
(* which recording the n-th play gets.                                     *)
(***************************************************************************)
EXTENDS Integers, Sequences

CONSTANTS Keys, Positions

VARIABLES
    tape,     \* key -> recorded positions, in order
    sealed,   \* the tape is loaded: no more recordings, plays may start
    policy,   \* what a play past the end of a key's tape gets
    given     \* key -> the positions its plays were given, in order

vars == <<tape, sealed, policy, given>>

Empty == [k \in Keys |-> <<>>]

Init ==
    /\ tape = Empty
    /\ sealed = FALSE
    /\ policy \in {"Error", "RepeatLast", "Cycle"}
    /\ given = Empty

(* Recordings reach the tape in increasing position.                       *)
Put(k, i) ==
    /\ ~sealed
    /\ \A n \in DOMAIN tape[k] : tape[k][n] < i
    /\ tape' = [tape EXCEPT ![k] = Append(@, i)]
    /\ UNCHANGED <<sealed, policy, given>>

Seal ==
    /\ ~sealed
    /\ sealed' = TRUE
    /\ UNCHANGED <<tape, policy, given>>

(* The answer to the n-th play of a key with tape t.                       *)
Answer(t, n, p) ==
    IF n <= Len(t) THEN t[n]
    ELSE IF p = "RepeatLast" THEN t[Len(t)]
    ELSE t[((n - 1) % Len(t)) + 1]

Play(k) ==
    LET n == Len(given[k]) + 1
    IN  /\ sealed
        /\ tape[k] # <<>>
        /\ n > Len(tape[k]) => policy # "Error"
        /\ given' = [given EXCEPT ![k] = Append(@, Answer(tape[k], n, policy))]
        /\ UNCHANGED <<tape, sealed, policy>>

Next ==
    \/ \E k \in Keys, i \in Positions : Put(k, i)
    \/ Seal
    \/ \E k \in Keys : Play(k)

Spec == Init /\ [][Next]_vars
===============================================================================
