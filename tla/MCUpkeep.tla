------------------------------- MODULE MCUpkeep -------------------------------
(***************************************************************************)
(* A small instance of Upkeep: requests of two fields, and cassettes of    *)
(* one or two interactions, recorded with and without the scrubber, keyed  *)
(* by the whole body or without a volatile field, compressed, or written   *)
(* by hand without a key.                                                  *)
(***************************************************************************)
EXTENDS Upkeep, TLC

CONSTANTS f1, f2, x, y

Body(a, b) == (f1 :> a) @@ (f2 :> b)

Ok(b)  == [status |-> 200, body |-> b]
MCAnswers == {Ok("done"), Ok("pending")}

Request(kind, json, gzip, live, answer) ==
    [kind |-> kind, json |-> json, gzip |-> gzip, live |-> live, stored |-> live,
     saved |-> NoKey, answer |-> answer]

(* As record leaves them: keyed when live, scrubbed when saved.            *)
Tape(its, drop, scrub) ==
    LET keyed == [n \in DOMAIN its |-> [its[n] EXCEPT !.saved = LiveKey(its[n], drop)]]
    IN  [its |-> IF scrub THEN ScrubAll(keyed) ELSE keyed, volatile |-> drop]

Chat(live, answer) == Request("http", TRUE, FALSE, live, answer)

MCEdits == {<<f1, x>>, <<f2, y>>}

MCRecorded ==
    { \* the same request answered twice
      Tape(<<Chat(Body(x, Secret), Ok("pending")), Chat(Body(x, Secret), Ok("done"))>>, {}, TRUE),
      Tape(<<Chat(Body(x, y), Ok("pending")), Chat(Body(x, y), Ok("pending"))>>, {f1}, TRUE),
      Tape(<<Request("mcp", TRUE, FALSE, Body(x, y), Ok("done"))>>, {}, TRUE),
      Tape(<<Request("http", TRUE, TRUE, Body(x, Secret), Ok("done"))>>, {}, TRUE),
      Tape(<<Request("http", FALSE, FALSE, Body(x, Secret), Ok("done"))>>, {}, FALSE),
      \* hand-written
      [its |-> <<Chat(Body(x, y), Ok("done"))>>, volatile |-> {}] }
===============================================================================
