------------------------------- MODULE MCRecord -------------------------------
(***************************************************************************)
(* A small instance of CassetteRecord: concurrent calls against a server   *)
(* that answers with unary bodies and event streams, whole or cut off,     *)
(* plain or gzip, one of them carrying a credential.                       *)
(***************************************************************************)
EXTENDS CassetteRecord

Resp(streaming, gzip, chunks, arrive, secret) ==
    [streaming |-> streaming, gzip |-> gzip, chunks |-> chunks,
     arrive |-> arrive, secret |-> secret]

MCResponses ==
    { Resp(FALSE, FALSE, 1, 1, FALSE),      \* a unary answer,
      Resp(FALSE, TRUE,  1, 0, TRUE),       \* one whose gzip body is cut off,
      Resp(TRUE,  FALSE, 2, 2, FALSE),      \* a stream,
      Resp(TRUE,  FALSE, 2, 1, FALSE),      \* one that breaks,
      Resp(TRUE,  TRUE,  1, 1, FALSE),      \* a compressed stream,
      Resp(TRUE,  TRUE,  2, 1, TRUE) }      \* and one that breaks

CallSymmetry == Permutations(Calls)
===============================================================================
