------------------------------- MODULE Audits -------------------------------
(***************************************************************************)
(* What leaves the process: egress findings, taint flows, the audit bundle *)
(* and the policy gate over a corpus (internal/egress, internal/analysis   *)
(* taint.go, audit.go, policy.go, merge.go).                               *)
(*                                                                         *)
(* A sensitive value is its data class and a fingerprint.  Where a value   *)
(* is found in a body does not matter; patterns, masking and the order of  *)
(* the findings are left out, and so is the token budget.                  *)
(***************************************************************************)
EXTENDS ToolContracts

CONSTANT SecretClasses  \* the data classes whose values the scrubber's patterns know, too

-----------------------------------------------------------------------------
\* The interactions at these places of a list, in their order.
Picking(picked, it, n, places) == IF n \in places THEN Append(picked, it) ELSE picked

PickedUpTo(f, places) ==
  LET upTo[n \in 0 .. Len(f)] == IF n = 0 THEN <<>> ELSE Picking(upTo[n - 1], f[n], n, places) IN upTo

Picked(f, places) == PickedUpTo(f, places)[Len(f)]

-----------------------------------------------------------------------------
(* taint *)

Flow(kind, source, sink, outbound) == [kind |-> kind, source |-> source, sink |-> sink, outbound |-> outbound]

\* A request carries values out: those seen in an earlier turn flow, others are the user's.
Asks(seen, n, values) ==
  [v \in DOMAIN seen \cup values |->
     IF v \notin DOMAIN seen THEN Flow("user-input", n, n, 1)
     ELSE IF v \in values /\ seen[v].source < n THEN Flow(seen[v].kind, seen[v].source, n, seen[v].outbound + 1)
     ELSE seen[v]]

\* A response is where the values that were not seen before come from.
Answers(seen, n, values) ==
  [v \in DOMAIN seen \cup values |-> IF v \in DOMAIN seen THEN seen[v] ELSE Flow("model-output", n, 0, 0)]

(* Mutant: the response of a turn is looked at before its request. *)
TaintTurn_ResponseFirst(seen, n, carries) == Asks(Answers(seen, n, carries.answered), n, carries.asked)

TaintTurn(seen, n, carries) == Answers(Asks(seen, n, carries.asked), n, carries.answered)

HTTPTurns(f) == Picked(f, {i \in DOMAIN f : f[i].kind = "http"})

FlowsUpTo(turns) ==
  LET upTo[n \in 0 .. Len(turns)] == IF n = 0 THEN <<>> ELSE TaintTurn(upTo[n - 1], n, turns[n].carries) IN upTo

\* The flows by value.  Turns are the http turns, counted from 1.
Taint(f) ==
  LET seen == FlowsUpTo(HTTPTurns(f))[Len(HTTPTurns(f))]
  IN  [v \in {w \in DOMAIN seen : seen[w].sink > seen[w].source} |-> seen[v]]

Exfils(flows) == {v \in DOMAIN flows : flows[v].kind = "model-output"}

-----------------------------------------------------------------------------
(* egress-audit, audit *)

\* What the request of an interaction, MCP calls included, sends out.
Outbound(it) == it.carries.asked \cup it.carries.beside

EgressAudit(f) == UNION {{<<i, v.class>> : v \in Outbound(f[i])} : i \in DOMAIN f}

\* Two interactions are copies if key and bodies agree; headers outside the key are not looked at.
Identity(it) == [it EXCEPT !.carries = Carries(@.asked, {}, @.answered)]

\* The first of each group of copies, in the order of the files.
Merge(files) ==
  LET all == FlattenSeq(files)
  IN  Picked(all, {i \in DOMAIN all : \A k \in 1 .. (i - 1) : Identity(all[k]) # Identity(all[i])})

\* Counted over the files as they are.
ToolsExercised(files) ==
  UNION {UNION {{c.name : c \in files[k][i].calls} : i \in DOMAIN files[k]} : k \in DOMAIN files}

(* Mutant: the recordings are audited one after the other and the last bundle stays. *)
BuildAudit_Last(files) ==
  LET Bundle(merged) == [egress |-> EgressAudit(merged), taint |-> Taint(merged), tools |-> ToolsExercised(files)]
  IN  Bundle(Merge(<<files[Len(files)]>>))

BuildAudit(files) ==
  LET Bundle(merged) == [egress |-> EgressAudit(merged), taint |-> Taint(merged), tools |-> ToolsExercised(files)]
  IN  Bundle(Merge(files))

-----------------------------------------------------------------------------
(* policy *)

Policy(secrets, exfil, forbidden, tools) ==
  [secrets |-> secrets, exfil |-> exfil, forbidden |-> forbidden, tools |-> tools]

SecretsIn(it) == {v \in it.carries.asked \cup it.carries.beside \cup it.carries.answered : v.class \in SecretClasses}

\* The rules that fail.
CheckPolicy(p, files) ==
  LET merged    == Merge(files)
      Failed(b) ==
        {r \in {"secrets"} : p.secrets /\ \E i \in DOMAIN merged : SecretsIn(merged[i]) # {}}
        \cup {r \in {"egress"} : \E e \in b.egress : e[2] \in p.forbidden}
        \cup {r \in {"exfil"} : p.exfil /\ Exfils(b.taint) # {}}
        \cup {r \in {"coverage"} : ~(p.tools \subseteq b.tools)}
  IN  Failed(BuildAudit(files))
=============================================================================
