---------------------------- MODULE Comparisons ----------------------------
(***************************************************************************)
(* What the commands that compare recordings report: diff, bisect,         *)
(* coverage and shrink (internal/analysis/diffrec.go, bisect.go,           *)
(* coverage.go, refusal.go).                                               *)
(***************************************************************************)
EXTENDS Recordings

CONSTANT Phrases  \* the pieces of text that give a refusal away

-----------------------------------------------------------------------------
(* Two recordings, turn by turn *)

Shorter(ta, tb) == Min({Len(ta), Len(tb)})

\* The inputs that differ; only bodies in the messages shape have all of them.
AxisDiff(a, b) ==
  LET Messages(r) == IF r.shape = "messages" THEN r.msgs ELSE <<>>
      System(r)   == IF r.shape = "messages" THEN r.system ELSE <<>>
  IN  {x \in {"system", "messages", "rest"} :
         CASE x = "system"   -> System(a) # System(b)
           [] x = "messages" -> Messages(a) # Messages(b)
           [] x = "rest"     -> a.rest # b.rest}

ArgsOf(tools, name) ==
  LET own == Where(tools, LAMBDA k : tools[k].name = name) IN [k \in DOMAIN own |-> tools[own[k]].args]

(* Mutant: the calls are matched by name and their arguments are not looked at. *)
DiffTools_NamesOnly(a, b) ==
  {<<"removed", a[k].name>> : k \in {i \in DOMAIN a : ArgsOf(b, a[i].name) = <<>>}}
  \cup {<<"added", b[k].name>> : k \in {i \in DOMAIN b : ArgsOf(a, b[i].name) = <<>>}}

\* The calls of a name are compared in their order; what one side has more is added or removed.
DiffTools(a, b) ==
  LET names == {a[k].name : k \in DOMAIN a} \cup {b[k].name : k \in DOMAIN b}
      Changes(n) ==
        LET la == ArgsOf(a, n)
            lb == ArgsOf(b, n)
        IN  {<<"args", n, k>> : k \in {i \in 1 .. Shorter(la, lb) : la[i] # lb[i]}}
            \cup {<<"removed", n, k>> : k \in (Len(lb) + 1) .. Len(la)}
            \cup {<<"added", n, k>> : k \in (Len(la) + 1) .. Len(lb)}
  IN  UNION {Changes(n) : n \in names}

TurnDiff(i, root, a, b) ==
  LET Changes(ta, tb) ==
        [turn |-> i, root |-> root, text |-> ta.text # tb.text, tools |-> DiffTools(ta.tools, tb.tools),
         finish |-> ta.finish # tb.finish, axes |-> AxisDiff(a.request, b.request)]
  IN  Changes(TurnOf(a), TurnOf(b))

Divergent(ta, tb) ==
  {i \in 1 .. Shorter(ta, tb) : Digest(TurnOf(ta[i])) # Digest(TurnOf(tb[i]))}

DiffRecordings(f, g) ==
  LET Report(ta, tb, at) ==
        [turns  |-> {TurnDiff(i, \A k \in at : i <= k, ta[i], tb[i]) : i \in at},
         extraA |-> Len(ta) - Shorter(ta, tb),
         extraB |-> Len(tb) - Shorter(ta, tb)]
  IN  Report(HTTPTurns(f), HTTPTurns(g), Divergent(HTTPTurns(f), HTTPTurns(g)))

Diverged(d) == d.turns # {} \/ d.extraA # 0 \/ d.extraB # 0

NoDivergence == [turn |-> 0, axes |-> {}]

\* The first divergent turn, counted from 1; 0 if there is none.
Bisect(f, g) ==
  LET Culprit(i, a, b) == [turn |-> i, axes |-> AxisDiff(a.request, b.request)]
      Report(ta, tb, at) ==
        IF at # {} THEN Culprit(Min(at), ta[Min(at)], tb[Min(at)])
        ELSE IF Len(ta) # Len(tb) THEN [turn |-> Shorter(ta, tb) + 1, axes |-> {"length"}]
        ELSE NoDivergence
  IN  Report(HTTPTurns(f), HTTPTurns(g), Divergent(HTTPTurns(f), HTTPTurns(g)))

-----------------------------------------------------------------------------
(* A corpus *)

ClassifyRefusal(t) ==
  IF t.tools # <<>> THEN "complied"
  ELSE IF t.text = <<>> THEN "unknown"
  ELSE IF \E k \in DOMAIN t.text : t.text[k] \in Phrases THEN "refused" ELSE "complied"

Shown(d) == d.unary \/ d.renderable

Counted(it) == it.kind = "http" /\ Shown(DecodeInteraction(it))

\* The cells of the coverage matrix a turn fills.
Cells(it) ==
  LET OfTurn(t) == {<<"tool", t.tools[k].name>> : k \in DOMAIN t.tools}
                   \cup {<<"finish", r>> : r \in {t.finish} \ {""}}
                   \cup {<<"refusal", ClassifyRefusal(t)>>}
  IN  {<<"provider", it.dialect>>} \cup (IF it.streaming THEN OfTurn(TurnOf(it)) ELSE {})

CountedTurns(f) == {i \in DOMAIN f.turns : Counted(f.turns[i])}

Coverage(files) == UNION {UNION {Cells(f.turns[i]) : i \in CountedTurns(f)} : f \in files}

(* Mutant: digests are no signals. *)
SignalsOf_CellsOnly(f) == Coverage({f})

SignalsOf(f) ==
  {<<"digest", Digest(TurnOf(f.turns[i]))>> : i \in CountedTurns(f)} \cup Coverage({f})

Gain(signals, kept, p) == Cardinality(signals[p] \ UNION {signals[k] : k \in kept})

\* The files that add most, if one adds anything.
Best(signals, kept) ==
  {p \in DOMAIN signals : /\ Gain(signals, kept, p) > 0
                          /\ \A q \in DOMAIN signals : Gain(signals, kept, q) <= Gain(signals, kept, p)}

Round(signals, kept) ==
  IF Best(signals, kept) = {} THEN kept ELSE kept \cup {CHOOSE p \in Best(signals, kept) : TRUE}

KeptUpTo(signals) ==
  LET upTo[n \in 0 .. Cardinality(DOMAIN signals)] == IF n = 0 THEN {} ELSE Round(signals, upTo[n - 1]) IN upTo

\* The greedy cover, in as many rounds as there are files; one after the last gain adds nothing.
Cover(signals) == KeptUpTo(signals)[Cardinality(DOMAIN signals)]

\* files: the recordings by path.
Shrink(files) == Cover([p \in DOMAIN files |-> SignalsOf(files[p])])
=============================================================================
