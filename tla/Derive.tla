------------------------------- MODULE Derive -------------------------------
(***************************************************************************)
(* A directory of recordings and the commands that derive one from         *)
(* another, run after each other.                                          *)
(*                                                                         *)
(* An action is a command that succeeds: it loads its file, derives, and   *)
(* saves.  One that refuses its arguments or its turn writes nothing and is *)
(* a stutter.  Saving is atomic here and no process is concurrent: module  *)
(* Store is about that.  The scrubber finds nothing: modules Upkeep and    *)
(* CassetteRecord are about it.                                            *)
(***************************************************************************)
EXTENDS Derivations, Comparisons, Verdicts

CONSTANTS Goldens,      \* for each path of the directory "in", the recordings it may hold at first
          EditLists,    \* the edits a graft is asked for
          Slots,        \* the slots distill fills, each with the edits that fill it
          Targets,      \* the dialects a recording is ported to
          Screenplays,  \* what author compiles
          MaxCommands   \* the commands that are run

\* A path is the directory and the name, to which variants add.
IsPath(p) == p \in Seq(Range(p)) /\ p # <<>>

ASSUME DeriveAssumption ==
  /\ MaxCommands \in Nat /\ Targets \subseteq Dialects
  /\ IsFiniteSet(DOMAIN Goldens) /\ \A p \in DOMAIN Goldens : IsPath(p) /\ p[1] = "in"
  /\ EditLists \cup Slots \subseteq Seq(EditsOf(Words))

\* The words the commands bring along.
ASSUME WordsAssumption == FinishReasons \cup {Unset, "tool", "}"} \subseteq Words

\* A recording that the recorder wrote: it is derived from nothing, and its MCP calls have the
\* key of their method, tool and arguments.
ASSUME GoldensAssumption ==
  \A p \in DOMAIN Goldens : \A f \in Goldens[p] :
    /\ IsFile(f) /\ f.provenance = <<>> /\ MCPKeysHold(f)
    /\ \A i \in DOMAIN f.turns : IsAnswer(Words, f.turns[i])

\* A url decides by one of the dialects, and an empty one does not.
ASSUME ScreenplaysAssumption ==
  \A s \in Screenplays :
    /\ s.turns \in Seq(Range(s.turns))
    /\ \A i \in DOMAIN s.turns :
         LET t == s.turns[i]
         IN  /\ t.text \in Seq(Words) /\ t.finish \in Words /\ t.url \in Dialects \cup {""}
             /\ t.calls \in Seq([name : Words, args : Seq(Words)])

VARIABLES disk,   \* the recordings, by path
          born,   \* the behavior digests of the files each was derived from, the first one first
          last,   \* the last command and, by the path it wrote, the file it read
          runs    \* the commands run so far

deriveVars == <<disk, born, last, runs>>

EditOf(op, i, edits, to) == [op |-> op, from |-> <<>>, at |-> i, edits |-> edits, to |-> to]

Command(op) == EditOf(op, 0, <<>>, "")

Toward(op, to) == EditOf(op, 0, <<>>, to)

DeriveInit ==
  /\ disk \in [DOMAIN Goldens -> UNION {Goldens[p] : p \in DOMAIN Goldens}]
  /\ \A p \in DOMAIN Goldens : disk[p] \in Goldens[p]
  /\ born = [p \in DOMAIN disk |-> <<>>]
  /\ last = Command("none")
  /\ runs = 0

\* What was there, with what is written in its place or beside it.
Over(new, old) == [q \in DOMAIN new \cup DOMAIN old |-> IF q \in DOMAIN new THEN new[q] ELSE old[q]]

\* written: the files by path; from: the path of the file each was derived from.
SaveAll(command, written, from) ==
  /\ runs < MaxCommands
  /\ runs' = runs + 1
  /\ disk' = Over(written, disk)
  /\ born' = Over([q \in DOMAIN written |-> Append(born[from[q]], BehaviorDigest(disk[from[q]]))], born)
  /\ last' = [command EXCEPT !.from = [q \in DOMAIN written |-> disk[from[q]]]]

SaveOne(command, p, out, f) == SaveAll(command, [q \in {out} |-> f], [q \in {out} |-> p])

\* No directory has another in it.
Into(dir, p) == <<dir>> \o Tail(p)

\* Beside the source or over it.
Outs(p) == {p, Into("out", p)}

Graft(p, out, i, edits, dropped, keep) ==
  /\ DecodeInteraction(disk[p].turns[i]).renderable
  /\ ~GraftEditsFail(TurnOf(disk[p].turns[i]), edits)
  /\ SaveOne(IF dropped = {} /\ keep = Len(disk[p].turns) THEN EditOf("graft", i, edits, "") ELSE Command("graft-more"),
             p, out, Grafted(disk[p], i, ApplyGraftEdits(TurnOf(disk[p].turns[i]), edits, dropped), keep))

Branch(p, out, i, edits) ==
  LET t == TurnOf(disk[p].turns[i])
  IN  /\ edits # <<>> => DecodeInteraction(disk[p].turns[i]).renderable /\ ~GraftEditsFail(t, edits)
      /\ SaveOne(EditOf("branch", i, edits, ""), p, out,
                 BranchSeed(IF edits = <<>> THEN disk[p] ELSE Spliced(disk[p], i, ApplyGraftEdits(t, edits, {})), i))

VariantOf(p, name) == Append(Into("out", p), name)

\* made: names, each with a file derived from the one at p.
SaveVariants(command, p, made) ==
  LET paths == {VariantOf(p, v[1]) : v \in made}
  IN  SaveAll(command, [q \in paths |-> (CHOOSE v \in made : VariantOf(p, v[1]) = q)[2]], [q \in paths |-> p])

\* One file for each value, up to the first value that cannot be filled in.
Distill(p, i, slot) ==
  LET Fails(t, k) == \E m \in 1 .. k : EditFails(t, slot[m])
      Made(t) == {<<ToString(k), Distilled(disk[p], i, Edited(t, slot[k]))>> : k \in {m \in DOMAIN slot : ~Fails(t, m)}}
  IN  /\ DecodeInteraction(disk[p].turns[i]).renderable
      /\ \E made \in {Made(TurnOf(disk[p].turns[i]))} :
           made # {} /\ SaveVariants(EditOf("distill", i, slot, ""), p, made)

PortTo(p, out, to) ==
  SaveOne(Toward("port", to), p, out, Stamped(Port(disk[p], to), disk[p], "port"))

\* A directory of recordings and the one its files are copied or migrated to, under their names.
Dirs == {<<"in", "out">>, <<"out", "next">>}

Listed(dir) == {p \in DOMAIN disk : p[1] = dir}

Copies(paths, dir) ==
  [q \in {Into(dir, p) : p \in paths} |-> CHOOSE p \in paths : Into(dir, p) = q]

\* A whole directory; the files whose behavior would change are left out.
Migrate(dirs, to) ==
  \E from \in {Copies({p \in Listed(dirs[1]) : ~DigestDrift(CollectTurns(disk[p]), CollectTurns(Port(disk[p], to)))}, dirs[2])} :
    /\ from # <<>>
    /\ SaveAll(Toward("migrate", to),
               [q \in DOMAIN from |-> Stamped(Port(disk[from[q]], to), disk[from[q]], "migrate")], from)

Canonicalize1(p, out) == SaveOne(Command("canonicalize"), p, out, CanonicalizeFile(disk[p]))

ScenarioOf(p, n) ==
  LET i == NthHTTPIndex(disk[p], n)
  IN  /\ i # 0 /\ Streamed(disk[p].turns[i])
      /\ \E made \in {Scenario(disk[p], i)} : SaveVariants(EditOf("scenario", i, <<>>, ""), p, made)

Fuzz(p, n, stream) ==
  LET i == NthHTTPIndex(disk[p], n)
  IN  /\ i # 0 /\ Streamed(disk[p].turns[i])
      /\ Fuzzable(disk[p].turns[i], stream)
      /\ SaveOne(EditOf("fuzz", i, <<>>, ""), p, VariantOf(p, "reframe"), WithResponse(disk[p], i, stream))

Mutate(p, out, op, n) == SaveOne(Command("mutate"), p, out, Mutated(disk[p], op, n))

\* The files that are kept are copied.
ShrinkCorpus(dirs) ==
  /\ runs < MaxCommands
  /\ runs' = runs + 1
  /\ \E from \in {Copies(Shrink([p \in Listed(dirs[1]) |-> disk[p]]), dirs[2])} :
       /\ from # <<>>
       /\ disk' = Over([q \in DOMAIN from |-> disk[from[q]]], disk)
       /\ born' = Over([q \in DOMAIN from |-> born[from[q]]], born)
       /\ last' = [Toward("shrink", dirs[1]) EXCEPT !.from = [q \in DOMAIN from |-> disk[from[q]]]]

Author(out, s) ==
  /\ ~CompileFails(s)
  /\ KeysHold(Compile(s))
  /\ runs < MaxCommands
  /\ runs' = runs + 1
  /\ disk' = Over([q \in {out} |-> Compile(s)], disk)
  /\ born' = Over([q \in {out} |-> <<>>], born)
  /\ last' = EditOf("author", 0, <<s>>, "")

Turns(p) == DOMAIN disk[p].turns

DeriveNext ==
  \/ \E p \in DOMAIN disk : \E out \in Outs(p), i \in Turns(p), edits \in EditLists :
       Graft(p, out, i, edits, {}, Len(disk[p].turns))
  \/ \E p \in DOMAIN disk : \E i \in Turns(p) : \E keep \in i .. Len(disk[p].turns) :
       Graft(p, p, i, <<>>, {1}, keep)
  \/ \E p \in DOMAIN disk : \E i \in Turns(p), edits \in EditLists \cup {<<>>} : Branch(p, Into("out", p), i, edits)
  \/ \E p \in DOMAIN disk : \E i \in Turns(p), slot \in Slots : Distill(p, i, slot)
  \/ \E p \in DOMAIN disk : \E out \in Outs(p), to \in Targets : PortTo(p, out, to)
  \/ \E dirs \in Dirs, to \in Targets : Migrate(dirs, to)
  \/ \E p \in DOMAIN disk : \E out \in Outs(p) : Canonicalize1(p, out)
  \/ \E p \in DOMAIN disk : \E n \in Turns(p) : ScenarioOf(p, n)
  \/ \E p \in DOMAIN disk : \E n \in Turns(p) :
       \E stream \in (IF NthHTTPIndex(disk[p], n) = 0 THEN {}
                      ELSE LET it == disk[p].turns[NthHTTPIndex(disk[p], n)] IN Reframings(it.dialect, TurnOf(it))) :
         Fuzz(p, n, stream)
  \/ \E p \in DOMAIN disk : \E op \in MutationOps, n \in 0 .. 1 : Mutate(p, Into("out", p), op, n)
  \/ \E dirs \in Dirs : ShrinkCorpus(dirs)
  \/ \E s \in Screenplays : Author(<<"out", "authored">>, s)

DeriveSpec == DeriveInit /\ [][DeriveNext]_deriveVars

-----------------------------------------------------------------------------

Written == DOMAIN last.from

Froms(f) == [k \in DOMAIN f.provenance |-> f.provenance[k].from]

\* What is left of t when some of it is left out.
Subsequence(s, t) ==
  \E at \in [DOMAIN s -> DOMAIN t] :
    /\ \A k \in DOMAIN s : s[k] = t[at[k]]
    /\ \A j, k \in DOMAIN s : j < k => at[j] < at[k]

\* The lineage of a recording names, in their order, behaviors of files it was really derived
\* from, and the commands that stamp it name the behavior they read, also when they edit the
\* file in place.
LineageTrue ==
  /\ \A q \in Written : Subsequence(Froms(disk[q]), born[q])
  /\ last.op \in {"graft", "graft-more", "distill", "port", "migrate"} =>
       \A q \in Written : Last(Froms(disk[q])) = BehaviorDigest(last.from[q])

\* Canonicalize, migrate and fuzz change no behavior, whatever was damaged or edited before: the
\* digest is the same, codec verify does not find worse turns and the contract the recording
\* carries holds as before.  Port changes the behavior of a turn exactly when the target dialect
\* cannot write its arguments.
BehaviorKept ==
  LET Kept(f, g) ==
        /\ BehaviorDigest(g) = BehaviorDigest(f)
        /\ \A i \in DOMAIN CodecVerify(g) : CodecVerify(g)[i] = "bad" => CodecVerify(f)[i] = "bad"
        /\ AssertHolds(g, NoContract) = AssertHolds(f, NoContract)
      Ported(f, g) ==
        \A i \in DOMAIN f.turns :
          Equal(TurnOf(g.turns[i]), TurnOf(f.turns[i])) <=>
            g.turns[i] = f.turns[i] \/ Writable(last.to, TurnOf(f.turns[i]))
  IN  \A q \in Written :
        /\ last.op \in {"canonicalize", "migrate", "fuzz"} => Kept(last.from[q], disk[q])
        /\ last.op = "port" => Ported(last.from[q], disk[q])

\* A turn that was edited reads as it was asked for, and as what-if foretold.  If that is a
\* change, diff and bisect find that turn and no other, diff names the fields the comparison of
\* the two turns finds different, and the attestation of the source is refused; if it is none,
\* diff finds nothing.
EditedAsAsked ==
  LET Wanted(f, g, it, want) ==
        /\ it.kind = "http" /\ Writable(it.dialect, want) => Equal(TurnOf(g.turns[last.at]), want)
        /\ last.op = "graft" /\ Len(last.edits) = 1 => BehaviorDigest(g) = WhatIf(f, last.at, last.edits[1])
      Fields(t) == {x \in {"tool_calls", "finish_reason", "text"} :
                      CASE x = "tool_calls" -> t.tools # {} [] x = "finish_reason" -> t.finish [] x = "text" -> t.text}
      Found(f, g, fields, d, b) ==
        IF f.turns[last.at].kind = "http" /\ fields # {}
        THEN /\ \E t \in d.turns : /\ d.turns = {t} /\ t.root /\ NthHTTPIndex(f, t.turn) = last.at
                                   /\ b.turn = t.turn /\ Fields(t) = fields
             /\ ~VerifiesAttest(g, f)
        ELSE ~Diverged(d) /\ b = NoDivergence
      Cutting(f, g) == [f EXCEPT !.turns = SubSeq(@, 1, Len(g.turns))]
  IN  last.op \in {"graft", "branch"} /\ last.edits # <<>> =>
        \A q \in Written : \A f \in {last.from[q]}, g \in {disk[q]} :
          /\ Wanted(f, g, f.turns[last.at], ApplyGraftEdits(TurnOf(f.turns[last.at]), last.edits, {}))
          /\ \A h \in {Cutting(f, g)} :
               Found(h, g, Compare(Exact, TurnOf(f.turns[last.at]), TurnOf(g.turns[last.at])), DiffRecordings(h, g), Bisect(h, g))

\* A recording that a command has written and another one, both canonical, hold the same bytes of
\* the same turn in one dialect, if the codec preserves it.
CanonicalUnique ==
  LET Same(a, b) == a.dialect = b.dialect /\ Equal(TurnOf(a), TurnOf(b)) => a.body = b.body
      Settled(f) == {f.turns[i] : i \in {k \in DOMAIN f.turns : CodecVerdict(f.turns[k]) = "ok"}}
      Canonical(paths) == UNION {Settled(disk[r]) : r \in {p \in paths : IsCanonical(disk[p])}}
  IN  \A a \in Canonical(Written), b \in Canonical(DOMAIN disk) : Same(a, b)

\* What shrink copied shows every behavior of the corpus: every digest and every cell.
ShrinkCovers ==
  last.op = "shrink" =>
    LET corpus == {disk[p] : p \in Listed(last.to)}
        copied == {disk[q] : q \in Written}
        Behaviors(files) == {Digest(TurnOf(t)) : t \in UNION {{f.turns[i] : i \in CountedTurns(f)} : f \in files}}
    IN  Coverage(copied) = Coverage(corpus) /\ Behaviors(copied) = Behaviors(corpus)

\* Every command leaves a recording without a match config one that replays what it is asked,
\* and lint reports a stale key exactly in those that do not.
KeysKept ==
  \A q \in Written :
    /\ last.from[q].match = "none" /\ KeysHold(last.from[q]) => KeysHold(disk[q])
    /\ LintErrors(disk[q]) = {} <=> KeysHold(disk[q])
=============================================================================
