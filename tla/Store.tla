--------------------------------- MODULE Store ---------------------------------
(***************************************************************************)
(* The files that several processes share: a cassette, the temporary files *)
(* of its savers, and the drafts of "cassette author".                     *)
(*                                                                         *)
(* A process is one run of a test (cassettetest: record, auto or branch),  *)
(* of the front door "up", of a command that loads, changes and saves the  *)
(* cassette, or of author.  It reads, writes and renames files in steps of *)
(* its own, and may be killed at any of them.                              *)
(* wirefmt.Save is Prior (recorders only), Create, Write and Commit.       *)
(***************************************************************************)
EXTENDS Integers, Sequences

CONSTANTS
    Procs,       \* processes; a recorded turn is the process that recorded it
    Contracts,   \* what "cassette expect" can write
    NoContract,
    NoFile,      \* there is no such file
    Torn,        \* a file that does not parse: just created, or half written
    InitFiles,   \* the cassette at the start: files, or NoFile
    MaxTurns     \* bound on the turns of a recorder

Recorders == {"record", "auto", "up", "branch"}
Jobs      == Recorders \cup {"expect", "edit", "author"}

Files == [turns : Seq(Procs), expect : Contracts \cup {NoContract}]

ASSUME MarkersAssumption ==
    /\ NoFile # Torn
    /\ {NoFile, Torn} \cap Files = {}
    /\ NoContract \notin Contracts

ASSUME InitAssumption == InitFiles \subseteq Files \cup {NoFile}

ASSUME MaxTurnsAssumption == MaxTurns \in Nat

VARIABLES
    cassette,  \* the cassette file
    temp,      \* temp[p]: the .cassette-*.tmp of p
    draft,     \* draft[p]: the .author-*.yaml of p
    job, pc,
    mem,       \* mem[p]: the *wirefmt.File of p
    knows      \* knows[p]: what p has seen of the cassette and nobody changed since

vars == <<cassette, temp, draft, job, pc, mem, knows>>

files == <<cassette, temp, draft>>

Steps == {"open", "run", "create", "write", "commit",
          "prove", "ended", "crashed"}

TypeOK ==
    /\ cassette \in Files \cup {NoFile}
    /\ temp \in [Procs -> Files \cup {NoFile, Torn}]
    /\ draft \in [Procs -> Files \cup {NoFile, Torn}]
    /\ job \in [Procs -> Jobs]
    /\ pc \in [Procs -> Steps]
    /\ mem \in [Procs -> Files]
    /\ knows \in [Procs -> SUBSET {"turns", "contract"}]

Empty == [turns |-> <<>>, expect |-> NoContract]

Init ==
    /\ cassette \in InitFiles
    /\ temp = [p \in Procs |-> NoFile]
    /\ draft = [p \in Procs |-> NoFile]
    /\ job = [p \in Procs |-> "record"]
    /\ pc = [p \in Procs |-> "ended"]
    /\ mem = [p \in Procs |-> Empty]
    /\ knows = [p \in Procs |-> {}]

Go(p, step) == pc' = [pc EXCEPT ![p] = step]
-----------------------------------------------------------------------------
(* Opening.                                                                *)

(* resolveMode, or the command line: the next process under this name.     *)
Start(p, j) ==
    /\ pc[p] = "ended"
    /\ job' = [job EXCEPT ![p] = j]
    /\ mem' = [mem EXCEPT ![p] = Empty]
    /\ knows' = [knows EXCEPT ![p] = {}]
    /\ Go(p, "open")
    /\ UNCHANGED files

(* What a loader of the directory finds: drafts are named .yaml too.       *)
Visible == ({cassette} \cup {draft[q] : q \in Procs}) \ {NoFile}

(* Mutant: up looks whether its own recording can be loaded.               *)
StartsEmpty_Always(p) == job[p] \in {"record", "auto"}

(* Open in record mode, auto mode without a file, up without any cassette. *)
StartsEmpty(p) ==
    \/ job[p] = "record"
    \/ job[p] = "auto" /\ cassette = NoFile
    \/ job[p] = "up" /\ Visible = {}

OpenEmpty(p) ==
    /\ pc[p] = "open" /\ StartsEmpty(p)
    /\ Go(p, "run")
    /\ knows' = [knows EXCEPT ![p] = IF job[p] = "record" THEN {} ELSE {"turns", "contract"}]
    /\ UNCHANGED <<files, job, mem>>

(* auto with a file and up with any cassette replay, and write no file.    *)
OpenReplay(p) ==
    /\ pc[p] = "open" /\ job[p] \in {"auto", "up"} /\ ~StartsEmpty(p)
    /\ Go(p, "ended")
    /\ UNCHANGED <<files, job, mem, knows>>

(* prune, scrub and the like keep some of the turns.                       *)
Edited(turns) == {turns, SubSeq(turns, 2, Len(turns))}

(* What the process makes of the file it has loaded.                       *)
Changed(p, f) ==
    CASE job[p] = "branch" -> {f}
      [] job[p] = "expect" -> {[f EXCEPT !.expect = c] : c \in Contracts \cup {NoContract}}
      [] job[p] = "edit"   -> {[f EXCEPT !.turns = s] : s \in Edited(f.turns)}

Load(p) ==
    /\ pc[p] = "open" /\ job[p] \in {"branch", "expect", "edit"}
    /\ IF cassette \in Files
       THEN /\ \E f \in Changed(p, cassette) : mem' = [mem EXCEPT ![p] = f]
            /\ Go(p, IF job[p] = "branch" THEN "run" ELSE "create")
            /\ knows' = [knows EXCEPT ![p] = {"turns", "contract"}]
       ELSE /\ Go(p, "ended")
            /\ UNCHANGED <<mem, knows>>
    /\ UNCHANGED <<files, job>>

(* author has compiled its screenplay and created an empty draft.          *)
Compile(p) ==
    /\ pc[p] = "open" /\ job[p] = "author"
    /\ draft' = [draft EXCEPT ![p] = Torn]
    /\ mem' = [mem EXCEPT ![p].turns = <<p>>]
    /\ Go(p, "create")
    /\ UNCHANGED <<cassette, temp, job, knows>>

Capture(p) ==
    /\ pc[p] = "run" /\ Len(mem[p].turns) < MaxTurns
    /\ mem' = [mem EXCEPT ![p].turns = Append(@, p)]
    /\ UNCHANGED <<files, job, pc, knows>>

(* The run is over; VerifyError has saved, or was never reached.           *)
Finish(p) ==
    /\ pc[p] = "run"
    /\ Go(p, "ended")
    /\ UNCHANGED <<files, job, mem, knows>>
-----------------------------------------------------------------------------
(* Saving.                                                                 *)

(* Mutant: saveLocked takes no contract over.                              *)
Inherited_Nothing(f) == f

(* saveLocked: without a contract of its own the file takes the one on disk.*)
Inherited(f) ==
    IF f.expect = NoContract /\ cassette \in Files
    THEN [f EXCEPT !.expect = cassette.expect] ELSE f

Prior(p) ==
    /\ pc[p] = "run"
    /\ mem' = [mem EXCEPT ![p] = Inherited(@)]
    /\ knows' = [knows EXCEPT ![p] = @ \cup
                    (IF mem[p].expect = NoContract THEN {"contract"} ELSE {})]
    /\ Go(p, "create")
    /\ UNCHANGED <<files, job>>

(* Where a failed or finished save leaves the process.                     *)
After(p) == IF job[p] \in Recorders THEN "run" ELSE "ended"

(* A credential was found, or no file could be created.                    *)
Refuse(p) ==
    /\ pc[p] = "create"
    /\ Go(p, After(p))
    /\ draft' = [draft EXCEPT ![p] = NoFile]
    /\ UNCHANGED <<cassette, temp, job, mem, knows>>

Create(p) ==
    /\ pc[p] = "create"
    /\ temp' = [temp EXCEPT ![p] = Torn]
    /\ Go(p, "write")
    /\ UNCHANGED <<cassette, draft, job, mem, knows>>

(* Mutant: the file is renamed before it is written and closed.            *)
Write_Later(p) ==
    /\ pc[p] = "write"
    /\ Go(p, "commit")
    /\ UNCHANGED <<files, job, mem, knows>>

Write(p) ==
    /\ pc[p] = "write"
    /\ temp' = [temp EXCEPT ![p] = mem[p]]
    /\ Go(p, "commit")
    /\ UNCHANGED <<cassette, draft, job, mem, knows>>

(* Mutant: the temporary file is removed after a rename only.              *)
Removed_Never(names, p) == names

(* The deferred os.Remove.                                                 *)
Removed(names, p) == [names EXCEPT ![p] = NoFile]

(* Write, Close or Rename returns an error.                                *)
SaveFails(p) ==
    /\ pc[p] \in {"write", "commit"}
    /\ temp' = Removed(temp, p)
    /\ draft' = Removed(draft, p)
    /\ Go(p, After(p))
    /\ UNCHANGED <<cassette, job, mem, knows>>

(* Others that had seen the cassette have now seen an old one.             *)
Outdated(p) ==
    [q \in Procs |-> IF q = p THEN {"turns", "contract"} ELSE {}]

Commit(p) ==
    /\ pc[p] = "commit" /\ job[p] # "author"
    /\ cassette' = temp[p]
    /\ temp' = Removed(temp, p)
    /\ knows' = Outdated(p)
    /\ Go(p, After(p))
    /\ UNCHANGED <<draft, job, mem>>

(* author saves to its draft, ...                                          *)
CommitDraft(p) ==
    /\ pc[p] = "commit" /\ job[p] = "author"
    /\ draft' = [draft EXCEPT ![p] = temp[p]]
    /\ temp' = Removed(temp, p)
    /\ Go(p, "prove")
    /\ UNCHANGED <<cassette, job, mem, knows>>

(* ... and moves it into place if conformance accepts it.                  *)
Publish(p) ==
    /\ pc[p] = "prove"
    /\ cassette' = draft[p]
    /\ draft' = Removed(draft, p)
    /\ knows' = Outdated(p)
    /\ Go(p, "ended")
    /\ UNCHANGED <<temp, job, mem>>

Reject(p) ==
    /\ pc[p] = "prove"
    /\ draft' = Removed(draft, p)
    /\ Go(p, "ended")
    /\ UNCHANGED <<cassette, temp, job, mem, knows>>
-----------------------------------------------------------------------------
(* The process is killed: what it has in memory is gone, its files stay.   *)
Crash(p) ==
    /\ pc[p] \notin {"ended", "crashed"}
    /\ Go(p, "crashed")
    /\ UNCHANGED <<files, job, mem, knows>>

Next == \E p \in Procs :
    \/ \E j \in Jobs : Start(p, j)
    \/ OpenEmpty(p) \/ OpenReplay(p) \/ Load(p) \/ Compile(p)
    \/ Capture(p) \/ Finish(p)
    \/ Prior(p) \/ Refuse(p) \/ Create(p) \/ Write(p) \/ SaveFails(p)
    \/ Commit(p) \/ CommitDraft(p) \/ Publish(p) \/ Reject(p)
    \/ Crash(p)

Spec == Init /\ [][Next]_vars
-----------------------------------------------------------------------------
(* Properties.                                                             *)

(* Whatever fails or is killed on the way, and whoever else is saving, what *)
(* appears at the cassette's name is all that one process had in memory    *)
(* (wirefmt.Save: "atomically (temp file + rename)").                      *)
LandsWhole ==
    [][cassette' # cassette
       => \E p \in Procs : pc[p] # pc'[p] /\ cassette' = mem[p]]_cassette

TurnsOf(f) == IF f = NoFile THEN <<>> ELSE f.turns

ExpectOf(f) == IF f = NoFile THEN NoContract ELSE f.expect

IsPrefixOf(s, t) == Len(s) <= Len(t) /\ SubSeq(t, 1, Len(s)) = s

(* A save loses no turn that the process has seen and nobody has replaced: *)
(* auto and up do not record over a recording, a branch keeps its prefix,  *)
(* a second save what the first has saved, expect all turns (Open, up.go). *)
SavesGrow ==
    [][\A p \in Procs :
          Commit(p) /\ job[p] # "edit" /\ "turns" \in knows[p]
          => IsPrefixOf(TurnsOf(cassette), cassette'.turns)]_vars

(* A contract survives a re-record, a branch and an edit, if nobody        *)
(* replaces the file after the process has read it (saveLocked: "Preserve  *)
(* an existing behavioral contract").                                      *)
ContractSurvives ==
    [][\A p \in Procs :
          Commit(p) /\ job[p] # "expect" /\ "contract" \in knows[p]
          => cassette'.expect = ExpectOf(cassette)]_vars

(* Only a process that is busy saving, or was killed at it, has temporary  *)
(* files: failures clean up behind them (wirefmt.Save, cmdAuthor).         *)
NoLitter ==
    \A p \in Procs :
        /\ temp[p] # NoFile => pc[p] \in {"write", "commit", "crashed"}
        /\ draft[p] # NoFile => /\ job[p] = "author"
                               /\ pc[p] \in {"create", "write", "commit", "prove", "crashed"}
===============================================================================
