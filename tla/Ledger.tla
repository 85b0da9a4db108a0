------------------------------- MODULE Ledger -------------------------------
(***************************************************************************)
(* The timeline ledger (timeline.go): test processes append the behavior   *)
(* of a scenario to one file, each by loading it, extending what it has    *)
(* loaded and writing it anew in place, without a lock.                    *)
(*                                                                         *)
(* An entry is its scenario and its combined digest, which stands for the  *)
(* digests by turn.  The file is truncated before it is written; a write   *)
(* may fail halfway, and one that overlaps another leaves the tail of what *)
(* was longer.  A write that succeeds is seen whole or not at all.         *)
(***************************************************************************)
EXTENDS Naturals, Sequences, SequencesExt

CONSTANTS Processes, Scenarios, Behaviors,
          Cut,      \* what is left of a digest that was not written to its end
          MaxCalls  \* the calls of AppendTimeline there are

ASSUME LedgerAssumption == MaxCalls \in Nat /\ Cut \notin Scenarios \cup Behaviors

Entry(scenario, combined) == [scenario |-> scenario, combined |-> combined]

\* A ledger that is no YAML any more.
Unreadable == <<Entry(Cut, Cut)>>

Entries == {Entry(s, b) : s \in Scenarios, b \in Behaviors}

VARIABLES ledger,    \* the file: its entries (none if it is missing or empty), or Unreadable
          call,      \* by process: where its call is, the entry it brings, what it has loaded
          calls,     \* how many there were
          returned,  \* the entries that were reported as added
          apart      \* what has not happened yet: "calls" none overlapped or broke off, "writes" no
                     \* two writes overlapped

ledgerVars == <<ledger, call, calls, returned, apart>>

Idle == [at |-> "idle", entry |-> Entry(Cut, Cut), tl |-> <<>>]

LedgerInit ==
  /\ ledger = <<>>
  /\ call = [p \in Processes |-> Idle]
  /\ calls = 0
  /\ returned = <<>>
  /\ apart = {"calls", "writes"}

Others(p, places) == \E q \in Processes \ {p} : call[q].at \in places

Call(p, e) ==
  /\ call[p].at = "idle" /\ calls < MaxCalls
  /\ call' = [call EXCEPT ![p] = [at |-> "called", entry |-> e, tl |-> <<>>]]
  /\ calls' = calls + 1
  /\ apart' = apart \ {x \in {"calls"} : Others(p, {"called", "loaded", "truncated"})}
  /\ UNCHANGED <<ledger, returned>>

(* Mutant: the last entry of the file is looked at, whatever its scenario. *)
Unchanged_LastOfAll(tl, e) == tl # <<>> /\ Last(tl) = e

\* The most recent entry of the scenario has this digest.
Unchanged(tl, e) ==
  \E i \in DOMAIN tl : tl[i] = e /\ \A k \in (i + 1) .. Len(tl) : tl[k].scenario # e.scenario

LoadFails(p) ==
  /\ call[p].at = "called" /\ ledger = Unreadable
  /\ call' = [call EXCEPT ![p] = Idle]
  /\ UNCHANGED <<ledger, calls, returned, apart>>

LoadTimeline(p) ==
  /\ call[p].at = "called" /\ ledger # Unreadable
  /\ call' = [call EXCEPT ![p] = IF Unchanged(ledger, @.entry) THEN Idle ELSE [@ EXCEPT !.at = "loaded", !.tl = ledger]]
  /\ UNCHANGED <<ledger, calls, returned, apart>>

Truncate(p) ==
  /\ call[p].at = "loaded"
  /\ ledger' = <<>>
  /\ call' = [call EXCEPT ![p].at = "truncated"]
  /\ apart' = apart \ {x \in {"writes"} : Others(p, {"truncated"})}
  /\ UNCHANGED <<calls, returned>>

(* Mutant: the ledger holds one entry of each scenario. *)
Extended_OnePerScenario(tl, e) == Append(SelectSeq(tl, LAMBDA x : x.scenario # e.scenario), e)

Extended(tl, e) == Append(tl, e)

\* What is in the file after new entries are written from its start.
Overlaid(new, old) ==
  IF old = <<>> \/ new = Unreadable THEN {new}
  ELSE IF old = Unreadable THEN {new, Unreadable} \ {<<>>}
  ELSE {new \o SubSeq(old, Len(new) + 1, Len(old)), Unreadable}

WriteTimeline(p) ==
  /\ call[p].at = "truncated"
  /\ ledger' \in Overlaid(Extended(call[p].tl, call[p].entry), ledger)
  /\ returned' = Append(returned, call[p].entry)
  /\ call' = [call EXCEPT ![p] = Idle]
  /\ UNCHANGED <<calls, apart>>

\* What a write leaves that ends early: some entries, the next one perhaps in part.
Cuts(new) ==
  {Unreadable}
  \cup {SubSeq(new, 1, n) : n \in 0 .. Len(new)}
  \cup {Append(SubSeq(new, 1, n), Entry(new[n + 1].scenario, Cut)) : n \in 0 .. (Len(new) - 1)}

WriteFails(p) ==
  /\ call[p].at = "truncated"
  /\ \E new \in Cuts(Extended(call[p].tl, call[p].entry)) : ledger' \in Overlaid(new, ledger)
  /\ call' = [call EXCEPT ![p] = Idle]
  /\ apart' = apart \ {"calls"}
  /\ UNCHANGED <<calls, returned>>

Kill(p) ==
  /\ call[p].at # "idle"
  /\ call' = [call EXCEPT ![p] = Idle]
  /\ apart' = apart \ {"calls"}
  /\ UNCHANGED <<ledger, calls, returned>>

LedgerNext ==
  \E p \in Processes :
    \/ \E e \in Entries : Call(p, e)
    \/ LoadFails(p) \/ LoadTimeline(p) \/ Truncate(p) \/ WriteTimeline(p) \/ WriteFails(p) \/ Kill(p)

LedgerSpec == LedgerInit /\ [][LedgerNext]_ledgerVars

-----------------------------------------------------------------------------

\* Type invariant.
Stored == [scenario : Scenarios \cup {Cut}, combined : Behaviors \cup {Cut}]

LedgerTypeOK ==
  /\ ledger \in Seq(Stored)
  /\ call \in [Processes -> [at : {"idle", "called", "loaded", "truncated"},
                             entry : Entries \cup {Entry(Cut, Cut)}, tl : Seq(Stored)]]
  /\ \A p \in Processes : call[p].at # "idle" => call[p].entry \in Entries
  /\ calls \in 0 .. MaxCalls
  /\ returned \in Seq(Entries)
  /\ apart \subseteq {"calls", "writes"}

Settled == ~\E p \in Processes : call[p].at = "truncated"

\* No scenario has the same digest twice in a row.
NoChurn(tl) ==
  LET Successive(i, k) == /\ i < k /\ tl[i].scenario = tl[k].scenario
                          /\ \A j \in (i + 1) .. (k - 1) : tl[j].scenario # tl[i].scenario
  IN  \A i, k \in DOMAIN tl : Successive(i, k) => tl[i].combined # tl[k].combined \/ tl[i].combined = Cut

\* An unchanged run never churns the ledger: as long as no two writes overlapped, no scenario has
\* the same digest twice in a row, whatever was lost, killed or cut off.  And as long as the calls
\* came one after the other and none broke off, the ledger is the history of what was added.
LedgerTrue ==
  /\ "writes" \in apart /\ ledger # Unreadable => NoChurn(ledger)
  /\ "calls" \in apart /\ Settled => ledger = returned
=============================================================================
