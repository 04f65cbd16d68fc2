------------------------------ MODULE Backfill ------------------------------
(***************************************************************************)
(* kb/backfill/: the import of a source's items into the knowledge base.   *)
(*                                                                         *)
(* BackfillRunner.run() takes the items that the adapter discovers through *)
(* filter, budget gate, redaction, embedding and storage, and records its  *)
(* progress in a row of kb_backfill_jobs.  `resume` starts another run     *)
(* from the cursor of such a row; nothing keeps two runs from overlapping. *)
(* A run can be killed between any two of its statements.                  *)
(*                                                                         *)
(* Items are those of one Slack channel, the only source that can be       *)
(* resumed, numbered in the order in which discover() yields them, which   *)
(* is that of conversations.history: the newest first.  A cursor names the *)
(* time of an item's last update, and resuming asks the source for what    *)
(* was sent after it: Stamp[i] is the oldest item sent at or after the     *)
(* last update of i.  It is i where nothing was edited or answered later.  *)
(***************************************************************************)
EXTENDS Integers, FiniteSets

CONSTANTS
  N,             \* number of items of the source
  Runs,          \* the runs of the import
  Cost,          \* token estimate of an item
  Stamp,         \* where a cursor made of an item points
  TokenBudget,   \* job.token_budget
  EveryN,        \* checkpoint_every_n
  MinItems,      \* error_ratio_min_items
  Percent,       \* error_ratio_threshold
  MaxFaults      \* bound: errors, exceptions and kills

Items == 1..N

ASSUME BackfillAssumption ==
  /\ N \in Nat /\ IsFiniteSet(Runs)
  /\ Cost \in [Items -> Nat]
  /\ Stamp \in [Items -> Items] /\ \A i \in Items : Stamp[i] <= i
  /\ TokenBudget \in Nat \ {0}
  /\ EveryN \in Nat \ {0} /\ MinItems \in Nat /\ Percent \in Nat
  /\ MaxFaults \in Nat

VARIABLES
  kind,          \* what filter() and the redactor make of an item
  knowledge,     \* org_knowledge: absent, bare (without kb_sources), cited
  failed,        \* items that some run has counted as an error
  run,           \* the local state of each run, and its kb_backfill_jobs row
  faults         \* faults left

vars == <<kind, knowledge, failed, run, faults>>

\* pc: new, loop, store, cite, cp, final, finish, ended, killed
\* item: the last item discovered; end: the last one discover() will yield
\* last: last_item, 0 for None
\* why: how the loop was left
Idle == [pc |-> "new", item |-> 0, end |-> 0, last |-> 0, why |-> "done",
         discovered |-> 0, filtered |-> 0, dropped |-> 0, halted |-> 0,
         errors |-> 0, stored |-> 0, existing |-> 0, tokens |-> 0, cp |-> 0,
         cursor |-> 0, status |-> "none"]

Init ==
  /\ kind \in [Items -> {"plain", "filtered", "secret"}]
  /\ knowledge = [i \in Items |-> "absent"]
  /\ failed = {}
  /\ run = [r \in Runs |-> Idle]
  /\ faults = MaxFaults

-----------------------------------------------------------------------------
(* A run starts: the row is inserted before any item is looked at *)

StartTo(r, e) ==
  /\ run[r].pc = "new"
  /\ run' = [run EXCEPT ![r] = [Idle EXCEPT !.pc = "loop", !.end = e, !.status = "running"]]
  /\ UNCHANGED <<kind, knowledge, failed, faults>>

Start(r) == StartTo(r, N)

\* _run_resume(), whatever the status of the row: `oldest` is set to the cursor,
\* so it is the items sent since then that are yielded, from the newest on.
\* `oldest` excludes its own instant, but the cursor has lost the microseconds:
\* the item it was made of may be yielded again or not.  Without a cursor the
\* import starts over.
Resume(r, q) ==
  /\ run[q].status # "none"
  /\ \/ run[q].cursor = 0 /\ StartTo(r, N)
     \/ /\ run[q].cursor > 0
        /\ \E e \in {Stamp[run[q].cursor] - 1, Stamp[run[q].cursor]} : StartTo(r, e)

-----------------------------------------------------------------------------
(* One item.  Each of these operators gives the new state of a run. *)

Discover(s) == [s EXCEPT !.item = @ + 1, !.discovered = @ + 1]

\* _maybe_abort()
Abort(s) ==
  s.discovered >= MinItems /\ s.errors * 100 > Percent * s.discovered

\* An item that errored: the loop is left, or goes on.
Errored(s) ==
  LET t == [s EXCEPT !.errors = @ + 1]
  IN  IF Abort(t) THEN [t EXCEPT !.pc = "final", !.why = "abort"]
      ELSE [t EXCEPT !.pc = "cp"]

\* Faulty: the item at which the budget halts the run becomes last_item.
HaltedPast(s) ==
  [s EXCEPT !.pc = "final", !.why = "budget", !.halted = @ + 1, !.last = s.item]

Halted(s) == [s EXCEPT !.pc = "final", !.why = "budget", !.halted = @ + 1]

OverBudget(s) == s.tokens + Cost[s.item] >= TokenBudget

\* filter() says no, or raises Skipped.
Filter(r) ==
  LET s == Discover(run[r])
  IN  /\ run[r].pc = "loop" /\ run[r].item < run[r].end
      /\ kind[s.item] = "filtered"
      /\ run' = [run EXCEPT ![r] = [s EXCEPT !.filtered = @ + 1, !.pc = "cp"]]
      /\ UNCHANGED <<kind, knowledge, failed, faults>>

\* The budget gate of _process_item().
Halt(r) ==
  LET s == Discover(run[r])
  IN  /\ run[r].pc = "loop" /\ run[r].item < run[r].end
      /\ kind[s.item] # "filtered" /\ OverBudget(s)
      /\ run' = [run EXCEPT ![r] = Halted(s)]
      /\ UNCHANGED <<kind, knowledge, failed, faults>>

\* SecretDetected: the item is dropped and costs nothing.
DropSecret(r) ==
  LET s == Discover(run[r])
  IN  /\ run[r].pc = "loop" /\ run[r].item < run[r].end
      /\ kind[s.item] = "secret" /\ ~OverBudget(s)
      /\ run' = [run EXCEPT ![r] = [s EXCEPT !.dropped = @ + 1, !.pc = "cp"]]
      /\ UNCHANGED <<kind, knowledge, failed, faults>>

\* Redacted, charged and embedded.
Embed(r) ==
  LET s == Discover(run[r])
  IN  /\ run[r].pc = "loop" /\ run[r].item < run[r].end
      /\ kind[s.item] = "plain" /\ ~OverBudget(s)
      /\ run' = [run EXCEPT ![r] = [s EXCEPT !.tokens = @ + Cost[s.item],
                                             !.pc = "store"]]
      /\ UNCHANGED <<kind, knowledge, failed, faults>>

\* The redactor raises (nothing is charged), or the embedder does.
EmbedFails(r) ==
  LET s == Discover(run[r])
  IN  /\ faults > 0 /\ faults' = faults - 1
      /\ run[r].pc = "loop" /\ run[r].item < run[r].end
      /\ kind[s.item] # "filtered" /\ ~OverBudget(s)
      /\ \/ run' = [run EXCEPT ![r] = Errored(s)]
         \/ /\ kind[s.item] = "plain"
            /\ run' = [run EXCEPT ![r] = Errored([s EXCEPT !.tokens = @ + Cost[s.item]])]
      /\ failed' = failed \cup {s.item}
      /\ UNCHANGED <<kind, knowledge>>

\* Faulty: a row that was there already counts as inserted.
StoreBlind(r) ==
  LET s == run[r]
  IN  /\ s.pc = "store"
      /\ knowledge' = [knowledge EXCEPT ![s.item] = IF @ = "absent" THEN "bare" ELSE @]
      /\ run' = [run EXCEPT ![r].pc = "cite"]
      /\ UNCHANGED <<kind, failed, faults>>

\* INSERT INTO org_knowledge ... ON CONFLICT DO NOTHING
Store(r) ==
  LET s == run[r]
  IN  /\ s.pc = "store"
      /\ \/ /\ knowledge[s.item] = "absent"
            /\ knowledge' = [knowledge EXCEPT ![s.item] = "bare"]
            /\ run' = [run EXCEPT ![r].pc = "cite"]
         \/ /\ knowledge[s.item] # "absent"
            /\ run' = [run EXCEPT ![r] = [s EXCEPT !.existing = @ + 1,
                                                   !.last = s.item, !.pc = "cp"]]
            /\ UNCHANGED knowledge
      /\ UNCHANGED <<kind, failed, faults>>

\* INSERT INTO kb_sources
Cite(r) ==
  LET s == run[r]
  IN  /\ s.pc = "cite"
      /\ knowledge' = [knowledge EXCEPT ![s.item] = "cited"]
      /\ run' = [run EXCEPT ![r] = [s EXCEPT !.stored = @ + 1, !.last = s.item,
                                             !.pc = "cp"]]
      /\ UNCHANGED <<kind, failed, faults>>

\* Faulty: the row that was inserted counts although its source failed.
StoreFailsCounted(r) ==
  LET s == run[r]
  IN  /\ faults > 0 /\ faults' = faults - 1
      /\ s.pc \in {"store", "cite"}
      /\ run' = [run EXCEPT ![r] =
                   Errored(IF s.pc = "cite" THEN [s EXCEPT !.stored = @ + 1] ELSE s)]
      /\ failed' = failed \cup {s.item}
      /\ UNCHANGED <<kind, knowledge>>

\* One of the two inserts raises; after the second the row stays without its
\* source, and a later run will find it existing.
StoreFails(r) ==
  LET s == run[r]
  IN  /\ faults > 0 /\ faults' = faults - 1
      /\ s.pc \in {"store", "cite"}
      /\ run' = [run EXCEPT ![r] = Errored(s)]
      /\ failed' = failed \cup {s.item}
      /\ UNCHANGED <<kind, knowledge>>

-----------------------------------------------------------------------------
(* Checkpoints and the end of a run *)

\* _maybe_checkpoint(): due by count, or by time (any may be).
Checkpoint(r) ==
  LET s == run[r]
  IN  /\ s.pc = "cp"
      /\ \/ s.discovered - s.cp < EveryN /\ run' = [run EXCEPT ![r].pc = "loop"]
         \/ run' = [run EXCEPT ![r] = [s EXCEPT !.cursor = s.last,
                                                !.cp = s.discovered, !.pc = "loop"]]
      /\ UNCHANGED <<kind, knowledge, failed, faults>>

EndOfItems(r) ==
  /\ run[r].pc = "loop" /\ run[r].item >= run[r].end
  /\ run' = [run EXCEPT ![r].pc = "final"]
  /\ UNCHANGED <<kind, knowledge, failed, faults>>

\* discover() raises, or the checkpoint does: the finally clause runs.
Raise(r) ==
  /\ faults > 0 /\ faults' = faults - 1
  /\ run[r].pc \in {"loop", "cp"}
  /\ run' = [run EXCEPT ![r].pc = "final", ![r].why = "raised"]
  /\ UNCHANGED <<kind, knowledge, failed>>

\* teardown(), which may raise, then the final checkpoint.
Final(r) ==
  /\ run[r].pc = "final"
  /\ \/ /\ run' = [run EXCEPT ![r].pc = "finish", ![r].cursor = run[r].last]
        /\ UNCHANGED faults
     \/ /\ faults > 0 /\ faults' = faults - 1
        /\ run' = [run EXCEPT ![r].pc = "finish", ![r].cursor = run[r].last,
                              ![r].why = "abort"]
  /\ UNCHANGED <<kind, knowledge, failed>>

Verdict(why) ==
  CASE why = "abort" -> "failed" [] why = "budget" -> "paused" [] OTHER -> "completed"

Finish(r) ==
  /\ run[r].pc = "finish"
  /\ run' = [run EXCEPT ![r].pc = "ended", ![r].status = Verdict(run[r].why)]
  /\ UNCHANGED <<kind, knowledge, failed, faults>>

\* The process is killed, or the final writes raise.
Kill(r) ==
  /\ faults > 0 /\ faults' = faults - 1
  /\ run[r].pc \notin {"new", "ended", "killed"}
  /\ run' = [run EXCEPT ![r].pc = "killed"]
  /\ UNCHANGED <<kind, knowledge, failed>>

\* `cancel` touches the row only; a run that is under way does not look at it.
Cancel(r) ==
  /\ run[r].status \in {"running", "paused"}
  /\ run' = [run EXCEPT ![r].status = "cancelled"]
  /\ UNCHANGED <<kind, knowledge, failed, faults>>

Step(r) ==
  \/ Start(r) \/ \E q \in Runs : Resume(r, q)
  \/ Filter(r) \/ Halt(r) \/ DropSecret(r) \/ Embed(r) \/ EmbedFails(r)
  \/ Store(r) \/ Cite(r) \/ StoreFails(r)
  \/ Checkpoint(r) \/ EndOfItems(r) \/ Raise(r) \/ Final(r) \/ Finish(r)
  \/ Kill(r) \/ Cancel(r)

Next == \E r \in Runs : Step(r)

Spec == Init /\ [][Next]_vars

-----------------------------------------------------------------------------
(* Properties *)

Counts == 0..N

\* The types of a run's locals and row.
RunState ==
  [pc : {"new", "loop", "store", "cite", "cp", "final", "finish", "ended", "killed"},
   item : Counts, end : Counts, last : Counts, why : {"done", "abort", "budget", "raised"},
   discovered : Counts, filtered : Counts, dropped : Counts, halted : Counts,
   errors : Counts, stored : Counts, existing : Counts,
   tokens : 0..(TokenBudget - 1), cp : Counts, cursor : Counts,
   status : {"none", "running", "completed", "paused", "failed", "cancelled"}]

\* The types; the tokens charged stay below the budget of the job, and every
\* count of the report is one of items.
TypeOK ==
  /\ kind \in [Items -> {"plain", "filtered", "secret"}]
  /\ knowledge \in [Items -> {"absent", "bare", "cited"}]
  /\ failed \in SUBSET Items
  /\ run \in [Runs -> RunState]
  /\ faults \in 0..MaxFaults

\* The import has dealt with an item: it is stored, or was never to be stored,
\* or was reported as an error.
Settled(i) == knowledge[i] # "absent" \/ kind[i] # "plain" \/ i \in failed

\* The last item a run has dealt with.
Frontier(s) ==
  IF s.pc \in {"store", "cite"} \/ s.halted > 0 \/ s.pc = "killed"
  THEN s.item - 1 ELSE s.item

\* A run leaves nothing out on its way, and a cursor vouches for what it has
\* passed: whatever runs were killed, halted, resumed or overlap, all items
\* newer than the one a run has reached, and newer than every stored cursor,
\* are settled.
PassedIsSettled ==
  \A r \in Runs :
    /\ \A i \in 1..Frontier(run[r]) : Settled(i)
    /\ \A i \in 1..run[r].last : Settled(i)
    /\ \A i \in 1..run[r].cursor : Settled(i)

\* Nothing is left out: when a run has come to the end of what the source
\* yields, nothing has failed and no run is under way, every item that is to be
\* stored is stored, whichever runs were halted and resumed before.
ResumedImportIsWhole ==
  (/\ faults = MaxFaults
   /\ \A r \in Runs : run[r].pc \in {"new", "ended"}
   /\ \E r \in Runs : run[r].pc = "ended" /\ run[r].why = "done")
  => \A i \in Items : kind[i] = "plain" => knowledge[i] # "absent"

\* The report adds up: between two items, what was discovered and neither
\* filtered, dropped, halted nor failed ("estimated_count") is what was stored
\* or found existing.
ReportAddsUp ==
  \A r \in Runs :
    LET s == run[r]
    IN  s.pc \notin {"store", "cite", "killed"} =>
          s.discovered - s.filtered - s.errors - s.dropped - s.halted
            = s.stored + s.existing

\* What the reports call indexed: the k-th item that run r has indexed.
Indexed == {p \in Runs \X Items : p[2] <= run[p[1]].stored}

\* Every item with its source is counted as indexed by exactly one run, also
\* when runs overlap or import the same items again.
IndexedOnce ==
  Cardinality(Indexed) = Cardinality({i \in Items : knowledge[i] = "cited"})

=============================================================================
