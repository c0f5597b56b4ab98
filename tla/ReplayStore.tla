---------------------------- MODULE ReplayStore ----------------------------
(***************************************************************************)
(* The SQLite tables of the replay-divergence service, seen through the    *)
(* rows of ONE replay batch, and the SQL statements the repositories under *)
(* internal/store run on them.                                             *)
(*                                                                         *)
(* A batch never reads or writes a row of another batch (every statement   *)
(* carries batch_id, and a snapshot of another batch is refused), so one   *)
(* batch is enough.  store.Open caps the pool at one connection: a single  *)
(* statement, and a whole transaction, is one atomic step here.            *)
(*                                                                         *)
(* Data is abstracted to one architectural resource.  An instruction reads *)
(* it, and may write it; every checkpoint has it in its scope.             *)
(***************************************************************************)
EXTENDS Naturals, FiniteSets

CONSTANTS
  Seqs,      \* instruction sequence numbers a trail may use (finite, bounds the model)
  Vals,      \* values an instruction may write
  MaxDivs,   \* bound: rows of the divergences table
  MaxSnaps   \* bound: rows of the loc_snapshots table

ASSUME SeqsAssumption == Seqs \subseteq Nat /\ IsFiniteSet(Seqs)
ASSUME ValsAssumption ==
  Vals \cap {"none", "nowrite", "novalue", "malformed", "unset"} = {}
ASSUME BoundsAssumption == MaxDivs \in Nat /\ MaxSnaps \in Nat

VARIABLES
  batch,     \* replay_batches: status and the locked range
  events,    \* exec_events: [side][seq] -> row
  cps,       \* checkpoints: seq -> trust
  fps,       \* state_fingerprints: [checkpoint seq][side] -> hash
  deps,      \* rw_dependencies: set of <<writer seq, reader seq>>
  divs,      \* divergences: id -> row
  chain,     \* divergence_chain_edges: divergence id -> seqs of its chain nodes
  snaps      \* loc_snapshots: id -> row

tables == <<batch, events, cps, fps, deps, divs, chain, snaps>>

-----------------------------------------------------------------------------
(* Rows.                                                                   *)

Side == {"reference", "under_test"}

BatchStatus == {"receiving", "syncing", "pending_loc", "confirmed", "sealed"}

EventStatus == {"raw", "aligned", "divergent", "missing", "excluded"}

DivStatus == {"candidate", "first_divergence", "dependency_propagated",
              "insufficient_evidence", "confirmed"}

SnapStatus == {"draft", "published", "superseded"}

\* What an event does to the resource: write a value, not write it, or name
\* it among its writes without giving a value (replay refuses that one).
Content == Vals \cup {"nowrite", "novalue"}

\* A trail as ListBySide returns it: "none" where the side has no event.
Trail == [Seqs -> Content \cup {"none"}]

\* The state replayed at a checkpoint ("unset": never written), which also
\* stands for its fingerprint; "none" is a fingerprint row that is not there.
Hash == Vals \cup {"unset"}

BatchRow == [status: BatchStatus, min: Nat, max: Nat]
EventRow == [val: Content \cup {"none"}, status: EventStatus \cup {"none"}]
DivRow   == [cp: Nat, status: DivStatus \cup {"none"}, first: Nat]
Config   == [min: Nat, max: Nat, trusted: SUBSET Seqs,
             unreliable: SUBSET Seqs, excluded: SUBSET Seqs]
Summary  == [count: Nat, first: Nat]
SnapRow  == [status: SnapStatus \cup {"none"}, cfg: Config, sum: Summary,
             by: Nat]

DivIds  == 1..MaxDivs
SnapIds == 1..MaxSnaps

NewBatch  == [status |-> "receiving", min |-> 0, max |-> 0]
NoEvent   == [val |-> "none", status |-> "none"]
NoDiv     == [cp |-> 0, status |-> "none", first |-> 0]
NoConfig  == [min |-> 0, max |-> 0, trusted |-> {}, unreliable |-> {},
              excluded |-> {}]
NoSummary == [count |-> 0, first |-> 0]
NoSnap    == [status |-> "none", cfg |-> NoConfig, sum |-> NoSummary, by |-> 0]

-----------------------------------------------------------------------------
(* The batch state machine.                                                *)

batchTransitions ==
  [s \in BatchStatus |->
     CASE s = "receiving"   -> {"syncing"}
       [] s = "syncing"     -> {"pending_loc", "receiving"}
       [] s = "pending_loc" -> {"confirmed", "receiving"}
       [] s = "confirmed"   -> {"sealed", "receiving"}
       [] s = "sealed"      -> {}]

CanTransitionBatch(from, to) == to \in batchTransitions[from]

-----------------------------------------------------------------------------
(* ORDER BY ... ASC and DESC over sequence numbers and ids.                *)

IsFirst(s, S) == s \in S /\ \A t \in S : s <= t
IsLast(s, S)  == s \in S /\ \A t \in S : t <= s

-----------------------------------------------------------------------------
(* Statements that read.                                                   *)

Rows(side) == {s \in Seqs : events[side][s].status # "none"}

ListBySide(side) == [s \in Seqs |-> events[side][s].val]

ListExcluded(side) == {s \in Seqs : events[side][s].status = "excluded"}

\* COALESCE(MIN(seq),0), COALESCE(MAX(seq),0)
SeqRange(side, lo, hi) ==
  IF Rows(side) = {} THEN lo = 0 /\ hi = 0
                     ELSE IsFirst(lo, Rows(side)) /\ IsLast(hi, Rows(side))

TrustedCheckpoints == {s \in Seqs : cps[s] = "trusted"}
UnreliableCheckpoints == {s \in Seqs : cps[s] = "unreliable"}

PairFound(cp) == \A side \in Side : fps[cp][side] # "none"
PairMatch(cp) == fps[cp]["reference"] = fps[cp]["under_test"]

Divergences == {d \in DivIds : divs[d].status # "none"}

HasCandidate(cp) ==
  \E d \in Divergences : divs[d].cp = cp /\ divs[d].status = "candidate"

Snapshots == {s \in SnapIds : snaps[s].status # "none"}

-----------------------------------------------------------------------------
(* Statements that write.  Each fixes the next value of its own table.     *)

UpdateBatch(row) == batch' = row

\* Mutated: INSERT OR REPLACE.
InsertOrReplaceBatch(side, frag) ==
  events' = [events EXCEPT ![side] = [s \in Seqs |->
    IF frag[s] # "none" THEN [val |-> frag[s], status |-> "raw"] ELSE @[s]]]

\* One transaction: UNIQUE(batch_id, side, seq) rejects the whole fragment.
InsertBatch(side, frag) ==
  IF \A s \in Rows(side) : frag[s] = "none"
    THEN events' = [events EXCEPT ![side] = [s \in Seqs |->
           IF frag[s] # "none" THEN [val |-> frag[s], status |-> "raw"] ELSE @[s]]]
    ELSE UNCHANGED events

UpdateEventStatus(side, seq, status) ==
  events' = [events EXCEPT ![side][seq].status = status]

\* UNIQUE(batch_id, seq) rejects a second checkpoint at the same seq.
CreateCheckpoint(seq) ==
  IF cps[seq] = "none" THEN cps' = [cps EXCEPT ![seq] = "trusted"]
                       ELSE UNCHANGED cps

UpdateCheckpointStatus(seq, status) == cps' = [cps EXCEPT ![seq] = status]

UpsertFingerprint(cp, side, hash) ==
  fps' = [fps EXCEPT ![cp][side] = hash]

\* AUTOINCREMENT: the table's next id.
CreateDivergence(cp) ==
  \E d \in DivIds :
    /\ IsFirst(d, DivIds \ Divergences)
    /\ divs' = [divs EXCEPT ![d] = [cp |-> cp, status |-> "candidate", first |-> 0]]

\* The statement writes the verdict, never the checkpoint of the row.
UpdateDivergence(d, row) ==
  divs' = [divs EXCEPT ![d].status = row.status, ![d].first = row.first]

\* Mutated: the DELETE that makes room for the nodes comes after their INSERTs.
SaveChainDeletesLast(d, nodes) == chain' = [chain EXCEPT ![d] = {}]

SaveChain(d, nodes) == chain' = [chain EXCEPT ![d] = nodes]

ReplaceDependencies(edges) == deps' = edges

CreateSnapshotRow(cfg) ==
  \E s \in SnapIds :
    /\ IsFirst(s, SnapIds \ Snapshots)
    /\ snaps' = [snaps EXCEPT ![s] = [NoSnap EXCEPT !.status = "draft", !.cfg = cfg]]

-----------------------------------------------------------------------------
(* Replay and backtrace over the two trails of the batch, cut down to the  *)
(* one resource of the model.                                              *)

UpTo(limit) == {s \in Seqs : s <= limit}

\* An event that names the resource as written but gives no value stops it.
Replayable(trail, limit) == \A s \in UpTo(limit) : trail[s] # "novalue"

Written(trail, limit) == {s \in UpTo(limit) : trail[s] \in Vals}

\* The last write at or before the limit wins.
Replayed(trail, limit, hash) ==
  IF Written(trail, limit) = {}
    THEN hash = "unset"
    ELSE \E s \in Seqs : IsLast(s, Written(trail, limit)) /\ hash = trail[s]

\* Every reader of the test trail depends on the last writer of the WHOLE
\* reference trail.
DependencyEdges(ref, test) ==
  LET writers == {s \in Seqs : ref[s] \in Vals \cup {"novalue"}}
  IN  {e \in Seqs \X Seqs : IsLast(e[1], writers) /\ test[e[2]] # "none"}

\* Instructions up to the limit at which both sides write the resource, with different values.
WritesDiffer(ref, test, limit) ==
  {s \in Written(ref, limit) \cap Written(test, limit) : ref[s] # test[s]}

-----------------------------------------------------------------------------

StoreTypeOK ==
  /\ batch \in BatchRow
  /\ events \in [Side -> [Seqs -> EventRow]]
  /\ cps \in [Seqs -> {"none", "trusted", "unreliable"}]
  /\ fps \in [Seqs -> [Side -> Hash \cup {"none"}]]
  /\ deps \subseteq Seqs \X Seqs
  /\ divs \in [DivIds -> DivRow]
  /\ chain \in [DivIds -> SUBSET Seqs]
  /\ snaps \in [SnapIds -> SnapRow]

\* A batch just created: CreateBatch has inserted its row, nothing else.
StoreInit ==
  /\ batch = NewBatch
  /\ events = [side \in Side |-> [s \in Seqs |-> NoEvent]]
  /\ cps = [s \in Seqs |-> "none"]
  /\ fps = [s \in Seqs |-> [side \in Side |-> "none"]]
  /\ deps = {}
  /\ divs = [d \in DivIds |-> NoDiv]
  /\ chain = [d \in DivIds |-> {}]
  /\ snaps = [s \in SnapIds |-> NoSnap]

=============================================================================
