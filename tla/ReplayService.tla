--------------------------- MODULE ReplayService ---------------------------
(***************************************************************************)
(* The service on one replay batch: every method, run by several requests  *)
(* at a time, with statements that fail and a process that restarts.       *)
(*                                                                         *)
(* Concurrent = Ops is the program as it is: nothing in it keeps two       *)
(* requests of a batch apart.  Concurrent = {} is a client that waits for  *)
(* each answer before it sends the next request.  In between there are     *)
(* clients that send some operations only while nothing else runs.         *)
(***************************************************************************)
EXTENDS TrailService, CompareService, SnapshotService

Init == StoreInit /\ RequestsInit

Next ==
  \/ Restart
  \/ \E w \in Workers :
       Fail(w) \/ TrailNext(w) \/ CompareNext(w) \/ SnapshotNext(w)

Spec == Init /\ [][Next]_vars

TypeOK == StoreTypeOK /\ RequestsTypeOK

-----------------------------------------------------------------------------
(* What holds however the requests interleave.                             *)

PublishedIds == {s \in SnapIds : snaps[s].status = "published"}
SupersededIds == {s \in SnapIds : snaps[s].status = "superseded"}

\* PublishSnapshot: a batch has at most one published snapshot at any time.
AtMostOnePublished == \A s, t \in PublishedIds : s = t

\* PublishSnapshot: following superseded_by from a superseded snapshot comes
\* to the published one.  No set of superseded snapshots is closed under it.
SupersessionEndsAtPublished ==
  /\ \A s \in SupersededIds : snaps[s].by \in SupersededIds \cup PublishedIds
  /\ \A S \in SUBSET SupersededIds :
       S # {} => \E s \in S : snaps[s].by \notin S

\* ImportEvents is idempotent: once a sequence number has an event, no import,
\* repeated or concurrent, changes or removes what the event does.
ImportedEventsKept ==
  [][\A side \in Side : \A s \in Rows(side) :
       events'[side][s].val = events[side][s].val]_events

\* TraceDivergence: the instruction a confirmed divergence names lies at or
\* before its checkpoint, and both trails write different values there, even
\* if events were imported or another trace ran since it was computed.
ConfirmedDiverges ==
  \A d \in Divergences :
    divs[d].status = "confirmed" =>
      divs[d].first \in WritesDiffer(ListBySide("reference"),
                                     ListBySide("under_test"), divs[d].cp)

-----------------------------------------------------------------------------
(* What holds as long as some operations run alone.  The theorems say which *)
(* ones a property needs; all of them hold for a client that sends one     *)
(* request at a time.                                                      *)

Stages == {<<"receiving", "syncing">>, <<"syncing", "pending_loc">>,
           <<"pending_loc", "confirmed">>, <<"confirmed", "sealed">>}

\* README.md: the batch moves receiving -> syncing -> pending_loc -> confirmed ->
\* sealed, one stage at a time.  It never goes back: batchTransitions lets every
\* stage before sealed return to receiving, but no method does.
LifecycleOrder == [][(<<batch.status, batch'.status>>) \in Stages]_batch

\* errors.go: a sealed batch is read-only, neither its configuration nor its
\* evidence changes.  Publishing may still replace its published snapshot.
SealedReadOnly ==
  [][batch.status = "sealed" =>
       UNCHANGED <<batch, events, cps, fps, deps, divs, chain>>]_vars

\* PublishSnapshot: publishing seals the batch in the same transaction.
PublishedSealed == PublishedIds # {} => batch.status = "sealed"

\* compare_service.go: Compare makes one divergence per checkpoint, also when
\* an earlier Compare failed half way and is retried.
OneDivergencePerCheckpoint ==
  \A d, e \in Divergences : divs[d].cp = divs[e].cp => d = e

\* TraceDivergence: a confirmed divergence has its chain, rooted in the
\* instruction it names, whatever statement of a trace fails.
ConfirmedHasChain ==
  \A d \in Divergences :
    divs[d].status = "confirmed" => chain[d] = {divs[d].first}

\* Tracer: the instruction a confirmed divergence names is the first at which
\* the trails of the batch write different values.
ConfirmedIsFirst ==
  \A d \in Divergences :
    divs[d].status = "confirmed" =>
      IsFirst(divs[d].first, WritesDiffer(ListBySide("reference"),
                                          ListBySide("under_test"), divs[d].cp))

\* TraceDivergence: a confirmed divergence keeps its row, whatever is imported
\* or traced beside it and however often its trace is repeated.
VerdictsStand ==
  [][\A d \in Divergences :
       divs[d].status = "confirmed" => divs'[d] = divs[d]]_divs

\* TraceDivergence: unless the client confirms by hand, a confirmed or sealed
\* batch has a confirmed divergence, wherever the trace behind it stopped and
\* whatever other traces have written since.
ConfirmedIsLocated ==
  "confirm" \notin Sent /\ batch.status \in {"confirmed", "sealed"} =>
    \E d \in Divergences : divs[d].status = "confirmed"

\* The stored pair is what both trails, as they are now, replay to.
PairIsCurrent(cp) ==
  \A side \in Side :
    /\ Replayable(ListBySide(side), cp)
    /\ Replayed(ListBySide(side), cp, fps[cp][side])

\* ScanFingerprints: however many events were imported since the last scan, and
\* wherever that one stopped, a scan that comes to its end leaves every trusted
\* checkpoint with the pair of the trails as they are.
ScanRepairs ==
  [][\A w \in Workers :
       ScanUpsertTest(w) /\ req'[w].op = "none" =>
         (\A cp \in TrustedCheckpoints : PairIsCurrent(cp))']_vars

\* Sync: from the lock on, every aligned event of either side lies in the
\* locked range.
AlignedInRange ==
  batch.status # "receiving" =>
    \A side \in Side, s \in Seqs :
      events[side][s].status = "aligned" => batch.min <= s /\ s <= batch.max

StoredSeqs == Rows("reference") \cup Rows("under_test")

NoneAligned(side) == \A s \in Seqs : events[side][s].status # "aligned"

\* Aligner.Align: the locked range is that of the union of both trails, so it
\* ends at events.  The 0 that stands for the minimum of no rows begins it only
\* if a trail had nothing to align, wherever an earlier Sync stopped.
RangeEndsAtEvents ==
  batch.status # "receiving" =>
    /\ batch.max \in StoredSeqs
    /\ \/ batch.min \in StoredSeqs
       \/ batch.min = 0 /\ \E side \in Side : NoneAligned(side)

\* ExcludeEvent: an excluded event stays excluded, a later Sync included.
ExcludedStaysExcluded ==
  [][\A side \in Side, s \in Seqs :
       events[side][s].status = "excluded" =>
         events'[side][s].status = "excluded"]_events

\* SnapshotSummary: the evidence is frozen once a snapshot is published, so a
\* snapshot that supersedes another repeats its summary.
SummariesAgree ==
  \A s, t \in PublishedIds \cup SupersededIds : snaps[s].sum = snaps[t].sum

-----------------------------------------------------------------------------
(* The abstract specification that the methods implement while those of    *)
(* them run alone that move the batch on, draft or publish.                *)

Evidence == <<events, cps, fps, deps, divs, chain>>

RangeOf(b) == <<b.min, b.max>>

Selection ==
  <<TrustedCheckpoints, UnreliableCheckpoints, ListExcluded("under_test")>>

LatestLocated == CHOOSE d \in DivIds : IsLast(d, Located)

\* The summary that a publication would give now.
Verdict ==
  [count |-> Cardinality(Divergences),
   first |-> IF Located = {} THEN 0 ELSE divs[LatestLocated].first]

\* A draft's configuration as range and selection.
Configuration(cfg) ==
  <<RangeOf(cfg), <<cfg.trusted, cfg.unreliable, cfg.excluded>>>>

Lifecycle == INSTANCE BatchLifecycle WITH
  Ids       <- SnapIds,
  stage     <- batch.status,
  evidence  <- Evidence,
  range     <- RangeOf(batch),
  selection <- Selection,
  verdict   <- Verdict,
  frozen    <- [s \in Snapshots |-> Configuration(snaps[s].cfg)],
  says      <- [s \in PublishedIds \cup SupersededIds |-> snaps[s].sum],
  published <- PublishedIds,
  retired   <- SupersededIds

\* Every method, as long as those that move the batch on and the draft run
\* alone: whichever statement of a request fails and whenever the process
\* restarts, what the tables show is what single steps could have made.
ImplementsLifecycle == Lifecycle!Spec

-----------------------------------------------------------------------------
(* What the repository's documents and comments say and the code does not  *)
(* keep: a run finds it violated.                                          *)

\* BENZHI_README.md: configuration and summary of a published snapshot cannot
\* be rewritten.  The code keeps it as long as publications run alone.
PublishedSummaryKept ==
  [][\A s \in PublishedIds \cup SupersededIds : snaps'[s].sum = snaps[s].sum]_snaps

\* errors.go: an excluded event is out of the comparison, so a trace never
\* confirms a divergence at one.
ExcludedNotBlamed ==
  [][\A d \in Divergences :
       divs'[d].status = "confirmed" /\ divs'[d] # divs[d] =>
         divs'[d].first \notin ListExcluded("under_test")]_divs

=============================================================================
