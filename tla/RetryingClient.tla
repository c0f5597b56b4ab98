--------------------------- MODULE RetryingClient ---------------------------
(***************************************************************************)
(* A client that brings one batch from its creation to a published         *)
(* snapshot, and sends a request again when it was not answered.  Any      *)
(* statement of the service may fail and the process may restart, a        *)
(* bounded number of times.  Its requests run one at a time.               *)
(***************************************************************************)
EXTENDS ReplayService

CONSTANT MaxFaults   \* bound: errors and restarts in a run

ASSUME MaxFaultsAssumption == MaxFaults \in Nat
ASSUME SerialAssumption == Concurrent = {}

VARIABLE faults      \* errors and restarts so far

clientVars == <<vars, faults>>

ClientInit == Init /\ faults = 0

Fault ==
  /\ faults < MaxFaults
  /\ Restart \/ \E w \in Workers : Fail(w)
  /\ faults' = faults + 1

Step(w) == (TrailNext(w) \/ CompareNext(w) \/ SnapshotNext(w)) /\ UNCHANGED faults

\* The next statement of the method that w runs.
Continue(w) == req[w].op # "none" /\ Step(w)

\* What the client waits for before it sends a request: both trails and a
\* checkpoint before Sync; it makes one draft.  It knows of no other order, and
\* repeats what has been answered.
Ready(op) ==
  /\ op = "sync" => /\ \A side \in Side : Rows(side) # {}
                    /\ TrustedCheckpoints # {}
  /\ op = "draft" => Snapshots = {}

Send(w, op) ==
  /\ req[w].op = "none"
  /\ Ready(op)
  /\ Step(w)
  /\ req'[w].op = op

ClientNext ==
  \/ Fault
  \/ \E w \in Workers : Continue(w) \/ \E op \in Sent : Send(w, op)

\* The goroutine of a request goes on.  The client sends every request that the
\* service would accept again and again; the trails of the two sides are
\* requests of their own.
ClientFairness ==
  \A w \in Workers :
    /\ WF_clientVars(Continue(w))
    /\ \A side \in Side : SF_clientVars(Send(w, "import") /\ req'[w].side = side)
    /\ \A op \in Sent \ {"import"} : SF_clientVars(Send(w, op))

ClientSpec == ClientInit /\ [][ClientNext]_clientVars /\ ClientFairness

-----------------------------------------------------------------------------

\* Every method: wherever a request stopped, the rows it has left behind never
\* keep the client from finishing by sending it again.  The divergence is
\* located, a snapshot that names it is published, and the batch is sealed.
PublishedEventually ==
  <>[](/\ batch.status = "sealed"
       /\ \E s \in PublishedIds : snaps[s].sum.first # 0)

=============================================================================
