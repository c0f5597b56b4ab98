--------------------------- MODULE BatchLifecycle ---------------------------
(***************************************************************************)
(* What a client may rely on that keeps certain requests apart, without    *)
(* knowing the statements that a request is made of: a batch goes through  *)
(* its stages one by one; a verdict is reached in two of them and is final *)
(* after them; a draft freezes the configuration of one moment; publishing *)
(* is one step, which says the verdict, retires what was published before  *)
(* and seals the batch; a sealed batch takes nothing but that.             *)
(*                                                                         *)
(* ReplayService implements it.  A request that fails half way takes no    *)
(* step here, or one that only adds to the evidence.                       *)
(***************************************************************************)
CONSTANT Ids     \* names of snapshots

VARIABLES
  stage,      \* the stage of the batch
  evidence,   \* trails, checkpoints, fingerprints, dependencies, chains
  range,      \* the sequence numbers that are compared
  selection,  \* the checkpoints and exclusions that a draft would freeze
  verdict,    \* what a publication would say
  frozen,     \* snapshot -> the configuration it has frozen
  says,       \* snapshot -> the verdict it was published with
  published,  \* the published snapshot, if any
  retired     \* the snapshots that were published before it

vars == <<stage, evidence, range, selection, verdict, frozen, says, published, retired>>
batch == <<stage, evidence, range, selection, verdict>>
snapshots == <<frozen, says, published, retired>>

Init ==
  /\ stage = "receiving"
  /\ frozen = <<>> /\ says = <<>>
  /\ published = {} /\ retired = {}

Drafts == DOMAIN frozen \ (published \cup retired)

With(f, id, value) == [i \in DOMAIN f \cup {id} |-> IF i = id THEN value ELSE f[i]]

-----------------------------------------------------------------------------

\* Evidence may be added until the batch is sealed.  What it says may change
\* only while the batch is compared and traced.
Collect ==
  /\ stage # "sealed"
  /\ UNCHANGED <<stage, range, snapshots>>
  /\ stage \notin {"syncing", "pending_loc"} => UNCHANGED verdict

Sync ==
  /\ stage = "receiving"
  /\ stage' = "syncing"
  /\ UNCHANGED <<evidence, selection, verdict, snapshots>>

Advance(from, to) ==
  /\ stage = from
  /\ stage' = to
  /\ UNCHANGED <<evidence, range, selection, verdict, snapshots>>

Draft(id) ==
  /\ stage \in {"pending_loc", "confirmed"}
  /\ id \notin DOMAIN frozen
  /\ frozen' = With(frozen, id, <<range, selection>>)
  /\ UNCHANGED <<batch, says, published, retired>>

Publish(id) ==
  /\ stage \in {"confirmed", "sealed"}
  /\ id \in Drafts
  /\ stage' = "sealed"
  /\ published' = {id}
  /\ retired' = retired \cup published
  /\ says' = With(says, id, verdict)
  /\ UNCHANGED <<evidence, range, selection, verdict, frozen>>

Next ==
  \/ Collect
  \/ Sync
  \/ Advance("syncing", "pending_loc")
  \/ Advance("pending_loc", "confirmed")
  \/ Advance("confirmed", "sealed")
  \/ \E id \in Ids : Draft(id) \/ Publish(id)

Spec == Init /\ [][Next]_vars

=============================================================================
