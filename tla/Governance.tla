----------------------------- MODULE Governance -----------------------------
(***************************************************************************)
(* The life of a proposal (consensus/governance/governance.go) in production *)
(* mode.  Every method holds g.mu to its end.  The tally of ProcessProposals *)
(* asks DPoS for the total stake and then for every voter's, under the locks *)
(* of DPoS alone, so stakes may change between; it is a sequence of steps    *)
(* (sweep.pc # "idle"), during which the other methods wait for g.mu.        *)
(* Gossip delay, threshold and epoch duration of an executed proposal reach  *)
(* nothing that is in this model; a new set size reaches DPoS.               *)
(***************************************************************************)
EXTENDS DPoS

CONSTANTS
  Proposals,        \* ids of proposals; each is created once
  Changes,          \* what proposals ask for, of Change
  SuperValidators   \* may cancel what others have created

\* A new set size; data without an effect here; an upgrade, which is refused from
\* its height on; data that cannot be decoded.
Change == [kind : {"setSize"}, size : SetSizes] \cup [kind : {"inert", "upgrade", "malformed"}]

ASSUME ChangeAssumption == Changes \subseteq Change /\ SuperValidators \subseteq V

VARIABLES
  prop,    \* proposals by id: status, creator, change, votes, end of voting passed
  sweep    \* ProcessProposals in progress
govVars == <<prop, sweep>>

NoProposal == [status |-> "none", creator |-> {}, change |-> {}, yes |-> {}, no |-> {}, ended |-> FALSE]
NoSweep == [pc |-> "idle", todo |-> {}, due |-> {}, p |-> {}, total |-> 0, voters |-> {},
            count |-> 0, yes |-> 0, disturbed |-> FALSE]

GovernanceInit == prop = [p \in Proposals |-> NoProposal] /\ sweep = NoSweep

Exists(p) == prop[p].status \notin {"none", "deleted"}
MutexFree == sweep.pc = "idle"

CreateProposal(p, creator, change) ==
  /\ MutexFree /\ prop[p].status = "none"
  /\ prop' = [prop EXCEPT ![p] = [status |-> "Pending", creator |-> {creator}, change |-> change,
                                  yes |-> {}, no |-> {}, ended |-> FALSE]]
  /\ UNCHANGED <<sweep, dposVars>>

Deleted == [NoProposal EXCEPT !.status = "deleted"]

CancelProposal(p, id) ==
  /\ MutexFree /\ prop[p].status \in {"Pending", "Active"}
  /\ id \in prop[p].creator \/ id \in SuperValidators
  /\ prop' = [prop EXCEPT ![p] = Deleted]
  /\ UNCHANGED <<sweep, dposVars>>

\* The EndTime of a proposal passes.
Elapse(p) ==
  /\ Exists(p) /\ ~prop[p].ended
  /\ prop' = [prop EXCEPT ![p].ended = TRUE]
  /\ UNCHANGED <<sweep, dposVars>>

\* Whoever voted before changes its vote.
Vote(p, v, inFavour) ==
  /\ MutexFree /\ prop[p].status = "Active" /\ ~prop[p].ended /\ v \in dActive
  /\ prop' = [prop EXCEPT ![p].yes = IF inFavour THEN @ \cup {v} ELSE @ \ {v},
                          ![p].no = IF inFavour THEN @ \ {v} ELSE @ \cup {v}]
  /\ UNCHANGED <<sweep, dposVars>>

-----------------------------------------------------------------------------
(* ProcessProposals, at every tick of Run.                                   *)

\* The time is taken once, and StartTime is always past.
ProcessProposals ==
  /\ MutexFree /\ \E p \in Proposals : prop[p].status \in {"Pending", "Active"}
  /\ sweep' = [NoSweep EXCEPT !.pc = "next",
                 !.todo = {p \in Proposals : Exists(p)},
                 !.due = {p \in Proposals : prop[p].status = "Active" /\ prop[p].ended}]
  /\ UNCHANGED <<prop, dposVars>>

SweepNext(p) ==
  /\ sweep.pc = "next" /\ p \in sweep.todo
  /\ IF p \in sweep.due
     THEN /\ sweep' = [pc |-> "voters", todo |-> sweep.todo \ {p}, due |-> sweep.due, p |-> {p}, total |-> dTotal,
                       voters |-> prop[p].yes, count |-> 0, yes |-> 0, disturbed |-> FALSE]
          /\ UNCHANGED prop
     ELSE /\ sweep' = [sweep EXCEPT !.todo = @ \ {p}]
          /\ prop' = [prop EXCEPT ![p].status = IF @ = "Pending" THEN "Active" ELSE @]
  /\ UNCHANGED dposVars

SweepEnd ==
  /\ sweep.pc = "next" /\ sweep.todo = {}
  /\ sweep' = NoSweep /\ UNCHANGED <<prop, dposVars>>

\* GetValidatorStake: 0 unless the validator is active, ...
TallyActive(v) ==
  /\ sweep.pc = "voters" /\ v \in sweep.voters
  /\ sweep' = [sweep EXCEPT !.voters = @ \ {v}, !.pc = IF v \in dActive THEN "count" ELSE @]
  /\ UNCHANGED <<prop, dposVars>>

\* ... then the number of active validators, ...
TallyCount ==
  /\ sweep.pc = "count"
  /\ sweep' = [sweep EXCEPT !.pc = IF dActive = {} THEN "voters" ELSE "add", !.count = Cardinality(dActive)]
  /\ UNCHANGED <<prop, dposVars>>

\* ... and an equal share of the total stake, which is read without a lock.
TallyAdd ==
  /\ sweep.pc = "add"
  /\ sweep' = [sweep EXCEPT !.pc = "voters", !.yes = @ + dTotal \div sweep.count]
  /\ UNCHANGED <<prop, dposVars>>

Majority(yes, total) == 100 * yes >= 66 * total

TallyEnd ==
  /\ sweep.pc = "voters" /\ sweep.voters = {}
  /\ \E p \in sweep.p : prop' =
       [prop EXCEPT ![p].status = IF Majority(sweep.yes, sweep.total) THEN "Passed" ELSE "Rejected"]
  /\ sweep' = [sweep EXCEPT !.pc = "next", !.p = {}]
  /\ UNCHANGED dposVars

-----------------------------------------------------------------------------
executeConsensusChange(p) ==
  /\ prop[p].change.kind = "setSize" /\ SetSetSize(prop[p].change.size)
  /\ prop' = [prop EXCEPT ![p].status = "Executed"]

\* The upgrade depends on the height of the moment.
executeOther(p) ==
  /\ prop[p].change.kind \in {"inert", "upgrade"} /\ UNCHANGED dposVars
  /\ prop' = [prop EXCEPT ![p].status = "Executed"]

\* ExecuteProposal, and ExecutePassedProposals one proposal after the other: each
\* is a change of its own to DPoS.  A proposal that fails stays as it is.
ExecuteProposal(p) ==
  /\ MutexFree /\ prop[p].status = "Passed"
  /\ executeConsensusChange(p) \/ executeOther(p)
  /\ UNCHANGED sweep

\* Whatever age is asked for, a minute after the end will do.
CleanupOldProposals ==
  LET old == {p \in Proposals : prop[p].status \in {"Rejected", "Executed"} /\ prop[p].ended}
  IN /\ MutexFree /\ old # {}
     /\ prop' = [p \in Proposals |-> IF p \in old THEN Deleted ELSE prop[p]]
     /\ UNCHANGED <<sweep, dposVars>>

\* DPoS goes on, also during a tally; the AI optimizer changes its set size too.
DPoSGoesOn ==
  /\ \/ \E n \in SetSizes : SetSetSize(n)
     \/ \E v \in V, s \in Stakes : DPoSAddValidator(v, s) \/ DPoSUpdateStake(v, s)
     \/ DPoSProcessEpoch
  /\ sweep' = [sweep EXCEPT !.disturbed = sweep.pc # "idle"]
  /\ UNCHANGED prop

GovernanceNext ==
  \/ \E p \in Proposals :
       \/ \E v \in V : \/ \E change \in Changes : CreateProposal(p, v, change)
                       \/ CancelProposal(p, v)
                       \/ \E inFavour \in BOOLEAN : Vote(p, v, inFavour)
       \/ Elapse(p) \/ SweepNext(p) \/ ExecuteProposal(p)
  \/ ProcessProposals \/ SweepEnd \/ TallyCount \/ TallyAdd \/ TallyEnd
  \/ \E v \in V : TallyActive(v)
  \/ CleanupOldProposals \/ DPoSGoesOn

GovernanceSpec == GovernanceInit /\ DPoSInit /\ [][GovernanceNext]_<<govVars, dposVars>>

-----------------------------------------------------------------------------
\* A vote counts with an equal share of the total stake, so a proposal passes only
\* with the votes of 66 % of the validators that are active when it is tallied: not
\* of those who have voted and left the set.  Unless DPoS changes during the
\* tally, or has no stake at all, when everything passes.
PassNeedsHeads ==
  [][\A p \in Proposals :
       prop[p].status = "Active" /\ prop'[p].status = "Passed" /\ ~sweep.disturbed /\ dTotal > 0
         => 100 * Cardinality(prop[p].yes \cap dActive) >= 66 * Cardinality(dActive)]_govVars

\* What finalizeProposal compares and what the comment on GetValidatorStake promises
\* it, "the stake of a specific validator if active": a proposal that passes while
\* DPoS rests has the votes of active validators with 66 % of the total stake.
StakeMajority ==
  [][\A p \in Proposals :
       prop[p].status = "Active" /\ prop'[p].status = "Passed" /\ ~sweep.disturbed
         => Majority(Sum(dStake, prop[p].yes \cap dActive), dTotal)]_govVars
=============================================================================
