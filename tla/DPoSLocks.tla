----------------------------- MODULE DPoSLocks -----------------------------
(***************************************************************************)
(* The locks of the DPoS engine (consensus/diamantepos/diamantepos.go).  The *)
(* goroutines of ProcessBlock, recoveries, the API and governance call it at *)
(* the same time.  Module DPoS models what a call does when it has its       *)
(* locks; here a call takes them one by one and keeps them to its end.       *)
(* Calls that hold one lock at a time, GetState among them, wait for nothing *)
(* with a lock in hand and are left out, and so is slashLogMu.               *)
(***************************************************************************)
EXTENDS Integers, Sequences

CONSTANT LockCallers   \* goroutines

VARIABLE lcall         \* by goroutine: method and number of locks taken
lockVars == <<lcall>>

NotCalling == [method |-> "none", taken |-> 0]

\* In the order in which the method takes them; updateActiveValidators, which the
\* first four call in the end, takes activeValidatorsMu.
AddValidatorLocks == <<"validatorsMu", "stakeMu", "activeValidatorsMu">>
UpdateStakeLocks == <<"validatorsMu", "stakeMu", "activeValidatorsMu">>
ProcessEpochLocks == <<"epochMu", "validatorsMu", "stakeMu", "activeValidatorsMu">>

\* Bug: epochMu after validatorsMu.
SetSetSizeLocks_EpochLater == <<"validatorsMu", "epochMu", "stakeMu", "activeValidatorsMu">>
SetSetSizeLocks == <<"epochMu", "validatorsMu", "stakeMu", "activeValidatorsMu">>
RestoreStateLocks == <<"validatorsMu", "activeValidatorsMu", "epochMu", "stakeMu">>

Locks ==
  [AddValidator |-> AddValidatorLocks, UpdateStake |-> UpdateStakeLocks, ProcessEpoch |-> ProcessEpochLocks,
   SetSetSize |-> SetSetSizeLocks, RestoreState |-> RestoreStateLocks, none |-> <<>>]

LocksOf(c) == Locks[lcall[c].method]
Held(c) == {LocksOf(c)[i] : i \in 1..lcall[c].taken}
Waiting(c) == lcall[c].taken < Len(LocksOf(c))
NextLock(c) == LocksOf(c)[lcall[c].taken + 1]

LockInit == lcall = [c \in LockCallers |-> NotCalling]

Enter(c, method) ==
  /\ lcall[c] = NotCalling
  /\ lcall' = [lcall EXCEPT ![c].method = method]

TakeLock(c) ==
  /\ Waiting(c) /\ \A d \in LockCallers : NextLock(c) \notin Held(d)
  /\ lcall' = [lcall EXCEPT ![c].taken = @ + 1]

\* ProcessEpoch away from a boundary, UpdateStake of an unknown validator.
ReturnsEarly(c) ==
  \/ lcall[c].method = "ProcessEpoch" /\ lcall[c].taken = 1
  \/ lcall[c].method = "UpdateStake" /\ lcall[c].taken = 2

Leave(c) ==
  /\ lcall[c] # NotCalling /\ (~Waiting(c) \/ ReturnsEarly(c))
  /\ lcall' = [lcall EXCEPT ![c] = NotCalling]

LockNext ==
  \E c \in LockCallers :
    TakeLock(c) \/ Leave(c) \/ \E method \in DOMAIN Locks \ {"none"} : Enter(c, method)

LockSpec == LockInit /\ [][LockNext]_lockVars

-----------------------------------------------------------------------------
\* Goroutines that wait for each other.
Stuck(S) ==
  /\ S # {}
  /\ \A c \in S : Waiting(c) /\ \E d \in S : NextLock(c) \in Held(d)

\* RestoreState takes validatorsMu before epochMu, the others after it, so it can
\* meet an epoch or a change of the set size and neither ever returns.  That is the
\* only way: no goroutines wait for each other unless one of them restores and
\* another holds epochMu.
StuckNeedsRestore ==
  \A S \in SUBSET LockCallers : Stuck(S) =>
    /\ \E c \in S : lcall[c].method = "RestoreState"
    /\ \E c \in S : "epochMu" \in Held(c)
=============================================================================
