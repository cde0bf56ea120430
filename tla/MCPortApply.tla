----------------------------- MODULE MCPortApply -----------------------------
(* Instances of PortApply for TLC. *)
EXTENDS PortApply, TLC

\* A device group with a mac step of 0 gets a step of 1.
MCCanon(v) == IF v = "step0" THEN "step1" ELSE v

ClientSymmetry == Permutations(Clients)

\* SuccessIsServed asks of the history only what happened since the read-back.
SinceReadBack ==
  <<port, late, pc, streams, groups, sync, todo, checked, seen, edits, drops,
    [c \in Clients |-> pc[c] \in {"confirmStreams", "confirmGroupIds", "confirmGroups"} /\ noise[c].back]>>
=============================================================================
