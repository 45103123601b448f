---------------------------- MODULE MCLightcron -----------------------------
(***************************************************************************)
(* Small instances of Lightcron for TLC.                                   *)
(***************************************************************************)
EXTENDS LightcronProperties, TLC

CONSTANTS j1, j2, w1, w2, s1, s2

\* Every agent under a hostname of its own, named like it; or all under w1.
OwnName    == [a \in Agents |-> a]
SharedName == [a \in Agents |-> w1]

\* Agents are interchangeable, and so are jobs where no limit tells them apart;
\* neither set is used where a run has a liveness property.
WorkerSymmetry == Permutations(Agents)
JobSymmetry    == Permutations(Jobs)
=============================================================================
