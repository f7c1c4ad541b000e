-------------------------- MODULE MCNotifyEmitter --------------------------
(* The notification emitter as TLC checks it.                              *)
EXTENDS NotifyEmitter, TLC

\* Ids are names only; prompts are interchangeable too.
Symmetry == Permutations(Id) \cup Permutations(Tool)
=============================================================================
