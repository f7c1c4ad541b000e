--------------------------- MODULE MCApprovalFlow ---------------------------
(* Small instances of ApprovalFlow for TLC. *)
EXTENDS ApprovalFlow, TLC

CONSTANTS c1, c2, i1, i2, s1, s2, ctrl, notify

\* Each call has its own id, or both have the same; they are of one session or of two.
UniqueIds   == c1 :> i1 @@ c2 :> i2
SameId      == c1 :> i1 @@ c2 :> i1
OneSession  == c1 :> s1 @@ c2 :> s1
TwoSessions == c1 :> s1 @@ c2 :> s2

\* c1 always needs a prompt; the allowlist may cover or deny c2.
AskOrAuto   == c1 :> {"ask"} @@ c2 :> {"ask", "allow", "deny"}
=============================================================================
