---------------------------- MODULE ApprovalSpec ----------------------------
(***************************************************************************)
(* What the approval flow promises Claude Code and the user, without       *)
(* aggregator, queue, channels or timers: a call that was put to the       *)
(* daemon is answered exactly once, and every answer is authorised by the  *)
(* allowlist, by a verb some user sent for the call's tool_use_id, or by   *)
(* the configured fallback.  ApprovalFlow implements it.                   *)
(***************************************************************************)
CONSTANTS Call, Id, IdOf, Verdicts, Derivable, Fallback

VARIABLES
    outcome,    \* what Claude Code has been told about each call
    intents     \* the verbs users have sent for each id

vars == <<outcome, intents>>

Init ==
    /\ outcome = [c \in Call |-> "none"]
    /\ intents = [i \in Id |-> {}]

Ask(c) ==
    /\ outcome[c] = "none"
    /\ outcome' = [outcome EXCEPT ![c] = "open"]
    /\ UNCHANGED intents

Express(i, verb) ==
    /\ intents' = [intents EXCEPT ![i] = @ \cup {verb}]
    /\ UNCHANGED outcome

FallbackAnswer == IF Fallback = "passthrough" THEN "ask" ELSE Fallback

Shared(c) == \E e \in Call \ {c} : IdOf[e] = IdOf[c]

\* Answers a user may bring about for a call that is held for approval.
ByUser(c) ==
    (IF "once" \in intents[IdOf[c]] THEN {"allow"} ELSE {})
    \cup (IF "deny" \in intents[IdOf[c]] THEN {"deny"} ELSE {})
    \cup (IF "always" \in intents[IdOf[c]]
          THEN {IF c \in Derivable THEN "allow" ELSE "deny"} ELSE {})

Held(c) ==
    IF "ask" \in Verdicts[c]
    THEN ByUser(c) \cup {FallbackAnswer} \cup (IF Shared(c) THEN {"silent"} ELSE {})
    ELSE {}

Answer(c) ==
    /\ outcome[c] = "open"
    /\ \E a \in (Verdicts[c] \ {"ask"}) \cup Held(c) :
          outcome' = [outcome EXCEPT ![c] = a]
    /\ UNCHANGED intents

Abandon(c) ==
    /\ outcome[c] = "open"
    /\ outcome' = [outcome EXCEPT ![c] = "gone"]
    /\ UNCHANGED intents

Next ==
    \/ \E c \in Call : Ask(c) \/ Answer(c) \/ Abandon(c)
    \/ \E i \in Id, verb \in {"once", "deny", "always"} : Express(i, verb)

Spec == Init /\ [][Next]_vars
=============================================================================
