--------------------------- MODULE MCEffectStack ---------------------------
(* Instances of EffectStack.tla for TLC.                                   *)
EXTENDS EffectStack, TLC

CONSTANTS p1, p2

SameThreads == Permutations(Threads)

(* The order of the demo, of test_composition and of agent3-effect-spec 3. *)
Canonical == {<<"audit", "policy", "dry-run", "cache", "retry", "rate-limit", "raw">>}
Short     == {<<"audit", "retry", "raw">>}
Bucket    == {<<"rate-limit", "raw">>}

(* Tools have a mock and no handler of their own.                          *)
WrapAll == [h \in Handlers |-> IF h = "raw" THEN {"llm"} ELSE Ops]

(* One operation and argument for each verdict of the policy.              *)
Bankability ==
    << [when |-> {"llm"} \X {"b"}, require |-> {}, onFail |-> "deny"],
       [when |-> {"tool"} \X Args, require |-> {"tool"} \X {"b"},
        onFail |-> "require-approval"],
       [when |-> {"tool"} \X {"b"}, require |-> {}, onFail |-> "deny-silently"] >>

Permissive == <<>>

(* The premises of the theorems hold of the stacks here.                   *)
ASSUME OrdersHold == PolicyFirst /\ AuditOverRetry /\ AuditOutermost /\ VendorGuarded
=============================================================================
