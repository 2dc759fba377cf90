------------------------------ MODULE MCPresence ------------------------------
EXTENDS Presence

(* Every value of the two settings that a handler tells apart, once.       *)
MCPolicies ==
  {[failure |-> "fail_action", reregister |-> "refuse_until_release"],
   [failure |-> "continue",    reregister |-> "idempotent_line"],
   [failure |-> "stop_hub",    reregister |-> "line_after_stale"]}

(* Four in the first minute: two, the stop, and two that come late.        *)
MCRejected == <<4, 1>>
=============================================================================
