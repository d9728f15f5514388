---------------------------- MODULE MCAdminState -----------------------------
(* AdminState on a small instance. *)
EXTENDS AdminState

\* The second is refused by the validation.
MCRules == {[max_attempts |-> 2], [max_attempts |-> 0]}

==============================================================================
