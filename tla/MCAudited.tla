----------------------------- MODULE MCAudited ------------------------------
(* Small values for the management of elections with its audit log.        *)
EXTENDS AuditedLifecycle

CONSTANTS o1, o2, o3

\* One poll, and two replacements of its options that two managers may race with.
MCOneBody ==
    {[options |-> {o1, o2, o3}, maxSelections |-> 2, startsAt |-> 0, endsAt |-> 1]}
MCReplacements == {[options |-> {o1, o2}], [options |-> {o3, o2}]}
=============================================================================
