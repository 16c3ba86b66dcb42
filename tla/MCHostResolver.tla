--------------------------- MODULE MCHostResolver ---------------------------
(***************************************************************************)
(* HostResolver on small instances.                                        *)
(***************************************************************************)
EXTENDS HostResolver

CONSTANTS r1, r2, r3   \* the requests

Slots(total, reserved) ==
  [total_jobs |-> total,
   reserved_slots |-> [p \in Priority |-> IF p = NumPriorities - 1 THEN reserved ELSE 0]]

\* Two slots, and keys of both kinds; nothing changes.
Plain == [requests |-> Request, keys |-> Key, two_families |-> {1, 2}, system_only |-> {},
          priorities |-> Priority, limits |-> Slots(2, 0), max_queued |-> 9,
          max_failures |-> 2, fallback |-> TRUE,
          max_changes |-> 0, changes |-> {}, reentrant |-> {}]

\* The network, its configuration or the client change, and callbacks resolve.
Changing == [Plain EXCEPT !.keys = {1, 2}, !.priorities = {0}, !.max_failures = 1,
                          !.max_changes = 1, !.changes = {"ip", "dns", "client"},
                          !.reentrant = {"resolve"}]

\* The queue overflows, and callbacks cancel.
Overflowing == [Plain EXCEPT !.two_families = {}, !.limits = Slots(1, 0),
                             !.max_queued = 1, !.max_failures = 1,
                             !.fallback = FALSE, !.reentrant = {"cancel"}]

\* The resolver is destroyed, also by callbacks; one key is for the system only.
Destroyed == [Plain EXCEPT !.keys = {1, 2}, !.two_families = {1}, !.system_only = {2},
                           !.priorities = {0}, !.max_failures = 1, !.max_changes = 1,
                           !.changes = {"ip", "dns", "destroy"},
                           !.reentrant = {"destroy", "resolve"}]

\* A slot is kept for the higher priority.
Reserving == [Plain EXCEPT !.keys = {1, 2}, !.two_families = {1}, !.limits = Slots(2, 1),
                           !.max_changes = 1, !.changes = {"ip"}]

\* The queue overflows, and callbacks resolve.
Nesting == [Overflowing EXCEPT !.keys = {1, 2}, !.two_families = {1}, !.priorities = {0},
                               !.max_changes = 1, !.changes = {"ip"},
                               !.reentrant = {"resolve"}]

MCScenarios == {Plain, Changing, Overflowing, Destroyed, Reserving, Nesting}

\* For liveness: one slot and a queue that overflows; and two slots, one of
\* which is kept for the higher priority, while everything may change.
FairScenarios ==
  {[Overflowing EXCEPT !.keys = {1, 2}, !.two_families = {1}, !.priorities = {0},
                       !.fallback = TRUE, !.reentrant = {}],
   [Destroyed EXCEPT !.requests = {r1, r2}, !.keys = {1, 2}, !.two_families = {},
                     !.priorities = Priority, !.limits = Slots(2, 1),
                     !.changes = {"ip", "dns"}, !.reentrant = {"resolve"}]}

Symmetry == Permutations(Request)

=============================================================================
