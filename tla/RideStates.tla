----------------------------- MODULE RideStates -----------------------------
(***************************************************************************)
(* The ride status machine of internal/rides/state.go: the statuses, the   *)
(* table of legal edges and the status classes the rest of the code reads  *)
(* off it (the predicate of the two partial unique indexes, the replay     *)
(* test of an accept).                                                     *)
(***************************************************************************)

RideStatus == {"REQUESTED", "MATCHING", "DRIVER_ASSIGNED", "DRIVER_ARRIVING",
               "ARRIVED", "IN_PROGRESS", "COMPLETED",
               "CANCELLED_BY_RIDER", "CANCELLED_BY_DRIVER", "EXPIRED"}

Cancelled == {"CANCELLED_BY_RIDER", "CANCELLED_BY_DRIVER"}

\* A ride row that has not been inserted yet.
Absent == "absent"

\* The table of legal moves, as <<source, destination>> pairs.
transitions ==
  {<<"REQUESTED", "MATCHING">>,
   <<"MATCHING", "DRIVER_ASSIGNED">>, <<"MATCHING", "EXPIRED">>,
   <<"DRIVER_ASSIGNED", "DRIVER_ARRIVING">>,
   <<"DRIVER_ARRIVING", "ARRIVED">>,
   <<"ARRIVED", "IN_PROGRESS">>,
   <<"IN_PROGRESS", "COMPLETED">>}
    \cup ({"REQUESTED", "MATCHING", "DRIVER_ASSIGNED", "DRIVER_ARRIVING", "ARRIVED"}
            \X Cancelled)

Transition(from, to) == <<from, to>> \in transitions

\* Mutant: the cancel guard forgets the source status.
sourcesFor_Any(to) == RideStatus

\* Every status from which `to` is a legal move.
sourcesFor(to) == {from \in RideStatus : Transition(from, to)}

\* The statuses the partial unique indexes call active.
ActiveStatus == {"REQUESTED", "MATCHING", "DRIVER_ASSIGNED",
                 "DRIVER_ARRIVING", "ARRIVED", "IN_PROGRESS"}

\* At or beyond DRIVER_ASSIGNED, as an accept replay tests it.
assignedOrLater == {"DRIVER_ASSIGNED", "DRIVER_ARRIVING", "ARRIVED",
                    "IN_PROGRESS", "COMPLETED"}

DriverStatus == {"offline", "available", "on_trip"}
=============================================================================
