-------------------------------- MODULE MCLane --------------------------------
(* Three loads of the lane: two owners of storage, requests beside one     *)
(* owner's read, and requests with events.                                 *)
EXTENDS Lane
CONSTANTS o1, o2, r1

Load(owners, requests, produces, troubles) ==
    [owners |-> owners, requests |-> requests, events |-> produces, faults |-> troubles]
AllLoads ==
    {Load({o1, o2}, 0, 0, {}),
     Load({r1}, 1, 0, {"ends"}),
     Load({}, 3, 0, {"ends"}),
     Load({}, 1, 2, {"ends", "breaks"})}
AllOwners == {o1, o2, r1}
OnlyReaders == {r1}
=============================================================================
