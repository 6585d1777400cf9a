-------------------------- MODULE StateTrackingMC --------------------------
(* Small instances of StateTracking for TLC. *)
EXTENDS StateTracking, TLC

CONSTANTS l1, l2, t1, t2, t3, b1, b2, b3, b4

App(calls, resources, n) == [calls |-> calls, resources |-> resources, ops |-> n]

\* three ways of using a resource, one of them a UAV
MCStateBits == {"Common", "SRV", "UAV", "Copy"}
MCUsages    == {{"SRV"}, {"UAV"}, {"Copy"}}

\* t1 is initialised at creation, t2 is not, t3 is without keepInitialState
MCTextureApps == {App({"setState"}, {t1}, 2), App({}, {t2}, 2),
                  App({"uavToggle"}, {t1}, 2), App({"permanent"}, {t1}, 2),
                  App({"reopen"}, {t1}, 2), App({}, {t3}, 3)}

\* b2 is without keepInitialState, b3 is untracked, b4 starts as a UAV
MCBufferApps == {App({"reopen"}, {b1}, 3), App({"uavToggle"}, {b1}, 3),
                 App({"setState"}, {b2}, 4), App({"permanent"}, {b2}, 3),
                 App({"multiUse"}, {b3, b4}, 2)}

MCResourceApps == MCTextureApps \cup MCBufferApps

ASSUME DisciplinedAssumption == \A a \in Applications : Disciplined(a)

MCInitialState == [r \in Resources |-> IF r = b4 THEN {"UAV"} ELSE {"SRV"}]

MCSymmetry == Permutations(CommandLists)
============================================================================
