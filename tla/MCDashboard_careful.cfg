CONSTANTS
    Hours <- ThreeHours
    Page = {A, B}
    Closed = Closed
    MaxInFlight = 1
SPECIFICATION Spec
INVARIANTS TypeOK NoOverlaps NothingRefused SettledShowsPage NothingFalseShown
SYMMETRY Symmetry
CONSTRAINT FewTasksOnceCareless
