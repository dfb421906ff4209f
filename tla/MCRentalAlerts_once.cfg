SPECIFICATION RentalSpec

CONSTANTS
    Rentals = {"a"}
    Panels = {"panel"}
    Sweep = "sweep"
    PanelTenant = "default"
    SweepTenant = ""
    RecentWindow = 1
    PruneAfter = 2
    NoRental = "no rental"
    MaxMinutes = 2
    MaxHitches = 0

INVARIANTS OneAlertPerRental

CHECK_DEADLOCK FALSE
