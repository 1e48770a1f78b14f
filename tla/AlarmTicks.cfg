\* Overlapping runs, tasks that move, failing calls and deaths.
SPECIFICATION Spec
CONSTANTS
    Tasks = {t1}
    Statuses <- MCStatuses
    Runs = {r1, r2}
    Events = {e1, e2, e3, e4, e5, e6}
    NoEvent = NoEvent
    MaxChanges = 3
    MaxFaults = 1
INVARIANTS OneActive OneMailPerWindow
PROPERTIES ClearsOnlyLapsed ImplementsLog RunMailsFiring RunClearsQuiet
