\* Every case two changes away from a statement of each kind, every four lines.
SPECIFICATION Spec
CONSTANTS MaxEdits = 2 MaxLines = 4 Input <- AnyLine
INVARIANTS RefusedForAReason SettingsStand
PROPERTIES EveryEditShows
CHECK_DEADLOCK FALSE
