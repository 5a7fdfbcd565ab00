SPECIFICATION Spec
CONSTANTS
    Agents = {a1, a2}
    Providers = {v1}
    Tasks = {k1}
    Places = {l1}
    MaxParticipants = 2
    MaxMessages = 2
    MaxBytes = 4
    ReadLimit = 2
    ReadBytes = 3
    Calls = {"join", "post", "read"}
    Revocable = {1}
    MaxConns = 3
    MaxIds = 3
    MaxLog = 3
SYMMETRY Symmetric
INVARIANTS PresenceConsistent MessagesNamed  UnreadIsNews
CHECK_DEADLOCK FALSE
