SPECIFICATION Spec
CONSTANTS
    Keys = {a}
    Questions = {q}
    Agents = {g}
    MaxEvents = 4
    MaxSteps = 4
INVARIANTS NeedsOwner OneSession OpenPromptsAgree NewestConversation
PROPERTY SettledOnce
CHECK_DEADLOCK FALSE
