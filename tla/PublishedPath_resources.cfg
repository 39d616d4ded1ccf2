\* Two profiles, two requests at a time and two edits of a draft; two runs
\* only where the flow has memory.
SPECIFICATION Spec
CONSTANTS
    Commands = {"text", "risky", "{{video}}"}
    PositiveNumbers = {"30", "1", "2", "3", "5", "10", "60", "300"}
    ValidTimezones = {"UTC", "local"}
    ValidDates = {"noon"}
    TemplateTexts = {"{{video}}", "{{replyText}}"}
    ProfileIds = {p1, p2}
    p1 = p1
    p2 = p2
    Callers = {x, y}
    x = x
    y = y
    MaxEdits = 2
    MaxCronEdits = 4
    MaxRequests = 2
    Runs = {1, 2}
    Agents = {"main", "helper"}
    Flow = "flow"
    Paths <- MCPaths
    CronFields <- MCCronFields
    CommandWords <- MCCommandWords
    ProgramName <- MCProgramName
    NumberOf <- MCNumberOf
    TemplateField <- MCTemplateField
    Events <- MCEvents
    Payloads <- MCPayloads
    StepSession <- MCStepSession
    SkillsOf <- MCSkillsOf
    WorkspacePolicies <- MCWorkspacePolicies
    AdapterPolicies <- MCAdapterPolicies
    Statuses <- MCStatuses
    Forms <- MCForms
SYMMETRY Symmetry
INVARIANTS
    PublicationHolds
    ProfilesUsable
    MemoryKept
    RepliesArrive
    HandoffsBounded
CHECK_DEADLOCK FALSE
