SPECIFICATION ProcessSpec
CONSTANTS
    p1 = p1
    p2 = p2
    proc_section = proc_section
    other_section = other_section
    Sections = {proc_section, other_section}
    Typed = proc_section
    SectionFields = {"per_core", "saturation"}
    DefaultLeaf = "default"
    UserLeaves = {"number", "text"}
    BadLeaves = {"text"}
    Pids = {p1, p2}
    pid_max = 4
    cpu_count = 1
    ZOMBIE_PER_CORE = 1
    PID_MAX_WARN_PCT = 50
    PID_SATURATION_PCT = 50
INVARIANTS
    MergedByPath
    ReportBounded
PROPERTY
    StuckIsReported
