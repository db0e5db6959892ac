CONSTANTS
    Tasks = {t1, t2, t3}
    Agents = {a1, a2}
    Worktrees = {w1}
    None = None
SPECIFICATION Spec
INVARIANTS BegunOnCompletedWork
PROPERTIES ImplementsClaims
