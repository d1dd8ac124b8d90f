SPECIFICATION Spec
CONSTANTS
    Posts = {p1, p2, p3}
    NoPost = NoPost
    BlankAt = {"gitlab"}
INVARIANT BlankIsFatalToGitLab
CHECK_DEADLOCK FALSE
