SPECIFICATION MCSpec
CONSTANTS
    Builders = {"codex", "grok"}
    Offered = {{"claude", "codex", "grok"}, {"codex"}}
    Lands = {"none", "after_approval", "before_review"}
    Reports = {"none", "landed", "not_landed"}
    MaxRounds = 2
    JournalFails = 1
    Cancels = TRUE
INVARIANT VerdictsStand
INVARIANT StoriesAgree
CHECK_DEADLOCK FALSE
