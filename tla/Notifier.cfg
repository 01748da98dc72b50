\* Two workers, one editor, a cooldown of two ticks; no symmetry, for liveness.
CONSTANTS
    Workers = {w1, w2}
    Editors = {e1}
    TTL = 2
    MaxFaults = 1
SPECIFICATION FairSpec
INVARIANTS
    OneNoticePerWindow
    SilenceHasReason
    NoticeIsTrue
    DisablingIsTold
PROPERTY NoticesResume
