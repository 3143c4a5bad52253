\* One CachedPage from create() to deletion, in a build with accelerated
\* compositing and without video tracks, so that one compiled-in and one
\* compiled-out notification are both marked.
CONSTANTS
    AcceleratedCompositing = TRUE
    VideoTrack = FALSE
SPECIFICATION Spec
INVARIANTS
    FrameFateExclusive
    RestoreDeliversMarks
\* The life of the object ends at its destructor.
CHECK_DEADLOCK FALSE
