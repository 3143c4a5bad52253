----------------------------- MODULE CachedPage -----------------------------
(***************************************************************************)
(* WebCore::CachedPage (history/CachedPage.cpp): a page kept in the        *)
(* back/forward cache.  It owns the CachedFrame of the main frame, which   *)
(* ends in one of two ways: restore() opens it into the page and clear()s  *)
(* it, or destroy() (also run by the destructor) tears it down.  While the *)
(* page sits in the cache, the page cache marks it for notifications that  *)
(* restore() must deliver to the live page.                                *)
(*                                                                         *)
(* One CachedPage is modelled from its creation to its deletion.  The      *)
(* CachedFrame's own work is recorded as the sequence frameOps of calls it *)
(* receives.  The marks are set by the page cache (CachedPage.h and        *)
(* PageCache.cpp are not in this repository): they are environment actions.*)
(***************************************************************************)
EXTENDS Sequences

CONSTANTS
    AcceleratedCompositing,  \* USE(ACCELERATED_COMPOSITING)
    VideoTrack               \* ENABLE(VIDEO_TRACK)

\* The four m_need* flags, by the notification each one asks for.
Flags == {"VisitedLinks", "FullStyleRecalc", "CaptionPreferences", "DeviceScale"}

\* The notifications restore() can deliver in this build.
Built == {"VisitedLinks", "FullStyleRecalc"}
         \cup (IF VideoTrack THEN {"CaptionPreferences"} ELSE {})
         \cup (IF AcceleratedCompositing THEN {"DeviceScale"} ELSE {})

VARIABLES
    cachedPage,      \* "None" before create(), "Live", "Deleted" after ~CachedPage
    cachedMainFrame, \* m_cachedMainFrame is not null
    need,            \* need[f]: the m_need* flag of notification f
    frameOps,        \* the calls the CachedFrame has received, in order
    delivered,       \* the notifications restore() delivered to the page
    marked           \* history: the marks made while the frame was cached

vars == <<cachedPage, cachedMainFrame, need, frameOps, delivered, marked>>

TypeOK ==
    /\ cachedPage \in {"None", "Live", "Deleted"}
    /\ cachedMainFrame \in BOOLEAN
    /\ need \in [Flags -> BOOLEAN]
    /\ frameOps \in Seq({"open", "clear", "destroy"})
    /\ delivered \subseteq Flags
    /\ marked \subseteq Flags

Init ==
    /\ cachedPage = "None"
    /\ cachedMainFrame = FALSE
    /\ need = [f \in Flags |-> FALSE]
    /\ frameOps = <<>>
    /\ delivered = {}
    /\ marked = {}

\* CachedPage::create and the constructor: the main frame is cached and no flag is set.
\* (The time stamp and expiration time are left out: only the cache's
\* eviction policy reads them.)
Create ==
    /\ cachedPage = "None"
    /\ cachedPage' = "Live"
    /\ cachedMainFrame' = TRUE
    /\ need' = [f \in Flags |-> FALSE]
    /\ UNCHANGED <<frameOps, delivered, marked>>

\* The page cache's markForVistedLinkStyleRecalc, markForFullStyleRecalc,
\* markForCaptionPreferencesChanged, markForDeviceScaleChanged on a page
\* it holds.
Mark(f) ==
    /\ cachedPage = "Live" /\ cachedMainFrame
    /\ need' = [need EXCEPT ![f] = TRUE]
    /\ marked' = marked \cup {f}
    /\ UNCHANGED <<cachedPage, cachedMainFrame, frameOps, delivered>>

\* Fault variant: clear() leaves m_cachedMainFrame set.
ClearStateKeepsFrame(s) ==
    [s EXCEPT !.need = [@ EXCEPT !["VisitedLinks"] = FALSE, !["FullStyleRecalc"] = FALSE],
              !.ops = Append(@, "clear")]

\* CachedPage::clear as a state change of (frame, flags, calls): only the
\* visited-links and full-style flags are reset.
ClearState(s) ==
    [s EXCEPT !.frame = FALSE,
              !.need = [@ EXCEPT !["VisitedLinks"] = FALSE, !["FullStyleRecalc"] = FALSE],
              !.ops = Append(@, "clear")]

\* CachedPage::destroy: destroy the frame if there is one, then drop it.
DestroyState(s) ==
    [s EXCEPT !.frame = FALSE,
              !.ops = IF s.frame THEN Append(@, "destroy") ELSE @]

\* The notifications restore() sends for flags n: each set flag whose
\* code is compiled in.
Notifications(n) == {f \in Built : n[f]}

\* Fault variant: clear() runs before the flags are read.
RestoreClearFirst ==
    /\ cachedPage = "Live" /\ cachedMainFrame
    /\ LET s == ClearState([frame |-> cachedMainFrame, need |-> need,
                            ops |-> Append(frameOps, "open")])
       IN  /\ cachedMainFrame' = s.frame
           /\ need' = s.need
           /\ frameOps' = s.ops
           /\ delivered' = delivered \cup Notifications(s.need)
    /\ UNCHANGED <<cachedPage, marked>>

\* CachedPage::restore: open the frame into the page, deliver the
\* notifications the flags ask for, then clear().
Restore ==
    /\ cachedPage = "Live" /\ cachedMainFrame
    /\ LET s == ClearState([frame |-> cachedMainFrame, need |-> need,
                            ops |-> Append(frameOps, "open")])
       IN  /\ cachedMainFrame' = s.frame
           /\ need' = s.need
           /\ frameOps' = s.ops
    /\ delivered' = delivered \cup Notifications(need)
    /\ UNCHANGED <<cachedPage, marked>>

\* CachedPage::clear called on its own (ASSERT(m_cachedMainFrame)).
Clear ==
    /\ cachedPage = "Live" /\ cachedMainFrame
    /\ LET s == ClearState([frame |-> cachedMainFrame, need |-> need, ops |-> frameOps])
       IN  /\ cachedMainFrame' = s.frame
           /\ need' = s.need
           /\ frameOps' = s.ops
    /\ UNCHANGED <<cachedPage, delivered, marked>>

\* CachedPage::destroy
Destroy ==
    /\ cachedPage = "Live"
    /\ LET s == DestroyState([frame |-> cachedMainFrame, need |-> need, ops |-> frameOps])
       IN  /\ cachedMainFrame' = s.frame
           /\ frameOps' = s.ops
    /\ UNCHANGED <<cachedPage, need, delivered, marked>>

\* CachedPage::~CachedPage: destroy(), then the object is gone.
Delete ==
    /\ cachedPage = "Live"
    /\ LET s == DestroyState([frame |-> cachedMainFrame, need |-> need, ops |-> frameOps])
       IN  /\ cachedMainFrame' = s.frame
           /\ frameOps' = s.ops
    /\ cachedPage' = "Deleted"
    /\ UNCHANGED <<need, delivered, marked>>

Next ==
    \/ Create
    \/ \E f \in Flags : Mark(f)
    \/ Restore
    \/ Clear
    \/ Destroy
    \/ Delete

Spec == Init /\ [][Next]_vars

-----------------------------------------------------------------------------
(* Properties.                                                             *)

\* The ways a CachedFrame's life may end: restored (opened, then cleared),
\* cleared without being restored, or destroyed.  Nothing follows the end.
FrameEnds == {<<"open", "clear">>, <<"clear">>, <<"destroy">>}

(* The CachedFrame gets exactly one end, and gets it before the           *)
(* CachedPage is deleted: a frame whose document was handed back to the   *)
(* page by restore() is never destroy()ed by the destructor, and a cached  *)
(* frame is never leaked.  It rests on clear() and destroy() nulling       *)
(* m_cachedMainFrame, which is what the destructor's destroy() tests.     *)
FrameFateExclusive ==
    /\ frameOps \in FrameEnds \cup {<<>>}
    /\ cachedPage = "Deleted" => frameOps \in FrameEnds

(* Every notification the page cache marked while the frame was cached,   *)
(* and that this build can send, is delivered by restore(); none that was  *)
(* not marked is.  It fails if restore() cleared the flags before reading  *)
(* them, or read the wrong flag.                                           *)
RestoreDeliversMarks ==
    "open" \in {frameOps[i] : i \in DOMAIN frameOps} => delivered = marked \cap Built
=============================================================================
