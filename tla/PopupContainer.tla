--------------------------- MODULE PopupContainer ---------------------------
(***************************************************************************)
(* WebCore::PopupContainer (platform/chromium/PopupContainer.cpp): the     *)
(* widget that shows a <select> drop-down.  It owns a PopupListBox, lays   *)
(* it out, places the popup on the screen below (or above) the control,    *)
(* tells the chrome client when it opens and closes, and forwards input    *)
(* events to the list box in the list box's coordinates.                   *)
(*                                                                         *)
(* Geometry is in integer pixels.  Window coordinates are the root view's; *)
(* rootViewToScreen translates them by the window's origin.  The frame     *)
(* view is not scrolled, so contentsToWindow is the identity.              *)
(*                                                                         *)
(* PopupListBox, PopupContainer.h and the chrome client are not in this    *)
(* repository.  The list box is modelled by the contract the container     *)
(* relies on: layout() makes it as wide as max(base width, content width)  *)
(* capped by its maximum width, and as tall as the whole rows that fit in  *)
(* its maximum height.                                                     *)
(***************************************************************************)
EXTENDS Integers, Sequences

CONSTANTS
    Screen,            \* screenAvailableRect(m_frameView), in screen coordinates
    Window,            \* chromeClient->windowRect(), in screen coordinates
    RTL,               \* the menu style's text direction is RTL
    HasChromeClient,   \* chromeClientChromium() is not null
    ControlRects,      \* the <select> boxes the popup may be shown for (window coordinates)
    ContentWidth,      \* the width of the widest item
    RowHeight,         \* the height of one item row
    MaxItems,          \* the most items the client holds
    kMaxHeight,        \* PopupContainer.h: the default maximum list height
    EventPoints,       \* the points input events arrive at (container coordinates)
    MaxCalls           \* bound on the calls to the chrome client

kBorderSize == 1

\* std::numeric_limits<int>::max(), as far as this geometry can tell.
IntMax == 1000

max(a, b) == IF a > b THEN a ELSE b
min(a, b) == IF a < b THEN a ELSE b

Rect(x, y, w, h) == [x |-> x, y |-> y, w |-> w, h |-> h]
MaxX(r) == r.x + r.w
MaxY(r) == r.y + r.h

\* ChromeClientChromium::rootViewToScreen
RootViewToScreen(r) == [r EXCEPT !.x = @ + Window.x, !.y = @ + Window.y]

VARIABLES
    lb,           \* m_listBox: its layout inputs, size, position and parent
    size,         \* the container's frame size
    orig,         \* m_originalFrameRect
    control,      \* the control rect the popup was last placed for
    widgetRect,   \* the screen rect last given to popupOpened or returned by refresh
    frameView,    \* m_frameView is set
    popupOpen,    \* m_popupOpen
    chromeCalls,  \* the popupOpened / popupClosed calls, in order
    clientItems,  \* the number of items the PopupMenuClient holds
    toListBox,    \* the events the last handler forwarded to the list box
    alive         \* the container has not been destructed

vars == <<lb, size, orig, control, widgetRect, frameView, popupOpen,
          chromeCalls, clientItems, toListBox, alive>>

-----------------------------------------------------------------------------
(* PopupListBox, as the container uses it.                                 *)

\* PopupListBox::layout
LBLayout(l) ==
    [l EXCEPT !.width = min(max(l.baseWidth, ContentWidth), l.maxWidth),
              !.height = RowHeight * min(l.items, l.maxHeight \div RowHeight)]

\* PopupListBox::setMaxWidthAndLayout
SetMaxWidthAndLayout(l, w) == LBLayout([l EXCEPT !.maxWidth = w])

-----------------------------------------------------------------------------
(* Layout.  S is [lb, size, orig, rect]: the list box, the container's     *)
(* size, m_originalFrameRect and the widget rect being computed.           *)

\* PopupContainer::fitToListBox: the list box inside the border.
FitToListBox(S) ==
    [S EXCEPT !.lb.x = kBorderSize, !.lb.y = kBorderSize,
              !.size = [w |-> S.lb.width + kBorderSize * 2,
                        h |-> S.lb.height + kBorderSize * 2]]

\* Fault variant: the list box is laid out but the container not fitted to it.
LayoutAndGetRTLOffsetNoFit(S) == [S EXCEPT !.lb = LBLayout(@)]

\* PopupContainer::layoutAndGetRTLOffset (the offset is RTLOffset below).
LayoutAndGetRTLOffset(S) == FitToListBox([S EXCEPT !.lb = LBLayout(@)])

RTLOffset(S) == S.orig.w - (S.lb.width + kBorderSize * 2)

\* How much of r lies outside the screen horizontally.
Cutoff(r) == max(Screen.x - r.x, 0) + max(MaxX(r) - MaxX(Screen), 0)

\* Fault variant: the popup is clipped at the screen edge first and the
\* inverse alignment tried afterwards.
ClipXSwapped(r0, rtlOffset, l) ==
    LET c == IF r0.x < Screen.x
             THEN [rect |-> [r0 EXCEPT !.w = MaxX(r0) - Screen.x, !.x = Screen.x],
                   lb |-> SetMaxWidthAndLayout(l, max(MaxX(r0) - Screen.x - kBorderSize * 2, 0))]
             ELSE IF MaxX(r0) > MaxX(Screen)
             THEN [rect |-> [r0 EXCEPT !.w = MaxX(Screen) - r0.x],
                   lb |-> SetMaxWidthAndLayout(l, max(MaxX(Screen) - r0.x - kBorderSize * 2, 0))]
             ELSE [rect |-> r0, lb |-> l]
        inv == [c.rect EXCEPT !.x = @ + (IF RTL THEN -rtlOffset ELSE rtlOffset)]
    IN  IF Cutoff(inv) < Cutoff(r0) THEN [c EXCEPT !.rect = inv] ELSE c

\* The X half of layoutAndCalculateWidgetRectInternal: try the inverse
\* alignment, then clip at the screen edge the popup crosses.
ClipX(r0, rtlOffset, l) ==
    LET inv == [r0 EXCEPT !.x = @ + (IF RTL THEN -rtlOffset ELSE rtlOffset)]
        r == IF Cutoff(inv) < Cutoff(r0) THEN inv ELSE r0
    IN  IF r.x < Screen.x
        THEN [rect |-> [r EXCEPT !.w = MaxX(r) - Screen.x, !.x = Screen.x],
              lb |-> SetMaxWidthAndLayout(l, max(MaxX(r) - Screen.x - kBorderSize * 2, 0))]
        ELSE IF MaxX(r) > MaxX(Screen)
        THEN [rect |-> [r EXCEPT !.w = MaxX(Screen) - r.x],
              lb |-> SetMaxWidthAndLayout(l, max(MaxX(Screen) - r.x - kBorderSize * 2, 0))]
        ELSE [rect |-> r, lb |-> l]

\* Fault variant: opening upwards moves the popup by its own height only.
FitYNoControlHeight(r, tch, l) ==
    IF MaxY(r) <= MaxY(Screen) THEN [rect |-> r, lb |-> l, need |-> FALSE]
    ELSE IF r.y - r.h - tch > 0
    THEN [rect |-> [r EXCEPT !.y = @ - r.h], lb |-> l, need |-> FALSE]
    ELSE LET spaceAbove == r.y - tch
             spaceBelow == MaxY(Screen) - r.y
             l2 == LBLayout([l EXCEPT !.maxHeight = max(spaceAbove, spaceBelow)])
             h == l2.height + kBorderSize * 2
         IN  [rect |-> [r EXCEPT !.h = h,
                                 !.y = IF spaceAbove > spaceBelow THEN r.y - (h + tch) ELSE r.y],
              lb |-> l2, need |-> TRUE]

\* The Y half: open upwards when there is room, else shrink the list to
\* the larger of the spaces above and below.
FitY(r, tch, l) ==
    IF MaxY(r) <= MaxY(Screen) THEN [rect |-> r, lb |-> l, need |-> FALSE]
    ELSE IF r.y - r.h - tch > 0
    THEN [rect |-> [r EXCEPT !.y = @ - (r.h + tch)], lb |-> l, need |-> FALSE]
    ELSE LET spaceAbove == r.y - tch
             spaceBelow == MaxY(Screen) - r.y
             l2 == LBLayout([l EXCEPT !.maxHeight = max(spaceAbove, spaceBelow)])
             h == l2.height + kBorderSize * 2
         IN  [rect |-> [r EXCEPT !.h = h,
                                 !.y = IF spaceAbove > spaceBelow THEN r.y - (h + tch) ELSE r.y],
              lb |-> l2, need |-> TRUE]

\* PopupContainer::layoutAndCalculateWidgetRectInternal
LayoutAndCalculateWidgetRectInternal(r, tch, rtlOffset, l) ==
    LET clipX == /\ Window.x >= Screen.x /\ MaxX(Window) <= MaxX(Screen)
                 /\ r.x < Screen.x \/ MaxX(r) > MaxX(Screen)
        X == IF clipX THEN ClipX(r, rtlOffset, l) ELSE [rect |-> r, lb |-> l]
    IN  FitY(X.rect, tch, X.lb)

\* PopupContainer::layoutAndCalculateWidgetRect: reset the list's limits,
\* lay out, place the popup at p and fit it to the screen.
LayoutAndCalculateWidgetRect(S, tch, p) ==
    LET s1 == LayoutAndGetRTLOffset(
                  [S EXCEPT !.lb.maxHeight = kMaxHeight, !.lb.maxWidth = IntMax])
        rtlOffset == RTLOffset(s1)
        target == Rect(p.x + (IF RTL THEN rtlOffset ELSE 0), p.y,
                       s1.lb.width + kBorderSize * 2, s1.lb.height + kBorderSize * 2)
        out == LayoutAndCalculateWidgetRectInternal(RootViewToScreen(target), tch,
                                                    rtlOffset, s1.lb)
        s2 == [s1 EXCEPT !.lb = out.lb, !.rect = out.rect]
    IN  IF ~HasChromeClient THEN [s1 EXCEPT !.rect = Rect(0, 0, 0, 0)]
        ELSE IF out.need THEN FitToListBox(s2) ELSE s2
-----------------------------------------------------------------------------
(* Operations.                                                             *)

\* The events a handler can forward, and the gestures it can get.
MouseKinds == {"MousePressed", "MouseMoved", "MouseReleased"}
GestureKinds == {"GestureTap", "GestureDoubleTap", "GestureScrollUpdate",
                 "GestureScrollUpdateWithoutPropagation", "GestureScrollBegin",
                 "GestureScrollEnd", "GestureTapDown"}

TypeOK ==
    /\ lb \in [baseWidth: Nat, maxWidth: Nat, maxHeight: Int, width: Nat,
               height: Nat, x: Nat, y: Nat, items: Nat, parented: BOOLEAN]
    /\ size \in [w: Int, h: Int]
    /\ frameView \in BOOLEAN /\ popupOpen \in BOOLEAN
    /\ chromeCalls \in Seq({"popupOpened", "popupClosed"})
    /\ clientItems \in 1..MaxItems

\* PopupContainer::PopupContainer: a new list box, closed, not yet shown.
Init ==
    /\ lb = [baseWidth |-> 0, maxWidth |-> IntMax, maxHeight |-> kMaxHeight,
             width |-> 0, height |-> 0, x |-> 0, y |-> 0, items |-> 0,
             parented |-> FALSE]
    /\ size = [w |-> 0, h |-> 0]
    /\ orig = Rect(0, 0, 0, 0)
    /\ control = Rect(0, 0, 0, 0)
    /\ widgetRect = Rect(0, 0, 0, 0)
    /\ frameView = FALSE
    /\ popupOpen = FALSE
    /\ chromeCalls = <<>>
    /\ clientItems \in 1..MaxItems
    /\ toListBox = <<>>
    /\ alive = TRUE

\* PopupContainer::showPopup: with a chrome client, lay out and place the
\* popup below the control (its popupOpened call and m_popupOpen are set in
\* ShowInRect, which calls it);
\* then insert the list box if it is not in the view hierarchy.
ShowPopup(S) ==
    LET s1 == IF HasChromeClient
              THEN LayoutAndCalculateWidgetRect(S, S.orig.h, S.orig)
              ELSE S
    IN  [s1 EXCEPT !.lb.parented = TRUE]

\* The client's items change (the page edits the <select>).
ItemsChange ==
    /\ alive
    /\ \E n \in 1..MaxItems : n # clientItems /\ clientItems' = n
    /\ UNCHANGED <<lb, size, orig, control, widgetRect, frameView, popupOpen,
                   chromeCalls, toListBox, alive>>

\* PopupContainer::showInRect and the showPopup it ends with: size the
\* list from the control, place the popup below it, tell the chrome client
\* and insert the list box.  The code does not test m_popupOpen: the
\* conjunct ~popupOpen is its callers' contract (the <select>'s renderer,
\* outside the repository, shows a popup only while it is hidden).
ShowInRect(r) ==
    /\ alive
    /\ ~popupOpen /\ Len(chromeCalls) < MaxCalls
    /\ LET s0 == [lb |-> [lb EXCEPT !.baseWidth = max(r.w - kBorderSize * 2, 0),
                                    !.items = clientItems],
                  size |-> [w |-> r.w, h |-> r.h],
                  orig |-> Rect(r.x, r.y + r.h, r.w, r.h),
                  rect |-> widgetRect]
           s1 == ShowPopup(s0)
       IN  /\ lb' = s1.lb
           /\ size' = s1.size
           /\ orig' = s0.orig
           /\ widgetRect' = s1.rect
    /\ frameView' = TRUE
    /\ popupOpen' = HasChromeClient
    /\ chromeCalls' = IF HasChromeClient THEN Append(chromeCalls, "popupOpened")
                      ELSE chromeCalls
    /\ control' = r
    /\ UNCHANGED <<clientItems, toListBox, alive>>

\* PopupContainer::refresh: re-read the items, place the popup for the
\* control's new rect, and take the size of the rect found (size() differs
\* from it only after layoutAndGetRTLOffset, so the resize makes them equal).
Refresh(r) ==
    /\ alive
    /\ frameView
    /\ LET s0 == [lb |-> [lb EXCEPT !.baseWidth = max(orig.w - kBorderSize * 2, 0),
                                    !.items = clientItems],
                  size |-> size, orig |-> orig, rect |-> widgetRect]
           s1 == LayoutAndCalculateWidgetRect(s0, r.h, [x |-> r.x, y |-> r.y + r.h])
       IN  /\ lb' = s1.lb
           /\ size' = [w |-> s1.rect.w, h |-> s1.rect.h]
           /\ widgetRect' = s1.rect
    /\ control' = r
    /\ UNCHANGED <<orig, frameView, popupOpen, chromeCalls, clientItems, toListBox, alive>>

\* Fault variant: no early return for a popup already closed.
NotifyPopupHiddenNoGuard ==
    /\ alive
    /\ popupOpen' = FALSE
    /\ chromeCalls' = Append(chromeCalls, "popupClosed")
    /\ UNCHANGED <<lb, size, orig, control, widgetRect, frameView, clientItems, toListBox, alive>>

\* PopupContainer::notifyPopupHidden, which the list box calls when it
\* hides (hidePopup, hide/abandon, an accepted selection), possibly more
\* than once; a call on a closed popup returns early (a stutter).
NotifyPopupHidden ==
    /\ alive
    /\ popupOpen
    /\ popupOpen' = FALSE
    /\ chromeCalls' = Append(chromeCalls, "popupClosed")
    /\ UNCHANGED <<lb, size, orig, control, widgetRect, frameView, clientItems, toListBox, alive>>

\* constructRelativeMouseEvent / constructRelativeWheelEvent: the point
\* in the list box's coordinates (convertSelfToChild).
Relative(kind, p) == [kind |-> kind, x |-> p.x - lb.x, y |-> p.y - lb.y]

\* handleMouseDownEvent, handleMouseMoveEvent, handleMouseReleaseEvent,
\* handleWheelEvent: forward the event at the list box's point.
HandleMouseOrWheel(kind, p) ==
    /\ alive
    /\ toListBox' = <<Relative(kind, p)>>
    /\ UNCHANGED <<lb, size, orig, control, widgetRect, frameView, popupOpen,
                   chromeCalls, clientItems, alive>>

\* handleGestureEvent: a tap is a press and a release (the move is
\* commented out), a scroll update a wheel event, the rest nothing.
HandleGestureEvent(kind, p) ==
    /\ alive
    /\ toListBox' =
          CASE kind = "GestureTap" ->
                 <<Relative("MousePressed", p), Relative("MouseReleased", p)>>
            [] kind \in {"GestureScrollUpdate", "GestureScrollUpdateWithoutPropagation"} ->
                 <<Relative("Wheel", p)>>
            [] OTHER -> <<>>
    /\ UNCHANGED <<lb, size, orig, control, widgetRect, frameView, popupOpen,
                   chromeCalls, clientItems, alive>>

\* handleKeyEvent: forwarded as it is (keys carry no point).
HandleKeyEvent ==
    /\ alive
    /\ toListBox' = <<[kind |-> "Key", x |-> 0, y |-> 0]>>
    /\ UNCHANGED <<lb, size, orig, control, widgetRect, frameView, popupOpen,
                   chromeCalls, clientItems, alive>>

\* The list box is asked to hide (call "hidePopup") or to abandon the
\* selection ("abandon"); it reports back through notifyPopupHidden.
AskListBox(call) ==
    /\ alive
    /\ toListBox' = <<[kind |-> call, x |-> 0, y |-> 0]>>
    /\ UNCHANGED <<lb, size, orig, control, widgetRect, frameView, popupOpen,
                   chromeCalls, clientItems, alive>>

\* PopupContainer::hidePopup
HidePopup == AskListBox("hidePopup")

\* PopupContainer::hide
Hide == AskListBox("abandon")

\* PopupContainer::~PopupContainer: take the list box out of the view
\* hierarchy if it is in it.
Destroy ==
    /\ alive
    /\ alive' = FALSE
    /\ lb' = IF lb.parented THEN [lb EXCEPT !.parented = FALSE] ELSE lb
    /\ UNCHANGED <<size, orig, control, widgetRect, frameView, popupOpen,
                   chromeCalls, clientItems, toListBox>>

Next ==
    \/ ItemsChange
    \/ \E r \in ControlRects : ShowInRect(r) \/ Refresh(r)
    \/ NotifyPopupHidden
    \/ \E p \in EventPoints :
          \/ \E k \in MouseKinds \cup {"Wheel"} : HandleMouseOrWheel(k, p)
          \/ \E k \in GestureKinds : HandleGestureEvent(k, p)
    \/ HandleKeyEvent
    \/ HidePopup
    \/ Hide
    \/ Destroy

Spec == Init /\ [][Next]_vars
-----------------------------------------------------------------------------
(* Properties.                                                             *)

\* The control's rect on the screen.
ControlOnScreen == RootViewToScreen(control)

(* An open popup never covers the control it belongs to: it lies wholly   *)
(* below it or wholly above it.  Every branch of the Y fit moves the rect  *)
(* by its height plus the control's height (lines 151 and 166), and the    *)
(* resize in between must not undo that.                                   *)
PopupClearsControl ==
    popupOpen =>
       \/ widgetRect.y >= MaxY(ControlOnScreen)
       \/ MaxY(widgetRect) <= ControlOnScreen.y

(* While the popup is open the list box lies inside the container's       *)
(* border, whichever of layoutAndGetRTLOffset, the screen clipping, the    *)
(* shrink to the free space and refresh's resize ran last.                 *)
ListBoxInsideContainer ==
    popupOpen =>
       /\ lb.x >= kBorderSize /\ lb.y >= kBorderSize
       /\ lb.x + lb.width + kBorderSize <= size.w
       /\ lb.y + lb.height + kBorderSize <= size.h

(* The chrome client sees popupOpened and popupClosed alternate, starting  *)
(* with popupOpened, and m_popupOpen says which came last, however often   *)
(* the list box reports that it hid.                                       *)
ChromeCallsAlternate ==
    /\ \A i \in DOMAIN chromeCalls :
          chromeCalls[i] = IF i % 2 = 1 THEN "popupOpened" ELSE "popupClosed"
    /\ popupOpen <=> Len(chromeCalls) % 2 = 1

(* An open popup lies inside the screen.  The comments of                 *)
(* layoutAndCalculateWidgetRect say the popup opens upwards when it would *)
(* extend past the bottom of the screen, and that its width is clipped to *)
(* the screen width (lines 192 and 199-201); those at 150 and 153-154 that *)
(* it opens upwards when there is room, and otherwise on the side with    *)
(* more room, with the list sized to fit.                                 *)
PopupInsideScreen ==
    popupOpen =>
       /\ widgetRect.x >= Screen.x /\ MaxX(widgetRect) <= MaxX(Screen)
       /\ widgetRect.y >= Screen.y /\ MaxY(widgetRect) <= MaxY(Screen)

(* When the browser window lies within the screen and the popup's         *)
(* preferred width (the list's width with its border, before any clipping)*)
(* is no wider than the screen, an open popup lies within the screen      *)
(* horizontally.  This needs the inverse alignment to be chosen before    *)
(* the clip, since the clip handles one edge only (lines 136-143).        *)
PopupInsideScreenHorizontally ==
    /\ popupOpen /\ Window.x >= Screen.x /\ MaxX(Window) <= MaxX(Screen)
    /\ max(lb.baseWidth, ContentWidth) + 2 * kBorderSize <= Screen.w
    => widgetRect.x >= Screen.x /\ MaxX(widgetRect) <= MaxX(Screen)
====
