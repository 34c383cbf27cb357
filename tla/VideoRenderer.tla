--------------------------- MODULE VideoRenderer ---------------------------
(***************************************************************************)
(* The video renderers of a native peer (webrtc_core.cc, VideoRenderer).   *)
(* Three threads meet in each: the decoder's, which calls OnFrame; the     *)
(* window's, started by the first frame; and the owner's, which destroys.  *)
(*                                                                         *)
(* What OnFrame does under buffer_mutex_ is one step, and so is Paint's    *)
(* copy.  A frame is its number; the conversion and the drawing are left   *)
(* out.  hwnd_ is read and written without a lock: such an access is a     *)
(* step of its own, or part of one that does nothing else threads see.     *)
(*                                                                         *)
(* An operator whose name ends in _ and a phrase is not the code: it is a  *)
(* slip the properties must catch, kept beside what it breaks.             *)
(***************************************************************************)
EXTENDS Naturals, FiniteSets

CONSTANTS
    Renderers,
    MaxWindows,  \* bound: renderers that frames reach
    MaxFrames    \* bound: frames that reach one renderer

VARIABLES
    life,        \* the C++ object
    frame,       \* the decoder's thread is in OnFrame
    thread,      \* where the window thread is
    hwnd,        \* hwnd_ is set
    closeMsg,    \* WM_CLOSE has been posted
    dirty,       \* the window has an update region: WM_PAINT will come
    stored,      \* number of the frame in argb_buffer_
    painted      \* number of the frame in the window

rendererVars == <<life, frame, thread, hwnd, closeMsg, dirty, stored, painted>>
windowVars == <<thread, hwnd, closeMsg, dirty, painted>>

HasWindow == {"created", "painting", "loop"}

RendererTypeOK ==
    /\ life \in [Renderers -> {"none", "live", "dying", "gone"}]
    /\ frame \in [Renderers -> BOOLEAN]
    /\ thread \in [Renderers -> {"none", "starting", "quitting", "ended"} \cup HasWindow]
    /\ hwnd \in [Renderers -> BOOLEAN]
    /\ closeMsg \in [Renderers -> BOOLEAN]
    /\ dirty \in [Renderers -> BOOLEAN]
    /\ stored \in [Renderers -> 0..MaxFrames]
    /\ painted \in [Renderers -> 0..MaxFrames]

RendererInit ==
    /\ life = [r \in Renderers |-> "none"]
    /\ frame = [r \in Renderers |-> FALSE]
    /\ thread = [r \in Renderers |-> "none"]
    /\ hwnd = [r \in Renderers |-> FALSE]
    /\ closeMsg = [r \in Renderers |-> FALSE]
    /\ dirty = [r \in Renderers |-> FALSE]
    /\ stored = [r \in Renderers |-> 0]
    /\ painted = [r \in Renderers |-> 0]

New(r) ==
    /\ life' = [life EXCEPT ![r] = "live"]
    /\ UNCHANGED <<windowVars, frame, stored>>

-----------------------------------------------------------------------------
(* The decoder's thread.                                                   *)

(* The first frame starts the window thread, and does not wait for it.     *)
EnsureWindow(r) ==
    thread' = [thread EXCEPT ![r] = IF @ = "none" THEN "starting" ELSE @]

OnFrame(r) ==
    /\ ~frame[r] /\ stored[r] < MaxFrames
    /\ Cardinality({q \in Renderers : q # r /\ thread[q] # "none"}) < MaxWindows
    /\ frame' = [frame EXCEPT ![r] = TRUE]
    /\ EnsureWindow(r)
    /\ UNCHANGED <<life, hwnd, closeMsg, dirty, stored, painted>>

StoreFrame_NotInvalidated(r) ==
    /\ frame[r]
    /\ frame' = [frame EXCEPT ![r] = FALSE]
    /\ stored' = [stored EXCEPT ![r] = @ + 1]
    /\ UNCHANGED <<life, windowVars>>

(* OnFrame ends: the frame is in the buffer, and a window that is there is *)
(* invalidated.                                                            *)
StoreFrame(r) ==
    /\ frame[r]
    /\ frame' = [frame EXCEPT ![r] = FALSE]
    /\ stored' = [stored EXCEPT ![r] = @ + 1]
    /\ dirty' = [dirty EXCEPT ![r] = @ \/ (hwnd[r] /\ thread[r] \in HasWindow)]
    /\ UNCHANGED <<life, thread, hwnd, closeMsg, painted>>

-----------------------------------------------------------------------------
(* The window thread.                                                      *)

(* CreateWindowExW returns: with a window, all of which is to be painted,  *)
(* or without one.                                                         *)
CreateWindow(r) ==
    /\ thread[r] = "starting"
    /\ \/ /\ thread' = [thread EXCEPT ![r] = "created"]
          /\ hwnd' = [hwnd EXCEPT ![r] = TRUE]
          /\ dirty' = [dirty EXCEPT ![r] = TRUE]
       \/ /\ thread' = [thread EXCEPT ![r] = "ended"]
          /\ UNCHANGED <<hwnd, dirty>>
    /\ UNCHANGED <<life, frame, closeMsg, stored, painted>>

(* UpdateWindow, and later WM_PAINT: BeginPaint validates the window, then *)
(* the buffer is drawn.                                                    *)
BeginPaint(r) ==
    /\ thread[r] \in {"created", "loop"} /\ dirty[r]
    /\ thread' = [thread EXCEPT ![r] = "painting"]
    /\ dirty' = [dirty EXCEPT ![r] = FALSE]
    /\ UNCHANGED <<life, frame, hwnd, closeMsg, stored, painted>>

Paint(r) ==
    /\ thread[r] = "painting"
    /\ thread' = [thread EXCEPT ![r] = "loop"]
    /\ painted' = [painted EXCEPT ![r] = stored[r]]
    /\ UNCHANGED <<life, frame, hwnd, closeMsg, dirty, stored>>

(* WM_CLOSE, from the destructor or the user, destroys the window.         *)
WindowCloses(r) ==
    /\ thread[r] = "loop"
    /\ thread' = [thread EXCEPT ![r] = "quitting"]
    /\ UNCHANGED <<life, frame, hwnd, closeMsg, dirty, stored, painted>>

(* The message loop ends.                                                  *)
LoopEnds(r) ==
    /\ thread[r] = "quitting"
    /\ thread' = [thread EXCEPT ![r] = "ended"]
    /\ hwnd' = [hwnd EXCEPT ![r] = FALSE]
    /\ UNCHANGED <<life, frame, closeMsg, dirty, stored, painted>>

WindowThread(r) ==
    CreateWindow(r) \/ BeginPaint(r) \/ Paint(r) \/ LoopEnds(r)
    \/ (closeMsg[r] /\ WindowCloses(r))

-----------------------------------------------------------------------------
Destroy_NotPosted(r) ==
    /\ life' = [life EXCEPT ![r] = "dying"]
    /\ UNCHANGED <<windowVars, frame, stored>>

(* The destructor: asks the window to close, if there is one, and waits    *)
(* for its thread.                                                         *)
Destroy(r) ==
    /\ life' = [life EXCEPT ![r] = "dying"]
    /\ closeMsg' = [closeMsg EXCEPT ![r] = hwnd[r]]
    /\ UNCHANGED <<frame, thread, hwnd, dirty, stored, painted>>

Joined_NotWaiting(r) ==
    /\ life[r] = "dying"
    /\ life' = [life EXCEPT ![r] = "gone"]
    /\ UNCHANGED <<windowVars, frame, stored>>

Joined(r) ==
    /\ life[r] = "dying" /\ thread[r] \in {"none", "ended"}
    /\ life' = [life EXCEPT ![r] = "gone"]
    /\ UNCHANGED <<windowVars, frame, stored>>
=============================================================================
