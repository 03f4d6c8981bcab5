--------------------------- MODULE DesktopCapture ---------------------------
(***************************************************************************)
(* DesktopDuplicator (src/capture/desktop_duplication.cpp): one capture of  *)
(* one output, over DXGI's duplication of it or, when Windows refuses that, *)
(* by copying the screen with GDI.  Each operator below is one method and   *)
(* yields the set of its outcomes.                                          *)
(*                                                                         *)
(* A capture is the record of its members; what it captures is abstracted   *)
(* to whether the copy is what the desktop shows.  The output is Windows'   *)
(* side of it: is it there, and what has its duplication to report.         *)
(***************************************************************************)
EXTENDS Naturals

Contents == {"none", "behind", "current", "masked"}

Capture ==
  [backend : {"dxgi", "gdi"},  \* backend_
   duplication : BOOLEAN,      \* duplication_ is held
   surface : BOOLEAN,          \* the GDI bitmap and its device contexts are held
   have : BOOLEAN,             \* have_desktop_texture_
   copy : Contents,            \* copy_texture_ against the desktop
   gdiCursor : {"unknown", "hidden", "shown"}]  \* gdi_cursor_valid_, gdi_cursor_showing_

Output ==
  [listed : BOOLEAN,    \* the renderer's adapter enumerates it
   lost : BOOLEAN,      \* the duplication held is no longer valid
   first : BOOLEAN,     \* nothing was acquired from this duplication yet
   presented : BOOLEAN, \* the image changed since the last frame acquired
   moved : BOOLEAN,     \* so did the pointer's position
   reshaped : BOOLEAN]  \* so did the pointer's shape

NewCapture ==
  [backend |-> "dxgi", duplication |-> FALSE, surface |-> FALSE, have |-> FALSE,
   copy |-> "none", gdiCursor |-> "unknown"]

If(condition, set) == IF condition THEN set ELSE {}

NoNews(o) == [o EXCEPT !.first = FALSE, !.presented = FALSE, !.moved = FALSE, !.reshaped = FALSE]

\* A new duplication starts with a whole frame, whether or not that counts as
\* presented, and with the pointer.
Fresh(o, presented) ==
  [o EXCEPT !.lost = FALSE, !.first = TRUE, !.presented = presented, !.moved = TRUE, !.reshaped = TRUE]

--------------------------------------------------------------------------------
(* ensure_gdi_texture: a new texture and a new bitmap, or neither.          *)
EnsureGdiTexture(c, mayFail) ==
  {[ok |-> TRUE, cap |-> [c EXCEPT !.surface = TRUE, !.copy = "none", !.gdiCursor = "unknown"]]}
  \cup
  If(mayFail,
     {[ok |-> FALSE, cap |-> [c EXCEPT !.surface = FALSE, !.copy = "none", !.gdiCursor = "unknown"]]})

(* create_duplication: no such output, a duplication, or the GDI fallback,  *)
(* which the capture then keeps to.                                         *)
CreateDuplication(c, o, refused, mayFail) ==
  LET closed == [c EXCEPT !.duplication = FALSE, !.have = FALSE]
      gdi == {[ok |-> r.ok, cap |-> r.cap, out |-> o] :
                r \in EnsureGdiTexture([closed EXCEPT !.backend = "gdi"], mayFail)}
      dxgi == {[ok |-> TRUE, cap |-> [closed EXCEPT !.duplication = TRUE, !.backend = "dxgi"],
                out |-> Fresh(o, p)] : p \in BOOLEAN}
  IN IF ~o.listed THEN {[ok |-> FALSE, cap |-> closed, out |-> o]}
     ELSE IF refused THEN gdi
     ELSE dxgi \cup If(mayFail, gdi)

--------------------------------------------------------------------------------
(* What poll returns with: the result, the capture and the output after it, *)
(* and of a frame what the engine looks at.  "new" says that copy_texture_  *)
(* was made anew, so that a view of the old one shows a dead texture.       *)
Polled(kind, c, o, isNew) ==
  [kind |-> kind, cap |-> c, out |-> o, new |-> isNew,
   updated |-> FALSE, masked |-> FALSE, moved |-> FALSE, visible |-> FALSE, reshaped |-> FALSE]

\* Protected content is masked out to black.
ImageOf(guarded) == IF guarded THEN "masked" ELSE "current"

\* Mutant: the first position of the pointer is compared with the initial zeros.
PollGdiMutant(c, o, pointer, guarded, secure, mayFail) ==
  IF ~c.surface THEN {Polled("failed", c, o, FALSE)}
  ELSE LET now == IF pointer THEN "shown" ELSE "hidden"
           was == IF c.gdiCursor = "unknown" THEN "hidden" ELSE c.gdiCursor
           Frame(moved) ==
             [Polled("frame", [c EXCEPT !.copy = ImageOf(guarded), !.gdiCursor = now], o, FALSE)
                EXCEPT !.updated = TRUE, !.moved = moved]
       IN If(secure \/ mayFail, {Polled("failed", c, o, FALSE)})
          \cup If(~secure, {Frame(m) : m \in {was # now, was # now \/ pointer}})

(* poll_gdi: BitBlt of the output's rectangle, the pointer drawn into it;    *)
(* the renderer's pointer is told to hide when the pointer has changed.     *)
PollGdi(c, o, pointer, guarded, secure, mayFail) ==
  IF ~c.surface THEN {Polled("failed", c, o, FALSE)}
  ELSE LET now == IF pointer THEN "shown" ELSE "hidden"
           changed == c.gdiCursor # now
           Frame(moved) ==
             [Polled("frame", [c EXCEPT !.copy = ImageOf(guarded), !.gdiCursor = now], o, FALSE)
                EXCEPT !.updated = TRUE, !.moved = moved]
       IN If(secure \/ mayFail, {Polled("failed", c, o, FALSE)})
          \cup If(~secure, {Frame(m) : m \in {changed, changed \/ pointer}})

Recreate(c, o, refused, mayFail) ==
  {Polled(IF r.ok THEN "reinitialized" ELSE "failed", r.cap, r.out, r.cap.backend = "gdi") :
     r \in CreateDuplication(c, o, refused, mayFail)}

\* Mutant: the image is taken over only when DXGI says that it was presented.
UpdatedMutant(c, o) == o.presented

\* frame.desktop_updated: a new image, or the first one of this duplication.
Updated(c, o) == o.presented \/ ~c.have

(* The frame acquired is copied and then released; an error on the way      *)
(* releases it too, and DXGI reports nothing twice.  The errors: the copy's *)
(* texture, the pointer's shape (with the image copied), the release.       *)
ReadFrame(c, o, pointer, guarded, mayFail) ==
  LET updated == Updated(c, o)
      copied == [c EXCEPT !.copy = IF updated THEN ImageOf(guarded) ELSE @,
                          !.have = @ \/ updated]
      out == NoNews(o)
      recreated == IF c.have THEN {FALSE} ELSE BOOLEAN  \* ensure_copy_texture after a mode change
      Frame(isNew) ==
        [Polled("frame", copied, out, isNew)
           EXCEPT !.updated = updated, !.masked = guarded, !.moved = o.moved,
                  !.visible = o.moved /\ pointer, !.reshaped = o.reshaped]
  IN {Frame(n) : n \in recreated}
     \cup If(mayFail /\ ~c.have, {Polled("failed", [c EXCEPT !.copy = "none"], out, TRUE)})
     \cup If(mayFail /\ o.reshaped, {Polled("failed", copied, out, n) : n \in recreated})
     \cup If(mayFail, {Polled("failed", copied, [out EXCEPT !.lost = TRUE], n) : n \in recreated})

(* DesktopDuplicator::poll.  "refused" is what DuplicateOutput would say.   *)
Poll(c, o, pointer, guarded, secure, refused, mayFail) ==
  IF c.backend = "gdi" THEN PollGdi(c, o, pointer, guarded, secure, mayFail)
  ELSE IF ~c.duplication \/ o.lost THEN Recreate(c, o, refused, mayFail)
  ELSE IF ~(o.first \/ o.presented \/ o.moved \/ o.reshaped)
    THEN {Polled("no frame", c, o, FALSE)}
  ELSE ReadFrame(c, o, pointer, guarded, mayFail)
       \cup If(mayFail, {Polled("failed", c, o, FALSE)})
===============================================================================
