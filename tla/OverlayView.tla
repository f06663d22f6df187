---------------------------- MODULE OverlayView ----------------------------
(***************************************************************************)
(* What the overlay engine (DynamicMounting::application_image) promises   *)
(* about the merge directories it works on, without saying how.  A         *)
(* read-only pass may only cover directories that show no overlay; a       *)
(* persistent pass, which only follows a read-only pass that succeeded,    *)
(* gives directories a writable overlay; an overlay that was there before  *)
(* is only replaced by one that shows the application's files first, or it *)
(* is lost; nothing changes any more afterwards.                           *)
(***************************************************************************)
CONSTANT Paths           \* the merge directories

VARIABLES phase,         \* the phase of the engine
          view           \* what a merge directory shows

vars == <<phase, view>>

Phases == {"setup", "readonly", "persistent", "done"}

\* "bare": no overlay.  "ro", "app": a read-only overlay, in "app" the
\* application's directory is the first layer.  "rw", "rwapp": the same for
\* a writable overlay.
Views == {"bare", "ro", "app", "rw", "rwapp"}

Init ==
  /\ phase = "setup"
  /\ view \in [Paths -> Views]

Begin ==
  /\ phase = "setup"
  /\ phase' = "readonly"
  /\ UNCHANGED view

\* The read-only pass covers a directory that shows no overlay.
Cover(p) ==
  /\ phase = "readonly"
  /\ view[p] = "bare"
  /\ \E v \in {"ro", "app"} : view' = [view EXCEPT ![p] = v]
  /\ UNCHANGED phase

EndReadOnly ==
  /\ phase = "readonly"
  /\ phase' \in {"persistent", "done"}
  /\ UNCHANGED view

\* A bare directory gets a writable overlay.
Open(p) ==
  /\ phase = "persistent"
  /\ view[p] = "bare"
  /\ \E v \in {"rw", "rwapp"} : view' = [view EXCEPT ![p] = v]
  /\ UNCHANGED phase

\* An overlay is replaced by a writable one that keeps the application on top.
Promote(p) ==
  /\ phase = "persistent"
  /\ view[p] # "bare"
  /\ view' = [view EXCEPT ![p] = "rwapp"]
  /\ UNCHANGED phase

\* An overlay is lost: it was taken away and no other could be mounted.
Withdraw(p) ==
  /\ phase = "persistent"
  /\ view[p] # "bare"
  /\ view' = [view EXCEPT ![p] = "bare"]
  /\ UNCHANGED phase

EndPersistent ==
  /\ phase = "persistent"
  /\ phase' = "done"
  /\ UNCHANGED view

Next ==
  \/ Begin \/ EndReadOnly \/ EndPersistent
  \/ \E p \in Paths : Cover(p) \/ Open(p) \/ Promote(p) \/ Withdraw(p)

Spec == Init /\ [][Next]_vars

=============================================================================
