------------------------------ MODULE VddClient ------------------------------
(***************************************************************************)
(* The client of the virtual display driver (src/vdd/vdd_client.cpp): the   *)
(* displays the driver has, the ones the client tracks, a resize call in    *)
(* progress with its two rollbacks, and the keepalive thread that pings the *)
(* driver between its steps.  One ioctl is one step: ioctl_mutex_ makes it  *)
(* so.  LayoutReload calls this client.                                     *)
(***************************************************************************)
EXTENDS Naturals, Integers, Sequences, FiniteSets, SequencesExt

CONSTANTS
  Index,           \* the indices the driver can hand out
  MaximumDisplays, \* kMaximumDisplays: the client takes an index only below it
  CarriedOut,      \* the calls that may fail, time out, and be carried out all the same
  FatalPings       \* consecutive ping failures the engine gives up at (5 in the code)

ASSUME VddAssumption ==
  /\ Index \subseteq Nat /\ IsFiniteSet(Index)
  /\ CarriedOut \subseteq {"add", "remove"}
  /\ MaximumDisplays \in Nat \ {0} /\ FatalPings \in Nat \ {0}

VARIABLES
  driver,          \* the displays that exist in the driver
  listed,          \* those of them Windows has enumerated as active
  open,            \* handle_ is not null
  display_indices, \* the displays the client tracks, in order of addition
  call,            \* the resize call in progress
  pingFailures,    \* consecutive_keepalive_failures_, up to FatalPings
  hung             \* the engine waits for a request that the driver never completes

vddVars == <<driver, listed, open, display_indices, call, pingFailures, hung>>

NoCall == [leg |-> "none", goal |-> 0, original |-> 0]

VddTypeOK ==
  /\ driver \subseteq Index /\ listed \subseteq driver
  /\ open \in BOOLEAN
  /\ display_indices \in Seq({i \in Index : i < MaximumDisplays})
  /\ Len(display_indices) =< MaximumDisplays
  /\ call \in [leg : {"none", "to goal", "add back", "take back", "stuck"},
               goal : 0 .. MaximumDisplays, original : 0 .. MaximumDisplays]
  /\ pingFailures \in 0 .. FatalPings /\ hung \in BOOLEAN

VddInit ==
  /\ driver = {} /\ listed = {} /\ open = FALSE
  /\ display_indices = <<>> /\ call = NoCall /\ pingFailures = 0 /\ hung = FALSE

Count == Len(display_indices)
On(leg) == call.leg = leg
GoTo(leg) == call' = [call EXCEPT !.leg = leg]
StaysOn == UNCHANGED call

(* resize(n) begins.  The counts are those of valid layouts, 1 to the       *)
(* maximum, so its check of the count never refuses.                        *)
BeginResize(n) == call' = [leg |-> "to goal", goal |-> n, original |-> Count]

(* How resize ended: TRUE at the goal; FALSE when a rollback finished or    *)
(* was itself stopped by a failing ioctl.                                   *)
ResizeReturnsTrue == On("to goal") /\ Count = call.goal
ResizeReturnsFalse ==
  \/ On("stuck")
  \/ On("add back") /\ Count = call.original
  \/ On("take back") /\ Count = call.original

(* add_display: an index at or over the maximum is refused though the      *)
(* display is there, and no one removes it; so is one of a call timed out.  *)
AddDisplay(OnSuccess, OnFailure) ==
  /\ UNCHANGED <<open, pingFailures, listed>>
  /\ \/ \E i \in Index \ driver :
          /\ driver' = driver \cup {i}
          /\ \/ /\ i < MaximumDisplays
                /\ display_indices' = Append(display_indices, i) /\ OnSuccess
             \/ /\ i >= MaximumDisplays \/ "add" \in CarriedOut
                /\ UNCHANGED display_indices /\ OnFailure
     \/ UNCHANGED <<driver, display_indices>> /\ OnFailure

(* remove_display of the last index and, on success, pop_back.  The driver  *)
(* answers TRUE for a display it does not have: the payload names a slot.   *)
RemoveDisplay(OnSuccess, OnFailure) ==
  LET last == display_indices[Count]
      Gone == driver' = driver \ {last} /\ listed' = listed \ {last} IN
  /\ UNCHANGED <<open, pingFailures>>
  /\ \/ Gone /\ display_indices' = Front(display_indices) /\ OnSuccess
     \/ "remove" \in CarriedOut /\ Gone /\ UNCHANGED display_indices /\ OnFailure
     \/ UNCHANGED <<driver, listed, display_indices>> /\ OnFailure

ShrinkStep == On("to goal") /\ Count > call.goal /\ RemoveDisplay(StaysOn, GoTo("add back"))
GrowStep == On("to goal") /\ Count < call.goal /\ AddDisplay(StaysOn, GoTo("take back"))
AddBackStep == On("add back") /\ Count < call.original /\ AddDisplay(StaysOn, GoTo("stuck"))
TakeBackStep == On("take back") /\ Count > call.original /\ RemoveDisplay(StaysOn, GoTo("stuck"))

ResizeStep ==
  /\ ~hung /\ UNCHANGED hung
  /\ ShrinkStep \/ GrowStep \/ AddBackStep \/ TakeBackStep

(* One turn of keepalive_loop: the ping is answered or it is not.           *)
Keepalive ==
  /\ open /\ ~hung /\ UNCHANGED hung
  /\ pingFailures' \in {0, IF pingFailures < FatalPings THEN pingFailures + 1 ELSE pingFailures}
  /\ UNCHANGED <<driver, listed, open, display_indices, call>>

(* After its time-out ioctl cancels the request and waits, with no bound     *)
(* and holding ioctl_mutex_, until the driver completes it.  A driver that   *)
(* does so late makes the step late; this one never does.  The request is    *)
(* the engine's own, or a ping whose thread has the mutex the engine needs.  *)
Hang ==
  /\ open /\ ~hung /\ hung' = TRUE
  /\ UNCHANGED <<driver, listed, open, display_indices, call, pingFailures>>

(* Windows enumerates a plugged display some time after the ioctl returned. *)
Enumerate ==
  /\ listed # driver
  /\ \E i \in driver \ listed : listed' = listed \cup {i}
  /\ UNCHANGED <<driver, open, display_indices, call, pingFailures, hung>>

(* disconnect: every display is removed in reverse order, failures ignored; *)
(* the keepalive thread is joined and the handle closed.                    *)
Disconnect ==
  /\ ~hung /\ UNCHANGED hung
  /\ \E gone \in SUBSET Range(display_indices) :
       driver' = driver \ gone /\ listed' = listed \ gone
  /\ display_indices' = <<>> /\ open' = FALSE /\ call' = NoCall
  /\ UNCHANGED pingFailures
===============================================================================
