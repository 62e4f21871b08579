------------------------------- MODULE Channel -------------------------------
(***************************************************************************)
(* What the admin queue promises its callers (spec 4.2, 5): a channel that *)
(* holds at most one command the device has not completed.  Execute        *)
(* refuses while one is pending; otherwise it hands the command to the     *)
(* device and returns either the verdict on the status the device wrote    *)
(* for it, or, giving up, ENOTRECOVERABLE with the command still pending.  *)
(* The device completes pending commands in order, also after the caller  *)
(* gave up.  Release waits until the device has let go of the channel.     *)
(***************************************************************************)
EXTENDS Sequences

CONSTANTS
  Commands,     \* the commands callers execute
  Statuses,     \* the status words the device may write
  Verdict(_)    \* the errno a caller gets for a status word

VARIABLES
  up,        \* the channel is allocated
  held,      \* the device holds the channel
  pending,   \* the commands handed to the device and not completed
  last,      \* the status of the command completed last
  caller,    \* "idle", "busy" (in execute) or "release"
  res        \* what the caller's last call returned

cvars == <<up, held, pending, last, caller, res>>

Init ==
  /\ up = FALSE /\ held = FALSE /\ pending = <<>>
  /\ last \in Statuses /\ caller = "idle" /\ res = "OK"

Open ==
  /\ ~up /\ caller = "idle"
  /\ up' = TRUE /\ held' = TRUE /\ res' = "OK"
  /\ last' \in Statuses
  /\ UNCHANGED <<pending, caller>>

OpenFail ==
  /\ ~up /\ caller = "idle"
  /\ res' = "ENOMEM"
  /\ UNCHANGED <<up, held, pending, last, caller>>

Submit(c) ==
  /\ up /\ held /\ caller = "idle" /\ pending = <<>>
  /\ pending' = <<c>> /\ caller' = "busy"
  /\ UNCHANGED <<up, held, last, res>>

Refuse ==
  /\ up /\ caller = "idle" /\ pending # <<>>
  /\ res' = "EINVAL"
  /\ UNCHANGED <<up, held, pending, last, caller>>

Complete(s) ==
  /\ held /\ pending # <<>>
  /\ pending' = Tail(pending) /\ last' = s
  /\ UNCHANGED <<up, held, caller, res>>

Return ==
  /\ caller = "busy" /\ pending = <<>>
  /\ res' = Verdict(last) /\ caller' = "idle"
  /\ UNCHANGED <<up, held, pending, last>>

GiveUp ==
  /\ caller = "busy" /\ pending # <<>>
  /\ res' = "ENOTRECOVERABLE" /\ caller' = "idle"
  /\ UNCHANGED <<up, held, pending, last>>

CloseBegin ==
  /\ up /\ caller = "idle"
  /\ caller' = "release"
  /\ UNCHANGED <<up, held, pending, last, res>>

LetGo ==
  /\ held /\ caller = "release"
  /\ held' = FALSE /\ pending' = <<>> /\ last' \in Statuses
  /\ UNCHANGED <<up, caller, res>>

CloseDone ==
  /\ caller = "release" /\ ~held
  /\ up' = FALSE /\ caller' = "idle"
  /\ UNCHANGED <<held, pending, last, res>>

Next ==
  \/ Open \/ OpenFail \/ \E c \in Commands : Submit(c) \/ Refuse
  \/ \E s \in Statuses : Complete(s)
  \/ Return \/ GiveUp \/ CloseBegin \/ LetGo \/ CloseDone

(* A caller in execute returns, whether the device answers or not.         *)
Spec == Init /\ [][Next]_cvars /\ WF_cvars(Return \/ GiveUp)
=============================================================================
