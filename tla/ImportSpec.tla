----------------------------- MODULE ImportSpec -----------------------------
(***************************************************************************)
(* What a file-format plugin promises its host: opening or reloading a     *)
(* layer is atomic.  A call either replaces the layer's whole content by   *)
(* what it read of the file stands for, or fails and leaves the layer as   *)
(* it was; and it fails only for a reason.                                 *)
(***************************************************************************)
CONSTANTS
  Version,          \* what the file may contain
  Request,          \* the arguments of a call
  Readings(_),      \* what a call may have read of the versions it met
  Importable(_, _), \* does a reading satisfy this request at all?
  Content(_, _)     \* what the layer then holds

VARIABLES
  file,     \* the file's content now
  seen,     \* what it has been since the call began
  calling,  \* a call is in progress
  request,  \* its arguments
  fault,    \* an allocation or a call into USD was refused during it
  layer     \* the host's layer

vars == <<file, seen, calling, request, fault, layer>>

Init ==
  /\ file \in Version /\ seen = {file}
  /\ ~calling /\ ~fault
  /\ request \in Request

Edit ==
  /\ file' \in Version
  /\ seen' = IF calling THEN seen \cup {file'} ELSE {file'}
  /\ UNCHANGED <<calling, request, fault, layer>>

Call ==
  /\ ~calling /\ calling'
  /\ request' \in Request
  /\ UNCHANGED <<file, seen, fault, layer>>

Refuse == calling /\ fault' /\ UNCHANGED <<file, seen, calling, request, layer>>

Returns ==
  /\ calling /\ ~calling'
  /\ seen' = {file} /\ fault' = FALSE
  /\ UNCHANGED <<file, request>>

Succeed ==
  /\ Returns
  /\ \E x \in Readings(seen) :
       Importable(x, request) /\ layer' = Content(x, request)

(* A file that changes under the call is a reason to fail too.             *)
Fail ==
  /\ Returns
  /\ \/ fault \/ seen # {file}
     \/ \E x \in Readings(seen) : ~Importable(x, request)
  /\ UNCHANGED layer

Next == Edit \/ Call \/ Refuse \/ Succeed \/ Fail

Spec == Init /\ [][Next]_vars
=============================================================================
