--------------------------- MODULE MCCaptureServer ---------------------------
(* CaptureServer for TLC.  Selecting and opening the receiver take two        *)
(* requests.  The run starts both from the initial state and from the state   *)
(* where they have been served, so that its few requests also reach streams,  *)
(* restarts and recordings.                                                   *)
EXTENDS CaptureServer

\* After Select, Open and their replies: a state Spec reaches.
OpenedInit ==
    /\ dev = [selected |-> "hackrf", library |-> "open", owned |-> TRUE,
              config |-> Default, ingress |-> 0, live |-> {}, labels |-> <<>>,
              mailbox |-> 0, native |-> 0, hw |-> Default]
    /\ tasks = <<>> /\ late = FALSE
    /\ hPc = "idle" /\ hTodo = <<>> /\ reply = NoReply /\ requests = 0
    /\ hardware = TRUE /\ mockRunning = FALSE /\ recording = 0
    /\ playback = [load |-> 0, playing |-> FALSE]
    /\ loads = [recordings |-> 0, files |-> 0]
    /\ ePc = "mailbox" /\ eHardware = FALSE /\ eRunning = FALSE
    /\ eLoaded = FALSE /\ ePlaying = FALSE /\ engineSrc = 0
    /\ slots = [s \in Streams |-> 0]
    /\ source = Nothing

ServerSpec == (Init \/ OpenedInit) /\ [][Next]_vars /\ Fairness
=============================================================================
