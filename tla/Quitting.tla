------------------------------ MODULE Quitting ------------------------------
(***************************************************************************)
(* The request to end the event loop (src/server.h), which the handlers of *)
(* input events look at first: wl_display_run returns only after the       *)
(* events already read were dispatched.                                    *)
(***************************************************************************)

CONSTANT Nothing   \* the null reference, of any type

VARIABLE quitting  \* server->display_terminate_requested

(* server_request_terminate *)
RequestTerminate == quitting' = TRUE
=============================================================================
