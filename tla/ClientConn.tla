------------------------------ MODULE ClientConn ------------------------------
(***************************************************************************)
(* What BLEClient promises about its connection handle, abstracted from    *)
(* the tasks, the events and the frames of module Client.                  *)
(*                                                                         *)
(*  - link is the connection NimBLE holds (its handle), or NONE;           *)
(*  - handle is the client's m_connHandle;                                 *)
(*  - alive is FALSE once the BLEClient object has been deleted.           *)
(*                                                                         *)
(* The client takes the handle of the connection NimBLE holds, and only    *)
(* when it has none; it lets go of a handle only once that connection is   *)
(* gone; it is deleted only while it holds no handle; and NimBLE makes a   *)
(* new connection only once the client has let go of the last one.         *)
(***************************************************************************)
CONSTANTS Handles, NONE

VARIABLES handle, link, alive

connVars == <<handle, link, alive>>

ConnInit ==
    /\ handle = NONE
    /\ link = NONE
    /\ alive = TRUE

(* The controller establishes a connection.                                *)
LinkUp(h) ==
    /\ link = NONE /\ handle = NONE
    /\ link' = h
    /\ UNCHANGED <<handle, alive>>

(* The connection drops, or is terminated.                                 *)
LinkDown ==
    /\ link # NONE
    /\ link' = NONE
    /\ UNCHANGED <<handle, alive>>

(* BLE_GAP_EVENT_CONNECT: the client takes the connection's handle.        *)
Adopt ==
    /\ alive /\ handle = NONE /\ link # NONE
    /\ handle' = link
    /\ UNCHANGED <<link, alive>>

(* BLE_GAP_EVENT_DISCONNECT: the client lets go of the handle of the       *)
(* connection that dropped, and deleteOnDisconnect may delete it.          *)
Forget ==
    /\ alive /\ handle # NONE /\ link = NONE
    /\ handle' = NONE
    /\ alive' \in BOOLEAN
    /\ UNCHANGED link

(* The client is deleted while it holds no handle.                         *)
Delete ==
    /\ alive /\ handle = NONE
    /\ alive' = FALSE
    /\ UNCHANGED <<handle, link>>

ConnNext ==
    \/ \E h \in Handles : LinkUp(h)
    \/ LinkDown \/ Adopt \/ Forget \/ Delete

ConnSpec == ConnInit /\ [][ConnNext]_connVars

(* The handle a client holds never names a connection other than the one  *)
(* NimBLE holds, and a deleted client holds no handle.                     *)
ConnSafe ==
    /\ handle # NONE => link \in {handle, NONE}
    /\ ~alive => handle = NONE
=============================================================================
