------------------------------ MODULE Account -------------------------------
(***************************************************************************)
(* What an account promises about the preset buttons: a request to set a   *)
(* button either takes effect at one moment, on that button alone, or has  *)
(* no effect at all.  While the list cannot be read nothing else changes   *)
(* it, and it becomes readable again only by a request that takes effect.  *)
(* Nothing is promised any more once two saves have overlapped.            *)
(***************************************************************************)
CONSTANTS
  Clients,    \* requests that may be in flight at once
  Buttons,    \* the preset buttons
  Contents,   \* what a button can play
  Nothing     \* the wish of a client without a request

VARIABLES
  plays,      \* what each button plays
  wish,       \* the button and content a client has asked for
  readable,   \* whether the list can be read
  degraded    \* whether two saves have overlapped

accountVars == <<plays, wish, readable, degraded>>

Wish == [button : Buttons, content : Contents]

Init ==
  /\ plays \in [Buttons -> Contents]
  /\ wish = [c \in Clients |-> Nothing]
  /\ readable \in BOOLEAN
  /\ degraded = FALSE

Ask(c) ==
  /\ wish[c] = Nothing
  /\ \E w \in Wish : wish' = [wish EXCEPT ![c] = w]
  /\ UNCHANGED <<plays, readable, degraded>>

(* The wish comes true, and nothing else changes. *)
Grant(c) ==
  /\ wish[c] # Nothing
  /\ ~degraded
  /\ plays' = [plays EXCEPT ![wish[c].button] = wish[c].content]
  /\ wish' = [wish EXCEPT ![c] = Nothing]
  /\ readable' = TRUE
  /\ UNCHANGED degraded

(* The wish is refused, or fails. *)
Refuse(c) ==
  /\ wish[c] # Nothing
  /\ wish' = [wish EXCEPT ![c] = Nothing]
  /\ UNCHANGED <<plays, readable, degraded>>

(* The list is being replaced on behalf of some client. *)
Hide ==
  /\ \E c \in Clients : wish[c] # Nothing
  /\ readable' = FALSE
  /\ UNCHANGED <<plays, wish, degraded>>

(* A save that undoes another one. *)
Overlap(c) ==
  /\ wish[c] # Nothing
  /\ degraded' = TRUE
  /\ plays' \in [Buttons -> Contents]
  /\ wish' = [wish EXCEPT ![c] = Nothing]
  /\ readable' = TRUE

(* The services die, and with them all requests. *)
Die ==
  /\ wish' = [c \in Clients |-> Nothing]
  /\ UNCHANGED <<plays, readable, degraded>>

Next ==
  \/ Hide
  \/ Die
  \/ \E c \in Clients : Ask(c) \/ Grant(c) \/ Refuse(c) \/ Overlap(c)

Spec == Init /\ [][Next]_accountVars
=============================================================================
