---------------------------- MODULE AtomicStore -----------------------------
(***************************************************************************)
(* What the store promises its callers: every call takes effect at one     *)
(* instant between its invocation and its return.  Malformed contents are  *)
(* never stored, a create never overwrites, an update and a delete never   *)
(* bring a record into being, and a listing shows one state of a           *)
(* directory.  The services are modelled on top of this specification.     *)
(***************************************************************************)
EXTENDS StoreOps

CONSTANT NoRequest

VARIABLES
  store,   \* [Paths -> Values \cup {Absent}]
  req,     \* the request each client is waiting for
  phase,   \* "idle", "called" or "served"
  out      \* the answer of a served request

vars == <<store, req, phase, out>>

Init ==
  /\ store = Nothing
  /\ req   = [c \in Clients |-> NoRequest]
  /\ phase = [c \in Clients |-> "idle"]
  /\ out   = [c \in Clients |-> NoAnswer]

Call(c, r) ==
  /\ phase[c] = "idle"
  /\ req'   = [req EXCEPT ![c] = r]
  /\ phase' = [phase EXCEPT ![c] = "called"]
  /\ UNCHANGED <<store, out>>

Serve(c) ==
  /\ phase[c] = "called"
  /\ out'   = [out EXCEPT ![c] = Answer(store, req[c])]
  /\ store' = Effect(store, req[c])
  /\ phase' = [phase EXCEPT ![c] = "served"]
  /\ UNCHANGED req

Return(c) ==
  /\ phase[c] = "served"
  /\ req'   = [req EXCEPT ![c] = NoRequest]
  /\ phase' = [phase EXCEPT ![c] = "idle"]
  /\ out'   = [out EXCEPT ![c] = NoAnswer]
  /\ UNCHANGED store

Next == \E c \in Clients :
  \/ \E r \in Requests : Call(c, r)
  \/ Serve(c)
  \/ Return(c)

Spec == Init /\ [][Next]_vars

=============================================================================
