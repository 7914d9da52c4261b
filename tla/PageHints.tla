----------------------------- MODULE PageHints -----------------------------
(***************************************************************************)
(* What the client library promises its caller, without map or probe: a    *)
(* call names an operation and an address, the kernel performs it at most  *)
(* once between the start of the call and its return, and a call that      *)
(* returns has been performed unless it was refused.                       *)
(***************************************************************************)
CONSTANTS Procs, VAs, NullVA, Ops

VARIABLES
  call,    \* process -> its call in progress, if any
  active,  \* <<p, v>> whose page is on the active list
  pinned   \* <<p, v>> whose page is pinned

hintsVars == <<call, active, pinned>>

Statuses == {"none", "asked", "done", "refused", "gone"}
NoCall == [status |-> "none", op |-> 0, va |-> NullVA]
Gone == [NoCall EXCEPT !.status = "gone"]

HintsInit ==
  /\ call = [p \in Procs |-> NoCall]
  /\ active = {}
  /\ pinned = {}

\* The write of the request succeeds, or fails: then nothing will come of it.
Ask(p, op, v) ==
  /\ call[p] = NoCall
  /\ \E s \in IF v = NullVA THEN {"refused"} ELSE {"asked", "refused"} :
       call' = [call EXCEPT ![p] = [status |-> s, op |-> op, va |-> v]]
  /\ UNCHANGED <<active, pinned>>

\* What operation op does to a page, when the kernel finds the page.
MovePage(op, page) ==
  \/ op = 1 /\ active' = active \cup {page} /\ UNCHANGED pinned
  \/ op = 2 /\ active' = active \ {page} /\ UNCHANGED pinned
  \/ op = 3 /\ pinned' = pinned \cup {page} /\ UNCHANGED active
  \/ op = 4 /\ pinned' = pinned \ {page} /\ UNCHANGED active

Perform(p) ==
  /\ call[p].status = "asked"
  /\ call' = [call EXCEPT ![p].status = "done"]
  /\ \/ MovePage(call[p].op, <<p, call[p].va>>)
     \/ UNCHANGED <<active, pinned>>

Return(p) ==
  /\ call[p].status \in {"done", "refused"}
  /\ call' = [call EXCEPT ![p] = NoCall]
  /\ UNCHANGED <<active, pinned>>

Die(p) ==
  /\ call' = [call EXCEPT ![p] = Gone]
  /\ UNCHANGED <<active, pinned>>

HintsNext ==
  \E p \in Procs :
    \/ \E op \in Ops, v \in VAs \cup {NullVA} : Ask(p, op, v)
    \/ Perform(p) \/ Return(p) \/ Die(p)

\* A call that was asked for is carried out, and then returns.
HintsSpec ==
  /\ HintsInit /\ [][HintsNext]_hintsVars
  /\ \A p \in Procs : WF_hintsVars(Perform(p)) /\ WF_hintsVars(Return(p))
=============================================================================
