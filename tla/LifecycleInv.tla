---------------------------- MODULE LifecycleInv ----------------------------
(***************************************************************************)
(* The inductive invariant behind LostOnlyWhenLapped and AppliedInOrder,   *)
(* for one client: where in the ring its requests are, by their numbers.   *)
(* It is stated apart so that the run checks what the proofs use.          *)
(***************************************************************************)
EXTENDS Lifecycle

Waiting == {k \in Keys : age[k] # 0}

\* A key has a number just when it has a request, which is the client's, and the
\* numbers go round the ring.
NumbersMatch ==
  /\ \A k \in Keys : age[k] # 0 <=> slot[k] # NoCell
  /\ \A p \in Procs :
       /\ Waiting \subseteq KeysOf(p)
       /\ idx[p] = written % MAX_PID_VA_ENTRIES
       /\ pc[p] = "new" => written = 0
  /\ \A k \in Waiting : (age[k] - 1) % MAX_PID_VA_ENTRIES = k

\* What a probe has read is from the slot it is at, which nobody turned back.
ReadsMatch ==
  \A c \in CPUs :
    /\ step[c] = "lookup" => readAge[c] = 0
    /\ step[c] # "lookup" => task[c] # NoTask /\ i[c] < MAX_PID_VA_ENTRIES
    /\ readAge[c] # 0 => /\ (readAge[c] - 1) % MAX_PID_VA_ENTRIES = i[c]
                         /\ age[i[c]] # 0 => age[i[c]] >= readAge[c]

MatchInv == NumbersMatch /\ ReadsMatch

InCall == \A p \in Procs : pc[p] \in {"getpid", "exited"}

-----------------------------------------------------------------------------
(* Which requests can still wait. *)

\* Only the request of the call under way was written after the last call that no
\* probe served.
Recent == \A k \in Waiting : age[k] > missed => age[k] = written /\ InCall

\* A probe that works on such a request has fallen behind by what was written since.
NotLapped ==
  \A c \in CPUs : readAge[c] > missed => \/ lag[c] = MAX_PID_VA_ENTRIES
                                         \/ readAge[c] + lag[c] >= written

\* A probe that nobody met is the only one that runs.
Alone == \A c \in Running : ~together[c] => Running = {c}

-----------------------------------------------------------------------------
(* In which order they wait, as long as the ring has not been skewed. *)

KeysInOrder == \A k, l \in Waiting : k < l => age[k] < age[l]

\* Behind a probe only the request of the call under way waits, ahead of it only
\* requests later than the one it works on.
PassedIsLast == \A c \in Running : \A k \in Waiting : k < i[c] => age[k] = written /\ InCall
AheadIsLater == \A c \in Running : \A k \in Waiting : k > i[c] => age[k] > readAge[c]

\* What a kfunc was given still waits only under a probe that is about to delete it.
AppliedIsDeleted ==
  \A k \in Waiting : age[k] > applied \/ \E c \in Running : step[c] = "delete" /\ i[c] = k

ReadIsNew ==
  \A c \in Running : ~together[c] /\ step[c] \in {"va", "flags", "kfunc"} => readAge[c] > applied

Ordered == KeysInOrder /\ PassedIsLast /\ AheadIsLater /\ AppliedIsDeleted /\ ReadIsNew
Order == skewed \/ Ordered

\* One client.  The numbers of the requests follow the ring: a key that waits has the
\* last number that led to it, a probe has read its slot or an earlier turn of it, and
\* unless the ring is skewed every probe meets the requests in the order of their
\* numbers, behind it at most the one of the call under way.
RequestsInRing == MatchInv /\ Recent /\ NotLapped /\ Alone /\ Order
=============================================================================
