----------------------------- MODULE LFReconcile -----------------------------
(***************************************************************************)
(* What applyResource promises, without saying how it gets there: callers  *)
(* that share the permissions of one principal on one resource each try to *)
(* make them equal to a wanted pair.  A caller adds nothing it does not    *)
(* want, and it reports success only with the wanted pair in place, unless *)
(* somebody else changed the permissions after the caller last looked.     *)
(***************************************************************************)
CONSTANTS
    Proc,     \* the callers
    Flag,     \* the individual permissions
    Pinned    \* permissions whose grant option the service never gives up

VARIABLES
    heldP,    \* permissions the principal holds
    heldG,    \* those it holds with the grant option
    want,     \* want[p]: the pair caller p is after
    status,   \* "running", "ok" or "failed"
    view      \* "none", "fresh" or "stale": what p knows of the held pair

vars == <<heldP, heldG, want, status, view>>

Pair == {h \in [P : SUBSET Flag, G : SUBSET Flag] : h.G \subseteq h.P}

(* The wanted permissions are the held ones, and so are the grant options, *)
(* except that a pinned one may have kept some of them from being removed. *)
Reached(w) ==
    /\ heldP = w.P
    /\ w.G \subseteq heldG
    /\ (heldG = w.G \/ (heldG \cap Pinned) \ w.G # {})

Init ==
    /\ [P |-> heldP, G |-> heldG] \in Pair
    /\ want \in [Proc -> Pair]
    /\ status = [p \in Proc |-> "running"]
    /\ view = [p \in Proc |-> "none"]

(* Whoever changes the permissions makes the view of everybody else stale. *)
Outdate(q) ==
    IF view[q] = "fresh" /\ <<heldP, heldG>>' # <<heldP, heldG>>
    THEN "stale" ELSE view[q]

Held == heldP' \in SUBSET Flag /\ heldG' \in SUBSET heldP'

(* One step of caller p: look, change the pair, or finish.  Success needs  *)
(* a look at the pair first; a caller that gave up may forget what it saw. *)
Step(p) ==
    /\ status[p] = "running"
    /\ UNCHANGED want
    /\ Held
    /\ heldP' \subseteq heldP \cup want[p].P
    /\ heldG' \subseteq heldG \cup want[p].G
    /\ \E s \in {"running", "ok", "failed"}, v \in {view[p], "fresh", "none"} :
          /\ status' = [status EXCEPT ![p] = s]
          /\ view' = [q \in Proc |-> IF q = p THEN v ELSE Outdate(q)]
          /\ v = "none" => s = "failed" \/ view[p] = "none"
          /\ s = "ok" => v # "none"
          /\ s = "ok" /\ v = "fresh" => Reached(want[p])'

(* Somebody outside the callers changes the pair.                          *)
Disturb ==
    /\ Held
    /\ view' = [q \in Proc |-> Outdate(q)]
    /\ UNCHANGED <<want, status>>

Next == Disturb \/ \E p \in Proc : Step(p)

Spec == Init /\ [][Next]_vars
==============================================================================
