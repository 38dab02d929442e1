------------------------------- MODULE LFApply -------------------------------
(***************************************************************************)
(* applyResource and applyDiff of lakeformation_permissions_resource.go:   *)
(* bring the permissions one principal holds on one resource to a planned  *)
(* pair, with calls to AWS Lake Formation that other actors interleave     *)
(* with, that may fail, and that may fail after they took effect.          *)
(*                                                                         *)
(* Proc is the set of callers that work on this principal and resource at  *)
(* the same time (terraform runs, or two resource blocks that overlap).    *)
(***************************************************************************)
EXTENDS LFPermissions, Integers

CONSTANTS
    Proc,         \* concurrent callers of applyResource
    MaxRetries,   \* lfPermsMaxRetries
    MaxDisturb,   \* bound: changes made by somebody else
    Pinned,       \* permissions granted as SUPER_USER: grant option is fixed
    Pages         \* the permissions that may make up a page before the last

ASSUME RetriesAssumption == MaxRetries \in Nat /\ MaxDisturb \in Nat
ASSUME PinnedAssumption  == Pinned \subseteq Flag

VARIABLES
    awsP, awsG,    \* held by the principal, and held with grant option
    disturbed,     \* changes somebody else has made so far
    plan,          \* plan[p].P, plan[p].G: planP and planG
    pc,            \* where in applyResource p is
    attempt,       \* attempt
    curP, curG,    \* what listLFPerms returned, or has gathered so far
    unlisted,      \* the permissions that are on pages still to be listed
    regrant,       \* keepRevokeG, once it has been revoked
    base,          \* history: the pair held when p first began to list
    dirty,         \* history: changed by others since p last began to list
    tainted        \* history: changed by others since p first began to list

aws     == <<awsP, awsG>>
history == <<base, dirty, tainted>>
vars    == <<awsP, awsG, disturbed, plan, pc, attempt, curP, curG, unlisted,
             regrant, base, dirty, tainted>>

Ended  == {"ok", "failed", "crashed"}
Phase  == {"list", "revoke", "keep", "grant", "allRevoke", "allGrant", "backoff"}
             \cup Ended

(* The pairs that ValidateResource and ModifyPlan let through; Delete asks *)
(* for the empty one.                                                      *)
Plans == {w \in [P : Perms, G : Perms] : ValidPair(w.P, w.G, Flag)}

Full(perms) == Expand(perms, Flag)

Init ==
    /\ awsP \in SUBSET Flag /\ awsG \in SUBSET awsP
    /\ disturbed = 0
    /\ plan \in [Proc -> Plans]
    /\ pc = [p \in Proc |-> "list"]
    /\ attempt = [p \in Proc |-> 0]
    /\ curP = [p \in Proc |-> {}] /\ curG = [p \in Proc |-> {}]
    /\ unlisted = [p \in Proc |-> Flag]
    /\ regrant = [p \in Proc |-> {}]
    /\ base = [p \in Proc |-> [P |-> {}, G |-> {}]]
    /\ dirty = [p \in Proc |-> FALSE] /\ tainted = [p \in Proc |-> FALSE]
------------------------------------------------------------------------------
(* The service.  A call that is answered with an error may have taken      *)
(* effect all the same: its first answer was lost and the SDK sent it      *)
(* again, or the connection broke before the answer.                       *)
Errors == {"concurrent", "fail"}

Add(P, G)    == awsP' = awsP \cup P /\ awsG' = awsG \cup G
Remove(P, G) == awsP' = awsP \ P /\ awsG' = awsG \ (G \cup P)

ServiceGrant(P, G, reply) ==
    \/ reply \in Errors \cup {"ok"} /\ Add(Full(P), Full(G))
    \/ reply \in Errors /\ UNCHANGED aws

(* When some of the request is not held, the service removes the rest or   *)
(* nothing; either way it may answer "No permissions revoked".             *)
ServiceRevoke(P, G, reply) ==
    LET missing == ~(Full(P) \subseteq awsP /\ Full(G) \subseteq awsG)
        fixed   == Full(G) \cap awsG \cap Pinned # {}
    IN  \/ reply \in Errors /\ UNCHANGED aws
        \/ reply \in Errors \cup {"ok"} /\ ~fixed /\ Remove(Full(P), Full(G))
        \/ reply = "noperms" /\ ~fixed /\ missing
           /\ (UNCHANGED aws \/ Remove(Full(P), Full(G)))
        \/ reply = "superuser" /\ fixed /\ UNCHANGED aws

(* Every step records which callers' reads it has made out of date; by is  *)
(* the caller that takes the step, if it is one.                           *)
Outdates(by, old) ==
    [q \in Proc |-> old[q] \/ (q \notin by /\ aws' # aws)]
Witness(by) ==
    dirty' = Outdates(by, dirty) /\ tainted' = Outdates(by, tainted)
------------------------------------------------------------------------------
(* grantLFPerms and revokeLFPerms: the call and the error seen by the      *)
(* caller.  A grant option is granted with its permission, and an answer   *)
(* "No permissions revoked" counts as success.                             *)
GrantLFPerms(P, G, err) ==
    IF P = {} /\ G = {} THEN err = "ok" /\ UNCHANGED aws
    ELSE ServiceGrant(P \cup G, G, err)

RevokeLFPerms(P, G, err) ==
    IF P = {} /\ G = {} THEN err = "ok" /\ UNCHANGED aws
    ELSE \E reply \in Errors \cup {"ok", "noperms", "superuser"} :
            /\ ServiceRevoke(P, G, reply)
            /\ err = IF reply = "noperms" THEN "ok" ELSE reply

(* The diff of applyDiff, from what was listed to what is planned.         *)
AllPath(P, planP) == ALL \in P \/ ALL \in planP
RevokeG(p)     == curG[p] \ plan[p].G
RevokeOnlyP_Everything(p) == curP[p]
RevokeOnlyP(p) == curP[p] \ plan[p].P
RevokeOnlyG(p) == RevokeG(p) \cap RevokeOnlyP(p)
KeepRevokeG_Removed(p) == RevokeG(p)
KeepRevokeG(p) == RevokeG(p) \cap plan[p].P
GrantP_NoRegrant(p) == plan[p].P \ curP[p]
GrantP(p)      == (plan[p].P \ curP[p]) \cup regrant[p]
GrantG(p)      == plan[p].G \ curG[p]

Goto(p, phase) == pc' = [pc EXCEPT ![p] = phase]

AfterDiff_OneMore(err, attempts) ==
    IF err = "ok" THEN "ok"
    ELSE IF err = "concurrent" /\ attempts <= MaxRetries THEN "backoff"
    ELSE "failed"
(* applyResource after applyDiff returned: success, another attempt, or    *)
(* the error.                                                              *)
AfterDiff(err, attempts) ==
    IF err = "ok" THEN "ok"
    ELSE IF err = "concurrent" /\ attempts < MaxRetries THEN "backoff"
    ELSE "failed"

Return(p, err) == Goto(p, AfterDiff(err, attempt[p]))

ReturnOr(p, err, next) == IF err = "ok" THEN Goto(p, next) ELSE Return(p, err)

Local == <<plan, attempt, curP, curG, unlisted, base>>
------------------------------------------------------------------------------
AfterList_NothingHeld(P, planP) ==
    IF P = {} THEN "ok" ELSE IF AllPath(P, planP) THEN "allRevoke" ELSE "revoke"
(* The head of applyDiff, from what was listed.                            *)
AfterList(P, planP) ==
    IF P = {} /\ planP = {} THEN "ok"
    ELSE IF AllPath(P, planP) THEN "allRevoke"
    ELSE "revoke"

Gathered_LastPage(p, page) == [P |-> awsP \cap page, G |-> awsG \cap page]
(* listLFPerms gathers the permissions page by page, while others change   *)
(* them; the service decides what is on a page, and lists a grant option   *)
(* with its permission.                                                    *)
Gathered(p, page) ==
    [P |-> curP[p] \cup (awsP \cap page), G |-> curG[p] \cup (awsG \cap page)]

(* The first page of a list: what others change from now on, p may miss.   *)
BeginsToList(p) ==
    IF unlisted[p] = Flag
    THEN /\ dirty' = [dirty EXCEPT ![p] = FALSE]
         /\ IF attempt[p] = 0
            THEN /\ base' = [base EXCEPT ![p] = [P |-> awsP, G |-> awsG]]
                 /\ tainted' = [tainted EXCEPT ![p] = FALSE]
            ELSE UNCHANGED <<base, tainted>>
    ELSE UNCHANGED history

ListPage(p) ==
    /\ pc[p] = "list"
    /\ \E page \in {g \in Pages : g \subseteq unlisted[p]} \ {{}, unlisted[p]} :
          /\ curP' = [curP EXCEPT ![p] = Gathered(p, page).P]
          /\ curG' = [curG EXCEPT ![p] = Gathered(p, page).G]
          /\ unlisted' = [unlisted EXCEPT ![p] = @ \ page]
    /\ BeginsToList(p)
    /\ UNCHANGED <<aws, disturbed, plan, pc, attempt, regrant>>

(* The last page, and the head of applyDiff: nothing held and nothing      *)
(* planned is success, ALL on either side takes the full revoke and grant. *)
(* An error of a page is returned at once, whatever it is.                 *)
List(p) ==
    /\ pc[p] = "list"
    /\ LET P == CollapseImplicitAll(Gathered(p, unlisted[p]).P, Flag)
           G == CollapseImplicitAll(Gathered(p, unlisted[p]).G, Flag)
       IN  /\ curP' = [curP EXCEPT ![p] = P]
           /\ curG' = [curG EXCEPT ![p] = G]
           /\ Goto(p, AfterList(P, plan[p].P))
    /\ unlisted' = [unlisted EXCEPT ![p] = {}]
    /\ regrant' = [regrant EXCEPT ![p] = {}]
    /\ BeginsToList(p)
    /\ UNCHANGED <<aws, disturbed, plan, attempt>>

ListFails(p) ==
    /\ pc[p] = "list"
    /\ Goto(p, "failed")
    /\ UNCHANGED <<aws, disturbed, Local, regrant, dirty, tainted>>

(* ALL on either side: revoke everything listed, then grant the plan.      *)
AllRevoke(p) ==
    /\ pc[p] = "allRevoke"
    /\ \E err \in Errors \cup {"ok", "superuser"} :
          /\ RevokeLFPerms(curP[p], curG[p], err)
          /\ ReturnOr(p, err, "allGrant")
    /\ Witness({p})
    /\ UNCHANGED <<disturbed, Local, regrant>>

AllGrant(p) ==
    /\ pc[p] = "allGrant"
    /\ \E err \in Errors \cup {"ok"} :
          /\ GrantLFPerms(plan[p].P, plan[p].G, err)
          /\ Return(p, err)
    /\ Witness({p})
    /\ UNCHANGED <<disturbed, Local, regrant>>

(* The permissions that leave the plan, with their grant options.          *)
RevokeRemoved(p) ==
    /\ pc[p] = "revoke"
    /\ \E err \in Errors \cup {"ok", "superuser"} :
          /\ RevokeLFPerms(RevokeOnlyP(p), RevokeOnlyG(p), err)
          /\ ReturnOr(p, err, "keep")
    /\ Witness({p})
    /\ UNCHANGED <<disturbed, Local, regrant>>

(* The permissions that stay but lose their grant option are revoked whole *)
(* and join the grant that follows, unless the service says that the grant *)
(* option is a SUPER_USER one: then they are left as they are.             *)
RevokeKept(p) ==
    /\ pc[p] = "keep"
    /\ \E err \in Errors \cup {"ok", "superuser"} :
          /\ RevokeLFPerms(KeepRevokeG(p), KeepRevokeG(p), err)
          /\ regrant' = [regrant EXCEPT ![p] = IF err = "ok" THEN KeepRevokeG(p) ELSE {}]
          /\ IF err = "superuser" THEN Goto(p, "grant") ELSE ReturnOr(p, err, "grant")
    /\ Witness({p})
    /\ UNCHANGED <<disturbed, Local>>

GrantAdded(p) ==
    /\ pc[p] = "grant"
    /\ \E err \in Errors \cup {"ok"} :
          /\ GrantLFPerms(GrantP(p), GrantG(p), err)
          /\ Return(p, err)
    /\ Witness({p})
    /\ UNCHANGED <<disturbed, Local, regrant>>

Relist(p) ==
    /\ curP' = [curP EXCEPT ![p] = {}] /\ curG' = [curG EXCEPT ![p] = {}]
    /\ unlisted' = [unlisted EXCEPT ![p] = Flag]

Retry_Uncounted(p) ==
    /\ pc[p] = "backoff"
    /\ Goto(p, "list")
    /\ Relist(p)
    /\ UNCHANGED <<aws, disturbed, plan, attempt, regrant, history>>
(* The pause of lfPermsSleepFn ends and the next attempt lists again, or   *)
(* the context is cancelled during the pause.                              *)
Retry(p) ==
    /\ pc[p] = "backoff"
    /\ Goto(p, "list")
    /\ attempt' = [attempt EXCEPT ![p] = @ + 1]
    /\ Relist(p)
    /\ UNCHANGED <<aws, disturbed, plan, regrant, history>>

Cancelled(p) ==
    /\ pc[p] = "backoff"
    /\ Goto(p, "failed")
    /\ UNCHANGED <<aws, disturbed, Local, regrant, dirty, tainted>>

(* The provider process is killed.                                         *)
Crash(p) ==
    /\ pc[p] \notin Ended
    /\ Goto(p, "crashed")
    /\ UNCHANGED <<aws, disturbed, Local, regrant, dirty, tainted>>

(* Somebody else grants or revokes permissions of the same principal.      *)
Disturb ==
    /\ disturbed < MaxDisturb
    /\ disturbed' = disturbed + 1
    /\ awsP' \in SUBSET Flag /\ awsG' \in SUBSET awsP'
    /\ aws' # aws
    /\ Witness({})
    /\ UNCHANGED <<Local, pc, regrant>>

Step(p) ==
    \/ ListPage(p) \/ List(p) \/ ListFails(p)
    \/ AllRevoke(p) \/ AllGrant(p)
    \/ RevokeRemoved(p) \/ RevokeKept(p) \/ GrantAdded(p)
    \/ Retry(p) \/ Cancelled(p)

Next == Disturb \/ \E p \in Proc : Step(p) \/ Crash(p)

(* Every call returns, with an answer or an error, and every pause ends.   *)
Fairness == \A p \in Proc : WF_vars(Step(p))

Spec     == Init /\ [][Next]_vars
FairSpec == Spec /\ Fairness
------------------------------------------------------------------------------
Pair == [P : SUBSET Flag, G : SUBSET Flag]

TypeOK ==
    /\ awsP \in SUBSET Flag /\ awsG \in SUBSET awsP
    /\ disturbed \in 0 .. MaxDisturb
    /\ plan \in [Proc -> Plans]
    /\ pc \in [Proc -> Phase]
    /\ attempt \in [Proc -> 0 .. MaxRetries]
    /\ curP \in [Proc -> Perms] /\ curG \in [Proc -> Perms]
    /\ unlisted \in [Proc -> SUBSET Flag]
    /\ regrant \in [Proc -> Perms]
    /\ base \in [Proc -> Pair]
    /\ dirty \in [Proc -> BOOLEAN] /\ tainted \in [Proc -> BOOLEAN]

(* The planned permissions are the ones held, and so are the grant options *)
(* unless one that may not be removed is in the way.                       *)
Reached(w) ==
    /\ awsP = Full(w.P)
    /\ Full(w.G) \subseteq awsG
    /\ awsG = Full(w.G) \/ (awsG \cap Pinned) \ Full(w.G) # {}

(* When applyResource returns without an error, AWS holds exactly what was *)
(* planned, whatever it held before, whatever calls failed and were tried  *)
(* again, and whichever of the failed calls had taken effect - unless      *)
(* somebody changed the permissions after the last list began.             *)
ConvergedOnSuccess ==
    \A p \in Proc : pc[p] = "ok" /\ ~dirty[p] => Reached(plan[p])

(* What applyDiff puts at risk by revoking it in order to grant it again:  *)
(* everything when ALL is involved, else the permissions that stay but     *)
(* lose their grant option.                                                *)
AtRisk(p) ==
    IF AllPath(CollapseImplicitAll(base[p].P, Flag), plan[p].P) THEN Flag
    ELSE (base[p].G \ plan[p].G) \cap plan[p].P

(* An apply that stops anywhere - between two calls, on an error, after    *)
(* any number of retries, killed - has dropped none of the permissions and *)
(* grant options that were held at the start and are planned, except the   *)
(* ones applyDiff revokes in order to grant them again.                    *)
KeptUnlessRegranted ==
    \A p \in Proc : ~tainted[p] =>
        /\ (base[p].P \cap Full(plan[p].P)) \ AtRisk(p) \subseteq awsP
        /\ (base[p].G \cap Full(plan[p].G)) \ AtRisk(p) \subseteq awsG

(* No call of applyDiff, on a stale list or not, gives the principal a     *)
(* permission or a grant option that its plan does not name.               *)
GrantsOnlyPlanned ==
    [][\A p \in Proc : Step(p) =>
            /\ awsP' \ awsP \subseteq Full(plan[p].P)
            /\ awsG' \ awsG \subseteq Full(plan[p].G)]_vars

(* Callers that agree on the plan do not undo one another: however their   *)
(* lists, revokes and grants interleave, once all of them have succeeded   *)
(* (and nobody else interfered) the plan is in place.                      *)
AgreeingCallersConverge ==
    /\ disturbed = 0
    /\ \A p \in Proc : pc[p] = "ok"
    /\ \A p, q \in Proc : plan[p] = plan[q]
    => \A p \in Proc : Reached(plan[p])

(* applyResource always returns: the retries of a service that keeps       *)
(* answering ConcurrentModificationException come to an end.               *)
Termination == <>(\A p \in Proc : pc[p] \in Ended)

(* applyResource implements the promise of LFReconcile.                    *)
Want == [p \in Proc |-> [P |-> Full(plan[p].P), G |-> Full(plan[p].G)]]

Status ==
    [p \in Proc |->
        IF pc[p] = "ok" THEN "ok"
        ELSE IF pc[p] \in Ended THEN "failed"
        ELSE "running"]

HasNoView(p) ==
    \/ pc[p] = "list" /\ attempt[p] = 0 /\ unlisted[p] = Flag
    \/ pc[p] \in {"failed", "crashed"}

View ==
    [p \in Proc |->
        IF HasNoView(p) THEN "none" ELSE IF dirty[p] THEN "stale" ELSE "fresh"]

Promise == INSTANCE LFReconcile WITH
    heldP <- awsP, heldG <- awsG, want <- Want, status <- Status, view <- View
Reconciles == Promise!Spec
==============================================================================
