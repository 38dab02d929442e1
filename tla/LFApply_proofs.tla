---------------------------- MODULE LFApply_proofs ----------------------------
(***************************************************************************)
(* Theorems about LFApply, for every set of permissions, every number of   *)
(* callers, retries and outside changes.                                   *)
(***************************************************************************)
EXTENDS LFApply, TLAPS

------------------------------------------------------------------------------
(* The inductive invariant.  Its control part says what is known in each   *)
(* phase whatever others do; its data part says what AWS holds in each     *)
(* phase while nobody else has changed it since the last list began.       *)
DiffPhase == {"revoke", "keep", "grant"}

ControlInv(p) ==
    /\ pc[p] = "list" => curP[p] \subseteq Flag \ unlisted[p] /\ curG[p] \subseteq curP[p]
    /\ pc[p] = "backoff" => attempt[p] < MaxRetries
    /\ pc[p] \in DiffPhase =>
          /\ ALL \notin plan[p].P
          /\ curP[p] \subseteq Flag
          /\ curG[p] \subseteq curP[p]
    /\ pc[p] = "grant" => regrant[p] \subseteq plan[p].P

Kept(p) == curP[p] \cap plan[p].P

HeldInv(p) ==
    /\ pc[p] = "list" => curP[p] = awsP \ unlisted[p] /\ curG[p] = awsG \ unlisted[p]
    /\ pc[p] = "allRevoke" => awsP = Full(curP[p]) /\ awsG = Full(curG[p])
    /\ pc[p] = "allGrant" => awsP = {} /\ awsG = {}
    /\ pc[p] = "revoke" => awsP = curP[p] /\ awsG = curG[p]
    /\ pc[p] = "keep" => awsP = Kept(p) /\ awsG = curG[p] \cap plan[p].P
    /\ pc[p] = "grant" =>
          \/ /\ regrant[p] = KeepRevokeG(p)
             /\ awsP = Kept(p) \ KeepRevokeG(p)
             /\ awsG = curG[p] \cap plan[p].G
          \/ /\ regrant[p] = {}
             /\ awsP = Kept(p)
             /\ awsG = curG[p] \cap plan[p].P
             /\ (KeepRevokeG(p) \cap awsG) \cap Pinned # {}
    /\ pc[p] = "ok" => Reached(plan[p])

CallerInv(p) == ControlInv(p) /\ (dirty[p] \/ HeldInv(p))

IndInv == TypeOK /\ \A p \in Proc : CallerInv(p)
------------------------------------------------------------------------------
(* A plan that passed validation grants on only what it grants, even when  *)
(* ALL is written for every permission, and names no set that a list would *)
(* show as ALL.                                                            *)
LEMMA PlanFacts ==
    ASSUME NEW w \in Plans
    PROVE  /\ w.P \in Perms /\ w.G \in Perms
           /\ Full(w.P) \subseteq Flag
           /\ Full(w.G) \subseteq Full(w.P)
           /\ ALL \in w.G => ALL \in w.P
           /\ ALL \notin w.P => w.P \subseteq Flag /\ w.G \subseteq w.P
  <1>1. w.P \in Perms /\ w.G \in Perms /\ w.P # Nil /\ w.G # Nil
    BY NilAssumption DEF Plans, Perms
  <1>2. CheckPerms(w.P, Flag) /\ CheckPerms(w.G, Flag) /\ CheckSupersetPerms(w.P, w.G)
    BY DEF Plans, ValidPair
  <1>3. ALL \in w.P \/ w.G \subseteq w.P
    BY <1>1, <1>2, FlagAssumption
    DEF CheckSupersetPerms, CheckPerms, PermsToAPI, Perms
  <1> QED BY <1>1, <1>2, <1>3, FlagAssumption DEF CheckPerms, Full, Expand, Perms

(* A list shows ALL exactly when everything is held, and otherwise what is *)
(* held.                                                                   *)
LEMMA ListFacts ==
    ASSUME NEW S \in SUBSET Flag
    PROVE  LET C == CollapseImplicitAll(S, Flag)
           IN  /\ C \in Perms
               /\ Full(C) = S
               /\ C = {} <=> S = {}
               /\ ALL \notin C => C = S
  BY FlagAssumption DEF CollapseImplicitAll, Full, Expand, Perms

(* What a revoke leaves behind.  Nothing is ever added; when the whole     *)
(* request is held, success means that all of it is gone, and the answer   *)
(* SUPER_USER that nothing is.                                             *)
LEMMA RevokeEffect ==
    ASSUME awsP \in SUBSET Flag, awsG \in SUBSET awsP,
           NEW P \in Perms, NEW G \in Perms, NEW err, RevokeLFPerms(P, G, err)
    PROVE  /\ awsP' \subseteq awsP /\ awsG' \subseteq awsG /\ awsG' \subseteq awsP'
           /\ Full(P) \subseteq awsP /\ Full(G) \subseteq awsG =>
                /\ err = "ok" => awsP' = awsP \ Full(P) /\ awsG' = awsG \ (Full(G) \cup Full(P))
                /\ err = "superuser" =>
                      UNCHANGED aws /\ Full(G) \cap awsG \cap Pinned # {}
  <1>1. CASE P = {} /\ G = {}
    BY <1>1 DEF RevokeLFPerms, Full, Expand, aws
  <1>2. CASE ~(P = {} /\ G = {})
    <2>1. PICK reply \in Errors \cup {"ok", "noperms", "superuser"} :
             /\ ServiceRevoke(P, G, reply)
             /\ err = IF reply = "noperms" THEN "ok" ELSE reply
      BY <1>2 DEF RevokeLFPerms
    <2>2. \/ UNCHANGED aws
          \/ Remove(Full(P), Full(G))
      BY <2>1 DEF ServiceRevoke
    <2>3. awsP' \subseteq awsP /\ awsG' \subseteq awsG /\ awsG' \subseteq awsP'
      BY <2>2 DEF Remove, aws
    <2>4. ASSUME Full(P) \subseteq awsP, Full(G) \subseteq awsG, err = "ok"
          PROVE  Remove(Full(P), Full(G))
      BY <2>1, <2>4 DEF ServiceRevoke, Errors
    <2>5. ASSUME err = "superuser"
          PROVE  UNCHANGED aws /\ Full(G) \cap awsG \cap Pinned # {}
      BY <2>1, <2>5 DEF ServiceRevoke, Errors
    <2> QED BY <2>3, <2>4, <2>5 DEF Remove
  <1> QED BY <1>1, <1>2

(* What a grant leaves behind: a grant option brings its permission.       *)
LEMMA GrantEffect ==
    ASSUME awsP \in SUBSET Flag, awsG \in SUBSET awsP,
           NEW P \in Perms, NEW G \in Perms, NEW err, GrantLFPerms(P, G, err)
    PROVE  /\ awsP' \subseteq awsP \cup Full(P) \cup Full(G)
           /\ awsG' \subseteq awsG \cup Full(G)
           /\ awsP' \in SUBSET Flag /\ awsG' \in SUBSET awsP'
           /\ err = "ok" => /\ awsP' = awsP \cup Full(P) \cup Full(G)
                            /\ awsG' = awsG \cup Full(G)
  <1>1. CASE P = {} /\ G = {}
    BY <1>1 DEF GrantLFPerms, Full, Expand, aws
  <1>2. CASE ~(P = {} /\ G = {})
    <2>1. ServiceGrant(P \cup G, G, err)
      BY <1>2 DEF GrantLFPerms
    <2>2. /\ Full(P) \subseteq Flag /\ Full(G) \subseteq Flag
          /\ Full(P \cup G) = Full(P) \cup Full(G)
      BY FlagAssumption DEF Full, Expand, Perms
    <2> QED BY <2>1, <2>2 DEF ServiceGrant, Add, Errors, aws
  <1> QED BY <1>1, <1>2

------------------------------------------------------------------------------
(* A step of somebody else leaves a caller's part of the invariant alone:  *)
(* it either leaves AWS alone or makes the caller's list out of date.      *)
LEMMA Frame ==
    ASSUME NEW q \in Proc, CallerInv(q),
           plan'[q] = plan[q], pc'[q] = pc[q], attempt'[q] = attempt[q],
           curP'[q] = curP[q], curG'[q] = curG[q], unlisted'[q] = unlisted[q],
           regrant'[q] = regrant[q],
           dirty'[q] \/ (~dirty[q] /\ UNCHANGED aws)
    PROVE  CallerInv(q)'
  <1>1. ControlInv(q)'
    BY DEF CallerInv, ControlInv
  <1>2. ASSUME ~dirty[q], UNCHANGED aws
        PROVE  HeldInv(q)'
    BY <1>2 DEF CallerInv, HeldInv, aws, Kept, KeepRevokeG, RevokeG, Reached, Full, Expand
  <1> QED BY <1>1, <1>2 DEF CallerInv

(* A caller's own calls never make its own list out of date.               *)
LEMMA WitnessEffect ==
    ASSUME TypeOK, NEW by, Witness(by)
    PROVE  /\ dirty' \in [Proc -> BOOLEAN] /\ tainted' \in [Proc -> BOOLEAN]
           /\ \A q \in Proc : q \in by => dirty'[q] = dirty[q]
           /\ \A q \in Proc : q \notin by => dirty'[q] \/ (~dirty[q] /\ UNCHANGED aws)
  BY DEF TypeOK, Witness, Outdates

LEMMA InitIndInv == Init => IndInv
  <1> SUFFICES ASSUME Init PROVE IndInv
    OBVIOUS
  <1>1. TypeOK
    BY RetriesAssumption DEF Init, TypeOK, Phase, Perms, Pair
  <1>2. \A p \in Proc : CallerInv(p)
    BY DEF Init, CallerInv, ControlInv, HeldInv, DiffPhase
  <1> QED BY <1>1, <1>2 DEF IndInv

(* What a caller has gathered: permissions of the pages it has listed, and *)
(* all that are held of them if nobody else changed any since the first.   *)
LEMMA GatheredFacts ==
    ASSUME IndInv, NEW p \in Proc, pc[p] = "list", NEW page \in SUBSET unlisted[p]
    PROVE  LET all == Gathered(p, page)
               left == unlisted[p] \ page
           IN  /\ all.P \subseteq Flag \ left /\ all.G \subseteq all.P
               /\ ~dirty[p] \/ unlisted[p] = Flag =>
                     all.P = awsP \ left /\ all.G = awsG \ left
  <1>1. /\ curP[p] \subseteq Flag \ unlisted[p] /\ curG[p] \subseteq curP[p]
        /\ ~dirty[p] => curP[p] = awsP \ unlisted[p] /\ curG[p] = awsG \ unlisted[p]
    BY DEF IndInv, CallerInv, ControlInv, HeldInv
  <1>2. awsP \in SUBSET Flag /\ awsG \in SUBSET awsP /\ unlisted[p] \in SUBSET Flag
    BY DEF IndInv, TypeOK
  <1> QED BY <1>1, <1>2 DEF Gathered

(* What a page changes besides: only the first one makes a view fresh.     *)
LEMMA ListEffect ==
    ASSUME TypeOK, NEW p \in Proc, BeginsToList(p)
    PROVE  /\ base' \in [Proc -> Pair]
           /\ dirty' \in [Proc -> BOOLEAN] /\ tainted' \in [Proc -> BOOLEAN]
           /\ \A q \in Proc : q # p => dirty'[q] = dirty[q]
           /\ ~dirty'[p] => ~dirty[p] \/ unlisted[p] = Flag
  <1>1. [P |-> awsP, G |-> awsG] \in Pair
    BY DEF TypeOK, Pair
  <1> QED BY <1>1 DEF BeginsToList, TypeOK, history

LEMMA ListPageStep ==
    ASSUME IndInv, NEW p \in Proc, ListPage(p)
    PROVE  IndInv'
  <1>1. PICK page \in SUBSET unlisted[p] :
           /\ curP' = [curP EXCEPT ![p] = Gathered(p, page).P]
           /\ curG' = [curG EXCEPT ![p] = Gathered(p, page).G]
           /\ unlisted' = [unlisted EXCEPT ![p] = @ \ page]
    BY DEF ListPage
  <1>2. /\ pc[p] = "list" /\ BeginsToList(p)
        /\ UNCHANGED <<aws, disturbed, plan, pc, attempt, regrant>>
    BY DEF ListPage
  <1> DEFINE all == Gathered(p, page)
             left == unlisted[p] \ page
  <1>3. /\ all.P \subseteq Flag \ left /\ all.G \subseteq all.P
        /\ ~dirty[p] \/ unlisted[p] = Flag => all.P = awsP \ left /\ all.G = awsG \ left
    BY <1>2, GatheredFacts
  <1>4. curP'[p] = all.P /\ curG'[p] = all.G /\ unlisted'[p] = left
    BY <1>1 DEF IndInv, TypeOK
  <1> HIDE DEF all
  <1>5. TypeOK'
    <2>1. all.P \in Perms /\ all.G \in Perms /\ left \in SUBSET Flag
      BY <1>3 DEF Perms, IndInv, TypeOK
    <2> QED BY <1>1, <1>2, <2>1, ListEffect DEF IndInv, TypeOK, aws, all
  <1>6. ASSUME NEW q \in Proc PROVE CallerInv(q)'
    <2>1. CASE q # p
      <3>1. curP'[q] = curP[q] /\ curG'[q] = curG[q] /\ unlisted'[q] = unlisted[q]
        BY <1>1, <2>1 DEF IndInv, TypeOK
      <3>2. dirty'[q] \/ (~dirty[q] /\ UNCHANGED aws)
        BY <1>2, <2>1, ListEffect DEF IndInv, TypeOK
      <3> QED BY <1>2, <3>1, <3>2, Frame DEF IndInv
    <2>2. CASE q = p
      <3>1. ControlInv(p)'
        BY <1>2, <1>3, <1>4 DEF ControlInv, DiffPhase
      <3>2. dirty'[p] \/ HeldInv(p)'
        BY <1>2, <1>3, <1>4, ListEffect DEF IndInv, HeldInv, aws
      <3> QED BY <2>2, <3>1, <3>2 DEF CallerInv
    <2> QED BY <2>1, <2>2
  <1> QED BY <1>5, <1>6 DEF IndInv

LEMMA ListStep ==
    ASSUME IndInv, NEW p \in Proc, List(p)
    PROVE  IndInv'
  <1> DEFINE all == Gathered(p, unlisted[p])
             P == CollapseImplicitAll(all.P, Flag)
             G == CollapseImplicitAll(all.G, Flag)
  <1>1. /\ all.P \in SUBSET Flag /\ all.G \in SUBSET all.P
        /\ ~dirty[p] \/ unlisted[p] = Flag => all.P = awsP /\ all.G = awsG
    <2> DEFINE left == unlisted[p] \ unlisted[p]
    <2>1. pc[p] = "list" /\ unlisted[p] \in SUBSET unlisted[p] /\ left = {}
      BY DEF List
    <2>2. /\ all.P \subseteq Flag \ left /\ all.G \subseteq all.P
          /\ ~dirty[p] \/ unlisted[p] = Flag =>
                all.P = awsP \ left /\ all.G = awsG \ left
      BY <2>1, GatheredFacts
    <2> HIDE DEF all, left
    <2> QED BY <2>1, <2>2
  <1>2. /\ P \in Perms /\ Full(P) = all.P /\ (P = {} <=> all.P = {}) /\ (ALL \notin P => P = all.P)
        /\ G \in Perms /\ Full(G) = all.G
    BY <1>1, ListFacts
  <1>3. ALL \notin P => G = all.G
    BY <1>1, FlagAssumption DEF CollapseImplicitAll
  <1>4. plan[p] \in Plans
    BY DEF IndInv, TypeOK
  <1> HIDE DEF all, P, G
  <1>5. /\ pc[p] = "list" /\ curP' = [curP EXCEPT ![p] = P] /\ curG' = [curG EXCEPT ![p] = G]
        /\ pc' = [pc EXCEPT ![p] = AfterList(P, plan[p].P)]
        /\ unlisted' = [unlisted EXCEPT ![p] = {}]
        /\ regrant' = [regrant EXCEPT ![p] = {}]
        /\ BeginsToList(p)
        /\ UNCHANGED <<aws, disturbed, plan, attempt>>
    BY DEF List, Goto, all, P, G
  <1>6. TypeOK'
    <2>1. pc' \in [Proc -> Phase]
      BY <1>5 DEF IndInv, TypeOK, Phase, Ended, AfterList
    <2> QED BY <1>2, <1>5, <2>1, ListEffect DEF IndInv, TypeOK, aws, Perms
  <1>7. ASSUME NEW q \in Proc PROVE CallerInv(q)'
    <2>1. CASE q # p
      <3>1. /\ curP'[q] = curP[q] /\ curG'[q] = curG[q] /\ unlisted'[q] = unlisted[q]
            /\ pc'[q] = pc[q] /\ regrant'[q] = regrant[q]
        BY <1>5, <2>1 DEF IndInv, TypeOK
      <3>2. dirty'[q] \/ (~dirty[q] /\ UNCHANGED aws)
        BY <1>5, <2>1, ListEffect DEF IndInv, TypeOK
      <3> QED BY <1>5, <3>1, <3>2, Frame DEF IndInv
    <2>2. CASE q = p
      <3>0. ~dirty'[p] => all.P = awsP /\ all.G = awsG
        BY <1>1, <1>5, ListEffect DEF IndInv
      <3>1. CASE P = {} /\ plan[p].P = {}
        <4>1. pc'[p] = "ok" /\ all.P = {} /\ all.G = {}
          BY <1>1, <1>2, <1>5, <3>1 DEF IndInv, TypeOK, AfterList
        <4>2. Full(plan[p].P) = {} /\ Full(plan[p].G) = {}
          BY <1>4, <3>1, PlanFacts DEF Full, Expand
        <4> QED BY <1>5, <2>2, <3>0, <4>1, <4>2
                DEF CallerInv, ControlInv, HeldInv, DiffPhase, Reached, aws, Full
      <3>2. CASE ~(P = {} /\ plan[p].P = {}) /\ AllPath(P, plan[p].P)
        <4>1. pc'[p] = "allRevoke" /\ curP'[p] = P /\ curG'[p] = G
          BY <1>5, <3>2 DEF IndInv, TypeOK, AfterList
        <4> QED BY <1>2, <1>5, <2>2, <3>0, <4>1
                DEF CallerInv, ControlInv, HeldInv, DiffPhase, aws, Full
      <3>3. CASE ~(P = {} /\ plan[p].P = {}) /\ ~AllPath(P, plan[p].P)
        <4>1. pc'[p] = "revoke" /\ curP'[p] = P /\ curG'[p] = G
          BY <1>5, <3>3 DEF IndInv, TypeOK, AfterList
        <4> QED BY <1>1, <1>2, <1>3, <1>5, <2>2, <3>0, <3>3, <4>1
                DEF CallerInv, ControlInv, HeldInv, DiffPhase, aws, AllPath
      <3> QED BY <3>1, <3>2, <3>3
    <2> QED BY <2>1, <2>2
  <1> QED BY <1>6, <1>7 DEF IndInv

(* What all calls to the service have in common: only the caller's phase   *)
(* and regrant move, and the rest follows once its own part is shown.      *)
LEMMA CallStep ==
    ASSUME IndInv, NEW p \in Proc, Witness({p}), UNCHANGED <<disturbed, Local>>,
           awsP' \in SUBSET Flag, awsG' \in SUBSET awsP',
           NEW phase \in Phase, Goto(p, phase),
           NEW again \in Perms, regrant' = [regrant EXCEPT ![p] = again],
           CallerInv(p)'
    PROVE  IndInv'
  <1>1. TypeOK'
    <2>1. dirty' \in [Proc -> BOOLEAN] /\ tainted' \in [Proc -> BOOLEAN]
      BY WitnessEffect DEF IndInv
    <2> QED BY <2>1 DEF IndInv, TypeOK, Local, Goto
  <1>2. ASSUME NEW q \in Proc, q # p PROVE CallerInv(q)'
    <2>1. dirty'[q] \/ (~dirty[q] /\ UNCHANGED aws)
      BY <1>2, WitnessEffect DEF IndInv
    <2>2. pc'[q] = pc[q] /\ regrant'[q] = regrant[q]
      BY <1>2 DEF IndInv, TypeOK, Goto
    <2> QED BY <2>1, <2>2, Frame DEF IndInv, Local
  <1> QED BY <1>1, <1>2 DEF IndInv

(* After a call that failed nothing is claimed about AWS any more, and     *)
(* there is another attempt only while attempts are left.                  *)
LEMMA ErrorReturn ==
    ASSUME IndInv, NEW p \in Proc, NEW err, err # "ok",
           Return(p, err), UNCHANGED Local
    PROVE  CallerInv(p)'
  <1>1. pc'[p] \in {"backoff", "failed"} /\ (pc'[p] = "backoff" => attempt[p] < MaxRetries)
    BY DEF Return, Goto, AfterDiff, IndInv, TypeOK
  <1> QED BY <1>1 DEF CallerInv, ControlInv, HeldInv, DiffPhase, Local

LEMMA AfterDiffPhase ==
    ASSUME NEW err, NEW n PROVE AfterDiff(err, n) \in Phase
  BY DEF AfterDiff, Phase, Ended

LEMMA AllRevokeStep ==
    ASSUME IndInv, NEW p \in Proc, AllRevoke(p)
    PROVE  IndInv'
  <1>1. PICK err \in Errors \cup {"ok", "superuser"} :
           RevokeLFPerms(curP[p], curG[p], err) /\ ReturnOr(p, err, "allGrant")
    BY DEF AllRevoke
  <1>2. /\ pc[p] = "allRevoke" /\ Witness({p}) /\ UNCHANGED <<disturbed, Local, regrant>>
        /\ curP[p] \in Perms /\ curG[p] \in Perms /\ plan[p] \in Plans
        /\ awsP \in SUBSET Flag /\ awsG \in SUBSET awsP
        /\ regrant[p] \in Perms /\ regrant' = [regrant EXCEPT ![p] = regrant[p]]
    BY DEF AllRevoke, IndInv, TypeOK
  <1>3. awsP' \in SUBSET Flag /\ awsG' \in SUBSET awsP'
    BY <1>1, <1>2, RevokeEffect
  <1>4. CASE err = "ok"
    <2>1. Goto(p, "allGrant") /\ pc'[p] = "allGrant"
      BY <1>1, <1>4 DEF ReturnOr, Goto, IndInv, TypeOK
    <2>2. ASSUME ~dirty'[p] PROVE awsP' = {} /\ awsG' = {}
      <3>1. awsP = Full(curP[p]) /\ awsG = Full(curG[p])
        BY <1>2, <2>2, WitnessEffect DEF IndInv, CallerInv, HeldInv
      <3> QED BY <1>1, <1>2, <1>4, <3>1, RevokeEffect
    <2>3. CallerInv(p)'
      BY <2>1, <2>2 DEF CallerInv, ControlInv, HeldInv, DiffPhase
    <2>4. "allGrant" \in Phase
      BY DEF Phase
    <2> QED BY <1>2, <1>3, <2>1, <2>3, <2>4, CallStep
  <1>5. CASE err # "ok"
    <2>1. Return(p, err) /\ Goto(p, AfterDiff(err, attempt[p]))
      BY <1>1, <1>5 DEF ReturnOr, Return
    <2> QED BY <1>2, <1>3, <1>5, <2>1, ErrorReturn, AfterDiffPhase, CallStep
  <1> QED BY <1>4, <1>5

LEMMA AllGrantStep ==
    ASSUME IndInv, NEW p \in Proc, AllGrant(p)
    PROVE  IndInv'
  <1>1. PICK err \in Errors \cup {"ok"} :
           GrantLFPerms(plan[p].P, plan[p].G, err) /\ Return(p, err)
    BY DEF AllGrant
  <1>2. /\ pc[p] = "allGrant" /\ Witness({p}) /\ UNCHANGED <<disturbed, Local, regrant>>
        /\ plan[p] \in Plans
        /\ awsP \in SUBSET Flag /\ awsG \in SUBSET awsP
        /\ regrant[p] \in Perms /\ regrant' = [regrant EXCEPT ![p] = regrant[p]]
    BY DEF AllGrant, IndInv, TypeOK
  <1>3. plan[p].P \in Perms /\ plan[p].G \in Perms /\ Full(plan[p].G) \subseteq Full(plan[p].P)
    BY <1>2, PlanFacts
  <1>4. /\ awsP' \in SUBSET Flag /\ awsG' \in SUBSET awsP'
        /\ err = "ok" => /\ awsP' = awsP \cup Full(plan[p].P) \cup Full(plan[p].G)
                         /\ awsG' = awsG \cup Full(plan[p].G)
    BY <1>1, <1>2, <1>3, GrantEffect
  <1>5. CASE err = "ok"
    <2>1. pc'[p] = "ok"
      BY <1>1, <1>5 DEF Return, AfterDiff, Goto, IndInv, TypeOK
    <2>2. ASSUME ~dirty'[p] PROVE Reached(plan[p])'
      <3>1. awsP = {} /\ awsG = {}
        BY <1>2, <2>2, WitnessEffect DEF IndInv, CallerInv, HeldInv
      <3>2. awsP' = Full(plan[p].P) /\ awsG' = Full(plan[p].G)
        BY <1>3, <1>4, <1>5, <3>1
      <3>3. plan' = plan
        BY <1>2 DEF Local
      <3> QED BY <3>2, <3>3 DEF Reached
    <2>3. CallerInv(p)'
      BY <2>1, <2>2 DEF CallerInv, ControlInv, HeldInv, DiffPhase
    <2> QED BY <1>1, <1>2, <1>4, <2>3, AfterDiffPhase, CallStep DEF Return
  <1>6. CASE err # "ok"
    BY <1>1, <1>2, <1>4, <1>6, ErrorReturn, AfterDiffPhase, CallStep DEF Return
  <1> QED BY <1>5, <1>6

(* What is known of a caller that follows the diff.                        *)
LEMMA DiffFacts ==
    ASSUME IndInv, NEW p \in Proc, pc[p] \in DiffPhase
    PROVE  /\ awsP \in SUBSET Flag /\ awsG \in SUBSET awsP
           /\ regrant[p] \in Perms
           /\ plan[p].P \subseteq Flag /\ plan[p].G \subseteq plan[p].P
           /\ curP[p] \subseteq Flag /\ curG[p] \subseteq curP[p]
           /\ pc[p] = "grant" => regrant[p] \subseteq plan[p].P
  <1>1. ALL \notin plan[p].P /\ curP[p] \subseteq Flag /\ curG[p] \subseteq curP[p]
        /\ (pc[p] = "grant" => regrant[p] \subseteq plan[p].P)
    BY DEF IndInv, CallerInv, ControlInv
  <1>2. plan[p] \in Plans /\ awsP \in SUBSET Flag /\ awsG \in SUBSET awsP
        /\ regrant[p] \in Perms
    BY DEF IndInv, TypeOK
  <1> QED BY <1>1, <1>2, PlanFacts

LEMMA NoALL ==
    ASSUME NEW S \in SUBSET Flag PROVE S \in Perms /\ Full(S) = S
  BY FlagAssumption DEF Full, Expand, Perms

LEMMA RevokeRemovedStep ==
    ASSUME IndInv, NEW p \in Proc, RevokeRemoved(p)
    PROVE  IndInv'
  <1>1. PICK err \in Errors \cup {"ok", "superuser"} :
           RevokeLFPerms(RevokeOnlyP(p), RevokeOnlyG(p), err) /\ ReturnOr(p, err, "keep")
    BY DEF RevokeRemoved
  <1>2. pc[p] = "revoke" /\ Witness({p}) /\ UNCHANGED <<disturbed, Local, regrant>>
    BY DEF RevokeRemoved
  <1>3. /\ awsP \in SUBSET Flag /\ awsG \in SUBSET awsP
        /\ regrant[p] \in Perms
        /\ plan[p].P \subseteq Flag /\ plan[p].G \subseteq plan[p].P
        /\ curP[p] \subseteq Flag /\ curG[p] \subseteq curP[p]
    BY <1>2, DiffFacts DEF DiffPhase
  <1>4. RevokeOnlyP(p) \in SUBSET Flag /\ RevokeOnlyG(p) \in SUBSET Flag
    BY <1>3 DEF RevokeOnlyP, RevokeOnlyG, RevokeG
  <1>10. /\ RevokeOnlyP(p) \in Perms /\ Full(RevokeOnlyP(p)) = RevokeOnlyP(p)
           /\ RevokeOnlyG(p) \in Perms /\ Full(RevokeOnlyG(p)) = RevokeOnlyG(p)
    BY <1>4, NoALL
  <1>5. /\ awsP' \in SUBSET Flag /\ awsG' \in SUBSET awsP'
        /\ RevokeOnlyP(p) \subseteq awsP /\ RevokeOnlyG(p) \subseteq awsG /\ err = "ok" =>
              /\ awsP' = awsP \ RevokeOnlyP(p)
              /\ awsG' = awsG \ (RevokeOnlyG(p) \cup RevokeOnlyP(p))
    BY <1>1, <1>3, <1>10, RevokeEffect
  <1>6. regrant' = [regrant EXCEPT ![p] = regrant[p]]
    BY <1>2 DEF IndInv, TypeOK
  <1>7. CASE err = "ok"
    <2>1. Goto(p, "keep") /\ pc'[p] = "keep"
      BY <1>1, <1>7 DEF ReturnOr, Goto, IndInv, TypeOK
    <2>2. plan' = plan /\ curP' = curP /\ curG' = curG
      BY <1>2 DEF Local
    <2>3. ASSUME ~dirty'[p]
          PROVE  awsP' = Kept(p) /\ awsG' = curG[p] \cap plan[p].P
      <3>1. awsP = curP[p] /\ awsG = curG[p]
        BY <1>2, <2>3, WitnessEffect DEF IndInv, CallerInv, HeldInv
      <3>2. RevokeOnlyP(p) \subseteq awsP /\ RevokeOnlyG(p) \subseteq awsG
        BY <3>1 DEF RevokeOnlyP, RevokeOnlyG, RevokeG
      <3>3. /\ awsP' = curP[p] \ RevokeOnlyP(p)
            /\ awsG' = curG[p] \ (RevokeOnlyG(p) \cup RevokeOnlyP(p))
        BY <1>5, <1>7, <3>1, <3>2
      <3> QED BY <1>3, <3>3 DEF Kept, RevokeOnlyP, RevokeOnlyG, RevokeG
    <2>4. ControlInv(p)'
      BY <1>2, <2>1, <2>2 DEF IndInv, CallerInv, ControlInv, DiffPhase
    <2>5. dirty'[p] \/ HeldInv(p)'
      BY <2>1, <2>2, <2>3 DEF HeldInv, Kept
    <2>6. "keep" \in Phase
      BY DEF Phase
    <2> QED BY <1>2, <1>3, <1>5, <1>6, <2>1, <2>4, <2>5, <2>6, CallStep DEF CallerInv
  <1>8. CASE err # "ok"
    <2>1. Return(p, err) /\ Goto(p, AfterDiff(err, attempt[p]))
      BY <1>1, <1>8 DEF ReturnOr, Return
    <2> QED BY <1>2, <1>3, <1>5, <1>6, <1>8, <2>1, ErrorReturn, AfterDiffPhase, CallStep
  <1> QED BY <1>7, <1>8

LEMMA RevokeKeptStep ==
    ASSUME IndInv, NEW p \in Proc, RevokeKept(p)
    PROVE  IndInv'
  <1> DEFINE K == KeepRevokeG(p)
  <1>1. PICK err \in Errors \cup {"ok", "superuser"} :
           /\ RevokeLFPerms(K, K, err)
           /\ regrant' = [regrant EXCEPT ![p] = IF err = "ok" THEN K ELSE {}]
           /\ IF err = "superuser" THEN Goto(p, "grant") ELSE ReturnOr(p, err, "grant")
    BY DEF RevokeKept
  <1>2. pc[p] = "keep" /\ Witness({p}) /\ UNCHANGED <<disturbed, Local>>
    BY DEF RevokeKept
  <1>3. /\ awsP \in SUBSET Flag /\ awsG \in SUBSET awsP
        /\ plan[p].P \subseteq Flag /\ plan[p].G \subseteq plan[p].P
        /\ curP[p] \subseteq Flag /\ curG[p] \subseteq curP[p]
    BY <1>2, DiffFacts DEF DiffPhase
  <1>4. K = (curG[p] \ plan[p].G) \cap plan[p].P /\ K \in SUBSET Flag
    BY <1>3 DEF KeepRevokeG, RevokeG
  <1> HIDE DEF K
  <1>5. /\ awsP' \in SUBSET Flag /\ awsG' \in SUBSET awsP'
        /\ K \subseteq awsP /\ K \subseteq awsG =>
              /\ err = "ok" => awsP' = awsP \ K /\ awsG' = awsG \ (K \cup K)
              /\ err = "superuser" => UNCHANGED aws /\ (K \cap awsG) \cap Pinned # {}
    BY <1>1, <1>3, <1>4, NoALL, RevokeEffect
  <1>6. plan' = plan /\ curP' = curP /\ curG' = curG
    BY <1>2 DEF Local
  <1>7. CASE err \in {"ok", "superuser"}
    <2> DEFINE again == IF err = "ok" THEN K ELSE {}
    <2>1. Goto(p, "grant") /\ pc'[p] = "grant" /\ regrant'[p] = again /\ again \subseteq plan[p].P
      BY <1>1, <1>4, <1>7 DEF ReturnOr, Goto, IndInv, TypeOK
    <2>2. ControlInv(p)'
      BY <1>2, <1>6, <2>1 DEF IndInv, CallerInv, ControlInv, DiffPhase
    <2>3. ASSUME ~dirty'[p]
          PROVE  \/ /\ again = K
                    /\ awsP' = Kept(p) \ K
                    /\ awsG' = curG[p] \cap plan[p].G
                 \/ /\ again = {}
                    /\ awsP' = Kept(p)
                    /\ awsG' = curG[p] \cap plan[p].P
                    /\ (K \cap awsG') \cap Pinned # {}
      <3>1. awsP = Kept(p) /\ awsG = curG[p] \cap plan[p].P
        BY <1>2, <2>3, WitnessEffect DEF IndInv, CallerInv, HeldInv
      <3>2. K \subseteq awsP /\ K \subseteq awsG
        BY <1>3, <1>4, <3>1 DEF Kept
      <3>3. CASE err = "ok"
        BY <1>3, <1>4, <1>5, <3>1, <3>2, <3>3
      <3>4. CASE err = "superuser"
        <4>1. awsP' = awsP /\ awsG' = awsG /\ (K \cap awsG) \cap Pinned # {}
          BY <1>5, <3>2, <3>4 DEF aws
        <4> QED BY <3>1, <3>4, <4>1
      <3> QED BY <1>7, <3>3, <3>4
    <2>4. dirty'[p] \/ HeldInv(p)'
      <3>1. KeepRevokeG(p)' = K /\ Kept(p)' = Kept(p)
        BY <1>6 DEF K, KeepRevokeG, RevokeG, Kept
      <3> QED BY <1>6, <2>1, <2>3, <3>1 DEF HeldInv
    <2>5. "grant" \in Phase /\ again \in Perms
      BY <1>4 DEF Phase, Perms
    <2> QED BY <1>1, <1>2, <1>5, <2>1, <2>2, <2>4, <2>5, CallStep DEF CallerInv
  <1>8. CASE err \notin {"ok", "superuser"}
    <2>1. Return(p, err) /\ Goto(p, AfterDiff(err, attempt[p]))
      BY <1>1, <1>8 DEF ReturnOr, Return
    <2>2. regrant' = [regrant EXCEPT ![p] = {}] /\ {} \in Perms
      BY <1>1, <1>8 DEF Perms
    <2> QED BY <1>2, <1>5, <1>8, <2>1, <2>2, ErrorReturn, AfterDiffPhase, CallStep
  <1> QED BY <1>7, <1>8

LEMMA GrantAddedStep ==
    ASSUME IndInv, NEW p \in Proc, GrantAdded(p)
    PROVE  IndInv'
  <1>1. PICK err \in Errors \cup {"ok"} :
           GrantLFPerms(GrantP(p), GrantG(p), err) /\ Return(p, err)
    BY DEF GrantAdded
  <1>2. pc[p] = "grant" /\ Witness({p}) /\ UNCHANGED <<disturbed, Local, regrant>>
    BY DEF GrantAdded
  <1>3. /\ awsP \in SUBSET Flag /\ awsG \in SUBSET awsP
        /\ regrant[p] \in Perms /\ regrant[p] \subseteq plan[p].P
        /\ plan[p].P \subseteq Flag /\ plan[p].G \subseteq plan[p].P
        /\ curP[p] \subseteq Flag /\ curG[p] \subseteq curP[p]
    BY <1>2, DiffFacts DEF DiffPhase
  <1>4. GrantP(p) \in SUBSET Flag /\ GrantG(p) \in SUBSET Flag
    BY <1>3 DEF GrantP, GrantG
  <1>5. /\ GrantP(p) \in Perms /\ Full(GrantP(p)) = GrantP(p)
        /\ GrantG(p) \in Perms /\ Full(GrantG(p)) = GrantG(p)
    BY <1>4, NoALL
  <1>6. /\ awsP' \in SUBSET Flag /\ awsG' \in SUBSET awsP'
        /\ err = "ok" => /\ awsP' = awsP \cup GrantP(p) \cup GrantG(p)
                         /\ awsG' = awsG \cup GrantG(p)
    BY <1>1, <1>3, <1>5, GrantEffect
  <1>7. regrant' = [regrant EXCEPT ![p] = regrant[p]]
    BY <1>2 DEF IndInv, TypeOK
  <1>8. CASE err = "ok"
    <2>1. pc'[p] = "ok"
      BY <1>1, <1>8 DEF Return, AfterDiff, Goto, IndInv, TypeOK
    <2>2. ASSUME ~dirty'[p] PROVE Reached(plan[p])'
      <3>1. \/ /\ regrant[p] = KeepRevokeG(p)
               /\ awsP = Kept(p) \ KeepRevokeG(p)
               /\ awsG = curG[p] \cap plan[p].G
            \/ /\ regrant[p] = {}
               /\ awsP = Kept(p)
               /\ awsG = curG[p] \cap plan[p].P
               /\ (KeepRevokeG(p) \cap awsG) \cap Pinned # {}
        BY <1>2, <2>2, WitnessEffect DEF IndInv, CallerInv, HeldInv
      <3>2. awsP' = plan[p].P
        BY <1>3, <1>6, <1>8, <3>1 DEF GrantP, GrantG, Kept, KeepRevokeG, RevokeG
      <3>3. plan[p].G \subseteq awsG'
            /\ (awsG' = plan[p].G \/ (awsG' \cap Pinned) \ plan[p].G # {})
        BY <1>3, <1>6, <1>8, <3>1 DEF GrantG, KeepRevokeG, RevokeG
      <3>4. Full(plan[p].P) = plan[p].P /\ Full(plan[p].G) = plan[p].G /\ plan' = plan
        BY <1>2, <1>3, NoALL DEF Local
      <3> QED BY <3>2, <3>3, <3>4 DEF Reached
    <2>3. CallerInv(p)'
      BY <2>1, <2>2 DEF CallerInv, ControlInv, HeldInv, DiffPhase
    <2> QED BY <1>1, <1>2, <1>3, <1>6, <1>7, <2>3, AfterDiffPhase, CallStep DEF Return
  <1>9. CASE err # "ok"
    BY <1>1, <1>2, <1>3, <1>6, <1>7, <1>9, ErrorReturn, AfterDiffPhase, CallStep DEF Return
  <1> QED BY <1>8, <1>9

(* A step that calls nobody and leaves the diff.                           *)
LEMMA QuietStep ==
    ASSUME IndInv, NEW p \in Proc,
           ListFails(p) \/ Retry(p) \/ Cancelled(p) \/ Crash(p)
    PROVE  IndInv'
  <1>1. UNCHANGED <<aws, disturbed, plan, regrant, base, dirty, tainted>>
    BY DEF ListFails, Retry, Cancelled, Crash, Local, history
  <1>2. PICK phase \in {"list", "failed", "crashed"} : Goto(p, phase)
    BY DEF ListFails, Retry, Cancelled, Crash
  <1>3. attempt' \in [Proc -> 0 .. MaxRetries]
        /\ \A q \in Proc : q # p => attempt'[q] = attempt[q]
    <2>1. CASE Retry(p)
      <3>1. attempt[p] \in 0 .. MaxRetries /\ attempt[p] < MaxRetries
        BY <2>1 DEF Retry, IndInv, TypeOK, CallerInv, ControlInv
      <3>2. attempt[p] + 1 \in 0 .. MaxRetries
        BY <3>1, RetriesAssumption
      <3> QED BY <2>1, <3>2 DEF Retry, IndInv, TypeOK
    <2>2. CASE ListFails(p) \/ Cancelled(p) \/ Crash(p)
      BY <2>2 DEF ListFails, Cancelled, Crash, Local, IndInv, TypeOK
    <2> QED BY <2>1, <2>2
  <1>6. \/ /\ Relist(p) /\ pc'[p] = "list"
        \/ /\ UNCHANGED <<curP, curG, unlisted>> /\ pc'[p] \in {"failed", "crashed"}
    BY <1>2 DEF ListFails, Retry, Cancelled, Crash, Local, Goto, IndInv, TypeOK
  <1>7. /\ curP' \in [Proc -> Perms] /\ curG' \in [Proc -> Perms]
        /\ unlisted' \in [Proc -> SUBSET Flag]
        /\ \A q \in Proc : q # p => /\ curP'[q] = curP[q] /\ curG'[q] = curG[q]
                                    /\ unlisted'[q] = unlisted[q]
    BY <1>6 DEF Relist, IndInv, TypeOK, Perms
  <1>4. TypeOK'
    BY <1>1, <1>2, <1>3, <1>7 DEF IndInv, TypeOK, Goto, Phase, Ended, aws
  <1>5. ASSUME NEW q \in Proc PROVE CallerInv(q)'
    <2>1. CASE q = p
      <3>1. CASE Relist(p) /\ pc'[p] = "list"
        <4>1. /\ curP'[p] = {} /\ curG'[p] = {} /\ unlisted'[p] = Flag
              /\ awsP' \in SUBSET Flag /\ awsG' \in SUBSET awsP'
          BY <1>4, <3>1 DEF Relist, IndInv, TypeOK
        <4> QED BY <2>1, <3>1, <4>1 DEF CallerInv, ControlInv, HeldInv, DiffPhase
      <3>2. CASE pc'[p] \in {"failed", "crashed"}
        BY <2>1, <3>2 DEF CallerInv, ControlInv, HeldInv, DiffPhase
      <3> QED BY <1>6, <3>1, <3>2
    <2>2. CASE q # p
      <3>1. pc'[q] = pc[q]
        BY <1>2, <2>2 DEF Goto, IndInv, TypeOK
      <3>2. dirty'[q] \/ (~dirty[q] /\ UNCHANGED aws)
        BY <1>1 DEF IndInv, TypeOK
      <3> QED BY <1>1, <1>3, <1>7, <2>2, <3>1, <3>2, Frame DEF IndInv
    <2> QED BY <2>1, <2>2
  <1> QED BY <1>4, <1>5 DEF IndInv

LEMMA DisturbStep ==
    ASSUME IndInv, Disturb
    PROVE  IndInv'
  <1>1. Witness({}) /\ UNCHANGED <<Local, pc, regrant>>
    BY DEF Disturb
  <1>2. dirty' \in [Proc -> BOOLEAN] /\ tainted' \in [Proc -> BOOLEAN]
        /\ \A q \in Proc : dirty'[q] \/ (~dirty[q] /\ UNCHANGED aws)
    BY <1>1, WitnessEffect DEF IndInv
  <1>3. disturbed' \in 0 .. MaxDisturb
    BY RetriesAssumption DEF Disturb, IndInv, TypeOK
  <1>4. TypeOK'
    BY <1>1, <1>2, <1>3 DEF Disturb, IndInv, TypeOK, Local
  <1>5. ASSUME NEW q \in Proc PROVE CallerInv(q)'
    BY <1>1, <1>2, Frame DEF IndInv, Local
  <1> QED BY <1>4, <1>5 DEF IndInv

LEMMA NextIndInv == IndInv /\ [Next]_vars => IndInv'
  <1> SUFFICES ASSUME IndInv, [Next]_vars PROVE IndInv'
    OBVIOUS
  <1>1. CASE Disturb
    BY <1>1, DisturbStep
  <1>2. ASSUME NEW p \in Proc, Step(p) \/ Crash(p)
        PROVE  IndInv'
    <2>1. CASE ListPage(p) \/ List(p)
      BY <2>1, ListPageStep, ListStep
    <2>2. CASE AllRevoke(p)
      BY <2>2, AllRevokeStep
    <2>3. CASE AllGrant(p)
      BY <2>3, AllGrantStep
    <2>4. CASE RevokeRemoved(p)
      BY <2>4, RevokeRemovedStep
    <2>5. CASE RevokeKept(p)
      BY <2>5, RevokeKeptStep
    <2>6. CASE GrantAdded(p)
      BY <2>6, GrantAddedStep
    <2>7. CASE ListFails(p) \/ Retry(p) \/ Cancelled(p) \/ Crash(p)
      BY <2>7, QuietStep
    <2> QED BY <1>2, <2>1, <2>2, <2>3, <2>4, <2>5, <2>6, <2>7 DEF Step
  <1>3. CASE UNCHANGED vars
    <2>1. TypeOK'
      BY <1>3 DEF IndInv, TypeOK, vars
    <2>2. ASSUME NEW q \in Proc PROVE CallerInv(q)'
      BY <1>3, Frame DEF IndInv, TypeOK, vars, aws
    <2> QED BY <2>1, <2>2 DEF IndInv
  <1> QED BY <1>1, <1>2, <1>3 DEF Next
------------------------------------------------------------------------------
(* The inductive invariant holds in every reachable state.                 *)
THEOREM Invariance == Spec => []IndInv
  <1> QED BY InitIndInv, NextIndInv, PTL DEF Spec

(* Type correctness: in particular the attempts counted by applyResource   *)
(* never exceed lfPermsMaxRetries.                                         *)
THEOREM TypeCorrect == Spec => []TypeOK
  <1>1. IndInv => TypeOK
    BY DEF IndInv
  <1> QED BY <1>1, Invariance, PTL

(* A successful applyResource leaves exactly the planned permissions at    *)
(* AWS, for every set of permissions, every plan, every starting point,    *)
(* any number of concurrent callers and any pattern of failing calls, as   *)
(* long as nobody else has changed them since it last began to list them.  *)
THEOREM SuccessConverges == Spec => []ConvergedOnSuccess
  <1>1. IndInv => ConvergedOnSuccess
    BY DEF IndInv, CallerInv, HeldInv, ConvergedOnSuccess
  <1> QED BY <1>1, Invariance, PTL

(* One step of a caller never adds what its plan does not name.            *)
LEMMA StepAddsOnlyPlanned ==
    ASSUME IndInv, NEW p \in Proc, Step(p)
    PROVE  /\ awsP' \ awsP \subseteq Full(plan[p].P)
           /\ awsG' \ awsG \subseteq Full(plan[p].G)
  <1>1. /\ awsP \in SUBSET Flag /\ awsG \in SUBSET awsP
        /\ curP[p] \in Perms /\ curG[p] \in Perms
        /\ plan[p] \in Plans
    BY DEF IndInv, TypeOK
  <1>2. /\ plan[p].P \in Perms /\ plan[p].G \in Perms
        /\ Full(plan[p].G) \subseteq Full(plan[p].P)
    BY <1>1, PlanFacts
  <1>3. CASE ListPage(p) \/ List(p) \/ ListFails(p) \/ Retry(p) \/ Cancelled(p)
    BY <1>3 DEF ListPage, List, ListFails, Retry, Cancelled, aws
  <1>4. CASE AllRevoke(p)
    <2>1. PICK err : RevokeLFPerms(curP[p], curG[p], err)
      BY <1>4 DEF AllRevoke
    <2>2. awsP' \subseteq awsP /\ awsG' \subseteq awsG
      BY <1>1, <2>1, RevokeEffect
    <2> QED BY <2>2
  <1>5. CASE AllGrant(p)
    <2>1. PICK err : GrantLFPerms(plan[p].P, plan[p].G, err)
      BY <1>5 DEF AllGrant
    <2>2. /\ awsP' \subseteq awsP \cup Full(plan[p].P) \cup Full(plan[p].G)
          /\ awsG' \subseteq awsG \cup Full(plan[p].G)
      BY <1>1, <1>2, <2>1, GrantEffect
    <2> QED BY <1>2, <2>2
  <1>6. CASE RevokeRemoved(p)
    <2>1. PICK err : RevokeLFPerms(RevokeOnlyP(p), RevokeOnlyG(p), err)
      BY <1>6 DEF RevokeRemoved
    <2>2. RevokeOnlyP(p) \in Perms /\ RevokeOnlyG(p) \in Perms
      BY <1>1 DEF RevokeOnlyP, RevokeOnlyG, RevokeG, Perms
    <2>3. awsP' \subseteq awsP /\ awsG' \subseteq awsG
      BY <1>1, <2>1, <2>2, RevokeEffect
    <2> QED BY <2>3
  <1>7. CASE RevokeKept(p)
    <2>1. PICK err : RevokeLFPerms(KeepRevokeG(p), KeepRevokeG(p), err)
      BY <1>7 DEF RevokeKept
    <2>2. KeepRevokeG(p) \in Perms
      BY <1>1 DEF KeepRevokeG, RevokeG, Perms
    <2>3. awsP' \subseteq awsP /\ awsG' \subseteq awsG
      BY <1>1, <2>1, <2>2, RevokeEffect
    <2> QED BY <2>3
  <1>8. CASE GrantAdded(p)
    <2>1. PICK err : GrantLFPerms(GrantP(p), GrantG(p), err)
      BY <1>8 DEF GrantAdded
    <2>2. /\ regrant[p] \subseteq plan[p].P
          /\ plan[p].P \subseteq Flag /\ plan[p].G \subseteq plan[p].P
      BY <1>8, DiffFacts DEF GrantAdded, DiffPhase
    <2>3. GrantP(p) \in SUBSET Flag /\ GrantG(p) \in SUBSET Flag
          /\ GrantP(p) \subseteq plan[p].P /\ GrantG(p) \subseteq plan[p].G
      BY <2>2 DEF GrantP, GrantG
    <2>4. /\ GrantP(p) \in Perms /\ Full(GrantP(p)) = GrantP(p)
          /\ GrantG(p) \in Perms /\ Full(GrantG(p)) = GrantG(p)
          /\ Full(plan[p].P) = plan[p].P /\ Full(plan[p].G) = plan[p].G
      BY <2>2, <2>3, NoALL
    <2>5. /\ awsP' \subseteq awsP \cup GrantP(p) \cup GrantG(p)
          /\ awsG' \subseteq awsG \cup GrantG(p)
      BY <1>1, <2>1, <2>4, GrantEffect
    <2> QED BY <2>2, <2>3, <2>4, <2>5
  <1> QED BY <1>3, <1>4, <1>5, <1>6, <1>7, <1>8 DEF Step

(* No caller ever gives the principal a permission or a grant option that  *)
(* its plan does not name, even when it works from a list that is out of   *)
(* date or repeats calls that had taken effect.                            *)
THEOREM NothingUnplanned == Spec => GrantsOnlyPlanned
  <1>1. IndInv /\ [Next]_vars =>
          [\A p \in Proc : Step(p) =>
              /\ awsP' \ awsP \subseteq Full(plan[p].P)
              /\ awsG' \ awsG \subseteq Full(plan[p].G)]_vars
    BY StepAddsOnlyPlanned
  <1> QED BY <1>1, Invariance, PTL DEF Spec, GrantsOnlyPlanned
------------------------------------------------------------------------------
(* Wherever applyResource stops, it has dropped nothing of the plan but    *)
(* what it was about to grant again.                                       *)
(* The inductive invariant on top of IndInv.  A caller that began with a   *)
(* diff stays with diffs in all its attempts: what is held never gets so   *)
(* large that a list would show it as ALL, and no grant option appears     *)
(* that was neither there at the start nor planned.                        *)
ByDiffs(p) == ~AllPath(CollapseImplicitAll(base[p].P, Flag), plan[p].P)

Begun(p) ==
    /\ pc[p] \notin Ended
    /\ pc[p] = "list" => attempt[p] > 0 \/ unlisted[p] # Flag

Regranted(p) == (base[p].G \ plan[p].G) \cap plan[p].P

Safe(p) ==
    /\ (base[p].P \cap plan[p].P) \ Regranted(p) \subseteq awsP
    /\ base[p].G \cap plan[p].G \subseteq awsG

Bounded(p) ==
    /\ awsP \subseteq base[p].P \/ awsP \subseteq plan[p].P
    /\ awsG \subseteq base[p].G \cup plan[p].G

KeptInv(p) ==
    ~tainted[p] =>
        /\ ~dirty[p]
        /\ ByDiffs(p) =>
              /\ Safe(p)
              /\ Begun(p) => Bounded(p) /\ pc[p] \notin {"allRevoke", "allGrant"}

AllKept == \A p \in Proc : KeptInv(p)
------------------------------------------------------------------------------
(* With a diff, no ALL is planned and there is a permission that is not.   *)
LEMMA DiffPlan ==
    ASSUME NEW w \in Plans, NEW b \in Pair, ~AllPath(CollapseImplicitAll(b.P, Flag), w.P)
    PROVE  /\ ALL \notin w.P /\ w.P \subseteq Flag /\ w.G \subseteq w.P
           /\ Full(w.P) = w.P /\ Full(w.G) = w.G
           /\ ~(Flag \subseteq w.P) /\ ~(Flag \subseteq b.P)
  <1>1. ALL \notin w.P /\ ~(Flag \subseteq b.P)
    BY FlagAssumption DEF AllPath, CollapseImplicitAll, Pair
  <1>2. w.P \subseteq Flag /\ w.G \subseteq w.P
    BY <1>1, PlanFacts
  <1>3. ~(Flag \subseteq w.P)
    <2>1. CheckPerms(w.P, Flag) /\ w.P # Nil
      BY NilAssumption DEF Plans, ValidPair, Perms
    <2> QED BY <1>1, <1>2, <2>1 DEF CheckPerms
  <1> QED BY <1>1, <1>2, <1>3, NoALL

(* A revoke takes effect or does not, whatever is answered.                *)
LEMMA RevokeShape ==
    ASSUME NEW P \in SUBSET Flag, NEW G \in SUBSET Flag, NEW err, RevokeLFPerms(P, G, err)
    PROVE  \/ UNCHANGED aws
           \/ awsP' = awsP \ P /\ awsG' = awsG \ (G \cup P)
  <1>1. Full(P) = P /\ Full(G) = G
    BY NoALL
  <1> QED BY <1>1 DEF RevokeLFPerms, ServiceRevoke, Remove

LEMMA InitKept == Init => AllKept
  BY DEF Init, AllKept, KeptInv, Safe, Begun, Ended

(* A step of somebody else spoils the comparison or leaves AWS alone.      *)
LEMMA OthersKeep ==
    ASSUME IndInv, NEW q \in Proc, KeptInv(q),
           plan'[q] = plan[q], pc'[q] = pc[q], attempt'[q] = attempt[q],
           unlisted'[q] = unlisted[q], base'[q] = base[q],
           tainted'[q] \/ (~tainted[q] /\ dirty'[q] = dirty[q] /\ UNCHANGED aws)
    PROVE  KeptInv(q)'
  BY DEF KeptInv, ByDiffs, AllPath, CollapseImplicitAll, Safe, Regranted, Begun, Bounded, aws

LEMMA WitnessKeeps ==
    ASSUME IndInv, NEW by, Witness(by), NEW q \in Proc
    PROVE  /\ q \in by => tainted'[q] = tainted[q] /\ dirty'[q] = dirty[q]
           /\ q \notin by =>
                 tainted'[q] \/ (~tainted[q] /\ dirty'[q] = dirty[q] /\ UNCHANGED aws)
  <1>1. /\ tainted'[q] = (tainted[q] \/ (q \notin by /\ aws' # aws))
        /\ dirty'[q] = (dirty[q] \/ (q \notin by /\ aws' # aws))
    BY DEF Witness, Outdates
  <1>2. tainted[q] \in BOOLEAN /\ dirty[q] \in BOOLEAN
    BY DEF IndInv, TypeOK
  <1> QED BY <1>1, <1>2

(* A caller's own call: what is left to show of it is that AWS still holds *)
(* what it has to and no more than it may.                                 *)
LEMMA OwnCall ==
    ASSUME IndInv, NEW p \in Proc, KeptInv(p), Witness({p}), UNCHANGED Local,
           Begun(p), pc'[p] \notin {"allRevoke", "allGrant", "list"},
           ~tainted[p] /\ ByDiffs(p) => Safe(p)' /\ Bounded(p)'
    PROVE  KeptInv(p)'
  <1>1. tainted'[p] = tainted[p] /\ dirty'[p] = dirty[p] /\ ByDiffs(p)' = ByDiffs(p)
    BY WitnessKeeps DEF Local, ByDiffs, AllPath, CollapseImplicitAll
  <1> QED BY <1>1 DEF KeptInv

(* What is known when a caller that follows the diff makes a call.         *)
LEMMA CallFacts ==
    ASSUME IndInv, NEW p \in Proc, KeptInv(p), pc[p] \in DiffPhase, ~tainted[p], ByDiffs(p)
    PROVE  /\ HeldInv(p) /\ Safe(p) /\ Bounded(p)
           /\ awsP \in SUBSET Flag /\ awsG \in SUBSET awsP
           /\ plan[p].P \subseteq Flag /\ plan[p].G \subseteq plan[p].P
           /\ curP[p] \subseteq Flag /\ curG[p] \subseteq curP[p]
           /\ pc[p] = "grant" => regrant[p] \subseteq plan[p].P
  <1>1. Begun(p) /\ ~dirty[p]
    BY DEF KeptInv, Begun, DiffPhase, Ended
  <1>2. HeldInv(p)
    BY <1>1 DEF IndInv, CallerInv
  <1>3. Safe(p) /\ Bounded(p)
    BY <1>1 DEF KeptInv
  <1> QED BY <1>2, <1>3, DiffFacts

LEMMA ReturnPhase ==
    ASSUME TypeOK, NEW p \in Proc, NEW err, NEW next,
           ReturnOr(p, err, next) \/ Return(p, err) \/ Goto(p, next)
    PROVE  pc'[p] \in {next, "ok", "backoff", "failed"}
  BY DEF ReturnOr, Return, Goto, AfterDiff, TypeOK

LEMMA RevokeRemovedKeeps ==
    ASSUME IndInv, NEW p \in Proc, KeptInv(p), RevokeRemoved(p)
    PROVE  KeptInv(p)'
  <1>1. PICK err \in Errors \cup {"ok", "superuser"} :
           RevokeLFPerms(RevokeOnlyP(p), RevokeOnlyG(p), err) /\ ReturnOr(p, err, "keep")
    BY DEF RevokeRemoved
  <1>2. pc[p] = "revoke" /\ Witness({p}) /\ UNCHANGED Local
    BY DEF RevokeRemoved
  <1>3. ASSUME ~tainted[p], ByDiffs(p)
        PROVE  Safe(p)' /\ Bounded(p)'
    <2>1. /\ Safe(p) /\ Bounded(p)
          /\ curP[p] \subseteq Flag /\ curG[p] \subseteq curP[p]
          /\ plan[p].G \subseteq plan[p].P
      BY <1>2, <1>3, CallFacts DEF DiffPhase
    <2>2. /\ RevokeOnlyP(p) \in SUBSET Flag /\ RevokeOnlyG(p) \in SUBSET Flag
          /\ RevokeOnlyP(p) \cap plan[p].P = {} /\ RevokeOnlyG(p) \cap plan[p].P = {}
      BY <2>1 DEF RevokeOnlyP, RevokeOnlyG, RevokeG
    <2>3. \/ UNCHANGED aws
          \/ /\ awsP' = awsP \ RevokeOnlyP(p)
             /\ awsG' = awsG \ (RevokeOnlyG(p) \cup RevokeOnlyP(p))
      BY <1>1, <2>2, RevokeShape
    <2>4. plan' = plan /\ base' = base
      BY <1>2 DEF Local
    <2> QED BY <2>1, <2>2, <2>3, <2>4 DEF Safe, Bounded, Regranted, aws
  <1>4. Begun(p) /\ pc'[p] \notin {"allRevoke", "allGrant", "list"}
    BY <1>1, <1>2, ReturnPhase DEF Begun, Ended, IndInv
  <1> QED BY <1>2, <1>3, <1>4, OwnCall

LEMMA RevokeKeptKeeps ==
    ASSUME IndInv, NEW p \in Proc, KeptInv(p), RevokeKept(p)
    PROVE  KeptInv(p)'
  <1> DEFINE K == KeepRevokeG(p)
  <1>1. PICK err \in Errors \cup {"ok", "superuser"} :
           /\ RevokeLFPerms(K, K, err)
           /\ IF err = "superuser" THEN Goto(p, "grant") ELSE ReturnOr(p, err, "grant")
    BY DEF RevokeKept
  <1>2. pc[p] = "keep" /\ Witness({p}) /\ UNCHANGED Local
    BY DEF RevokeKept
  <1>3. ASSUME ~tainted[p], ByDiffs(p)
        PROVE  Safe(p)' /\ Bounded(p)'
    <2>1. /\ HeldInv(p) /\ Safe(p) /\ Bounded(p)
          /\ curP[p] \subseteq Flag /\ curG[p] \subseteq curP[p]
          /\ plan[p].G \subseteq plan[p].P
      BY <1>2, <1>3, CallFacts DEF DiffPhase
    <2>2. K = (curG[p] \ plan[p].G) \cap plan[p].P /\ K \in SUBSET Flag
      BY <2>1 DEF KeepRevokeG, RevokeG
    <2>3. K \subseteq awsG
      BY <1>2, <2>1, <2>2 DEF HeldInv
    <2>4. K \subseteq Regranted(p) /\ K \cap plan[p].G = {}
      BY <2>1, <2>2, <2>3 DEF Bounded, Regranted
    <2> HIDE DEF K
    <2>5. UNCHANGED aws \/ (awsP' = awsP \ K /\ awsG' = awsG \ (K \cup K))
      BY <1>1, <2>2, RevokeShape
    <2>6. plan' = plan /\ base' = base
      BY <1>2 DEF Local
    <2> QED BY <2>1, <2>4, <2>5, <2>6 DEF Safe, Bounded, Regranted, aws
  <1>4. Begun(p) /\ pc'[p] \notin {"allRevoke", "allGrant", "list"}
    BY <1>1, <1>2, ReturnPhase DEF Begun, Ended, IndInv
  <1> QED BY <1>2, <1>3, <1>4, OwnCall

LEMMA GrantAddedKeeps ==
    ASSUME IndInv, NEW p \in Proc, KeptInv(p), GrantAdded(p)
    PROVE  KeptInv(p)'
  <1>1. PICK err \in Errors \cup {"ok"} :
           GrantLFPerms(GrantP(p), GrantG(p), err) /\ Return(p, err)
    BY DEF GrantAdded
  <1>2. pc[p] = "grant" /\ Witness({p}) /\ UNCHANGED Local
    BY DEF GrantAdded
  <1>3. ASSUME ~tainted[p], ByDiffs(p)
        PROVE  Safe(p)' /\ Bounded(p)'
    <2>1. /\ HeldInv(p) /\ Safe(p) /\ Bounded(p)
          /\ awsP \in SUBSET Flag /\ awsG \in SUBSET awsP
          /\ plan[p].P \subseteq Flag /\ plan[p].G \subseteq plan[p].P
          /\ regrant[p] \subseteq plan[p].P
      BY <1>2, <1>3, CallFacts DEF DiffPhase
    <2>2. awsP \subseteq plan[p].P
      BY <1>2, <2>1 DEF HeldInv, Kept
    <2>3. /\ GrantP(p) \in SUBSET Flag /\ GrantG(p) \in SUBSET Flag
          /\ GrantP(p) \subseteq plan[p].P /\ GrantG(p) \subseteq plan[p].G
      BY <2>1 DEF GrantP, GrantG
    <2>4. /\ awsP \subseteq awsP' /\ awsP' \subseteq awsP \cup GrantP(p) \cup GrantG(p)
          /\ awsG \subseteq awsG' /\ awsG' \subseteq awsG \cup GrantG(p)
      <3>1. /\ Full(GrantG(p)) = GrantG(p)
            /\ Full(GrantP(p) \cup GrantG(p)) = GrantP(p) \cup GrantG(p)
        BY <2>3, NoALL
      <3> QED BY <1>1, <3>1 DEF GrantLFPerms, ServiceGrant, Add, aws
    <2>5. plan' = plan /\ base' = base
      BY <1>2 DEF Local
    <2> QED BY <2>1, <2>2, <2>3, <2>4, <2>5 DEF Safe, Bounded, Regranted
  <1>4. Begun(p) /\ pc'[p] \notin {"allRevoke", "allGrant", "list"}
    BY <1>1, <1>2 DEF Return, Goto, AfterDiff, Begun, Ended, IndInv, TypeOK
  <1> QED BY <1>2, <1>3, <1>4, OwnCall

(* A caller that takes the ALL path had no diff to begin with.             *)
LEMMA AllKeeps ==
    ASSUME IndInv, NEW p \in Proc, KeptInv(p), AllRevoke(p) \/ AllGrant(p)
    PROVE  KeptInv(p)'
  <1>1. pc[p] \in {"allRevoke", "allGrant"} /\ Witness({p}) /\ UNCHANGED Local
    BY DEF AllRevoke, AllGrant
  <1>2. tainted[p] \/ ~ByDiffs(p)
    BY <1>1 DEF KeptInv, Begun, Ended
  <1>3. tainted'[p] = tainted[p] /\ dirty'[p] = dirty[p] /\ ByDiffs(p)' = ByDiffs(p)
    BY <1>1, WitnessKeeps DEF Local, ByDiffs, AllPath, CollapseImplicitAll
  <1> QED BY <1>2, <1>3 DEF KeptInv

LEMMA ListKeeps ==
    ASSUME IndInv, NEW p \in Proc, KeptInv(p), ListPage(p) \/ List(p)
    PROVE  KeptInv(p)'
  <1>1. pc[p] = "list" /\ BeginsToList(p) /\ UNCHANGED <<aws, plan, attempt>>
    BY DEF ListPage, List
  <1>2. ASSUME ~tainted'[p], ByDiffs(p)'
        PROVE  ~dirty'[p] /\ Safe(p)' /\ Bounded(p)'
    <2>1. CASE unlisted[p] = Flag /\ attempt[p] = 0
      <3>1. base'[p] = [P |-> awsP, G |-> awsG] /\ ~dirty'[p]
        BY <1>1, <2>1 DEF BeginsToList, IndInv, TypeOK
      <3> QED BY <1>1, <3>1 DEF Safe, Bounded, aws
    <2>2. CASE ~(unlisted[p] = Flag /\ attempt[p] = 0)
      <3>1. base' = base /\ tainted' = tainted /\ (~dirty[p] => ~dirty'[p])
        BY <1>1, <2>2 DEF BeginsToList, history, IndInv, TypeOK
      <3>2. Begun(p)
        BY <1>1, <2>2, RetriesAssumption DEF Begun, Ended, IndInv, TypeOK
      <3>3. ByDiffs(p)
        BY <1>1, <1>2, <3>1 DEF ByDiffs, AllPath, CollapseImplicitAll
      <3> QED BY <1>1, <1>2, <3>1, <3>2, <3>3 DEF KeptInv, Safe, Bounded, Regranted, aws
    <2> QED BY <2>1, <2>2
  <1>3. ASSUME ~tainted'[p], ByDiffs(p)'
        PROVE  pc'[p] \notin {"allRevoke", "allGrant"}
    <2>1. CASE ListPage(p)
      BY <2>1 DEF ListPage
    <2>2. CASE List(p)
      <3> DEFINE all == Gathered(p, unlisted[p])
      <3>1. all.P \subseteq Flag /\ (~dirty[p] \/ unlisted[p] = Flag => all.P = awsP)
        <4> DEFINE left == unlisted[p] \ unlisted[p]
        <4>1. left = {} /\ unlisted[p] \in SUBSET unlisted[p]
          OBVIOUS
        <4>2. /\ all.P \subseteq Flag \ left
              /\ ~dirty[p] \/ unlisted[p] = Flag => all.P = awsP \ left
          BY <1>1, <4>1, GatheredFacts
        <4> HIDE DEF all, left
        <4> QED BY <4>1, <4>2
      <3>2. all.P = awsP
        BY <1>1, <1>2, <1>3, <3>1, ListEffect DEF IndInv
      <3>3. TypeOK'
        BY <2>2, ListStep DEF IndInv
      <3>4. ~(Flag \subseteq awsP) /\ ALL \notin plan[p].P
        <4>1. /\ ALL \notin plan'[p].P
              /\ ~(Flag \subseteq plan'[p].P) /\ ~(Flag \subseteq base'[p].P)
          BY <1>3, <3>3, DiffPlan DEF ByDiffs, TypeOK
        <4>2. awsP \subseteq base'[p].P \/ awsP \subseteq plan'[p].P
          BY <1>1, <1>2, <1>3 DEF Bounded, aws
        <4> QED BY <1>1, <4>1, <4>2
      <3>5. ~AllPath(CollapseImplicitAll(all.P, Flag), plan[p].P)
        BY <3>2, <3>4, FlagAssumption DEF CollapseImplicitAll, AllPath, IndInv, TypeOK
      <3> QED BY <2>2, <3>5 DEF List, Goto, AfterList, IndInv, TypeOK
    <2> QED BY <2>1, <2>2
  <1>4. tainted'[p] \/ ~dirty'[p]
    <2>1. CASE unlisted[p] = Flag
      BY <1>1, <2>1 DEF BeginsToList, IndInv, TypeOK
    <2>2. CASE unlisted[p] # Flag
      BY <1>1, <2>2 DEF BeginsToList, history, KeptInv
    <2> QED BY <2>1, <2>2
  <1> QED BY <1>2, <1>3, <1>4 DEF KeptInv

LEMMA QuietKeeps ==
    ASSUME IndInv, NEW p \in Proc, KeptInv(p),
           ListFails(p) \/ Retry(p) \/ Cancelled(p) \/ Crash(p)
    PROVE  KeptInv(p)'
  <1>1. UNCHANGED <<aws, plan, base, dirty, tainted>>
    BY DEF ListFails, Retry, Cancelled, Crash, Local, history
  <1>2. ByDiffs(p)' = ByDiffs(p) /\ Safe(p)' = Safe(p) /\ Bounded(p)' = Bounded(p)
    BY <1>1 DEF ByDiffs, AllPath, CollapseImplicitAll, Safe, Bounded, Regranted, aws
  <1>3. CASE Retry(p)
    <2>1. Begun(p) /\ pc'[p] = "list"
      BY <1>3 DEF Retry, Goto, Begun, Ended, IndInv, TypeOK
    <2> QED BY <1>1, <1>2, <2>1 DEF KeptInv
  <1>4. CASE ListFails(p) \/ Cancelled(p) \/ Crash(p)
    <2>1. pc'[p] \in Ended
      BY <1>4 DEF ListFails, Cancelled, Crash, Goto, Ended, IndInv, TypeOK
    <2> QED BY <1>1, <1>2, <2>1 DEF KeptInv, Begun
  <1> QED BY <1>3, <1>4
------------------------------------------------------------------------------
(* A caller's step leaves the others' variables alone.                     *)
LEMMA StepOthers ==
    ASSUME IndInv, NEW p \in Proc, Step(p) \/ Crash(p), NEW q \in Proc, q # p
    PROVE  /\ plan'[q] = plan[q] /\ pc'[q] = pc[q] /\ attempt'[q] = attempt[q]
           /\ unlisted'[q] = unlisted[q] /\ base'[q] = base[q]
           /\ tainted'[q] \/ (~tainted[q] /\ dirty'[q] = dirty[q] /\ UNCHANGED aws)
  <1>1. CASE ListPage(p) \/ List(p)
    BY <1>1 DEF ListPage, List, BeginsToList, Goto, history, IndInv, TypeOK
  <1>2. CASE ListFails(p) \/ Retry(p) \/ Cancelled(p) \/ Crash(p)
    BY <1>2 DEF ListFails, Retry, Cancelled, Crash, Relist, Goto, Local, history, IndInv, TypeOK
  <1>3. CASE AllRevoke(p) \/ AllGrant(p) \/ RevokeRemoved(p) \/ RevokeKept(p) \/ GrantAdded(p)
    <2>1. Witness({p}) /\ UNCHANGED Local /\ \E phase : Goto(p, phase)
      BY <1>3 DEF AllRevoke, AllGrant, RevokeRemoved, RevokeKept, GrantAdded, ReturnOr, Return
    <2>2. tainted'[q] \/ (~tainted[q] /\ dirty'[q] = dirty[q] /\ UNCHANGED aws)
      BY <2>1, WitnessKeeps
    <2> QED BY <2>1, <2>2 DEF Local, Goto, IndInv, TypeOK
  <1> QED BY <1>1, <1>2, <1>3 DEF Step

LEMMA NextKept ==
    IndInv /\ AllKept /\ [Next]_vars => AllKept'
  <1> SUFFICES ASSUME IndInv, \A q \in Proc : KeptInv(q), [Next]_vars, NEW q \in Proc
               PROVE  KeptInv(q)'
    BY DEF AllKept
  <1>1. CASE Disturb
    <2>1. Witness({}) /\ UNCHANGED <<Local, pc>>
      BY <1>1 DEF Disturb
    <2>2. tainted'[q] \/ (~tainted[q] /\ dirty'[q] = dirty[q] /\ UNCHANGED aws)
      BY <2>1, WitnessKeeps
    <2> QED BY <2>1, <2>2, OthersKeep DEF Local
  <1>2. ASSUME NEW p \in Proc, Step(p) \/ Crash(p)
        PROVE  KeptInv(q)'
    <2>1. CASE q = p
      BY <1>2, <2>1, ListKeeps, QuietKeeps, AllKeeps, RevokeRemovedKeeps, RevokeKeptKeeps,
         GrantAddedKeeps DEF Step
    <2>2. CASE q # p
      BY <1>2, <2>2, StepOthers, OthersKeep
    <2> QED BY <2>1, <2>2
  <1>3. CASE UNCHANGED vars
    <2>1. tainted'[q] \/ (~tainted[q] /\ dirty'[q] = dirty[q] /\ UNCHANGED aws)
      BY <1>3 DEF vars, aws, IndInv, TypeOK
    <2> QED BY <1>3, <2>1, OthersKeep DEF vars
  <1> QED BY <1>1, <1>2, <1>3 DEF Next

(* An apply that stops anywhere - between two calls, on an error, after    *)
(* any number of retries, killed - has dropped nothing that was held and   *)
(* is planned, except what applyDiff revokes in order to grant it again:   *)
(* for every set of permissions, every number of callers and retries.      *)
THEOREM NothingLost == Spec => []KeptUnlessRegranted
  <1>1. IndInv /\ AllKept => KeptUnlessRegranted
    <2> SUFFICES ASSUME IndInv, NEW p \in Proc, KeptInv(p), ~tainted[p]
                 PROVE  /\ (base[p].P \cap Full(plan[p].P)) \ AtRisk(p) \subseteq awsP
                        /\ (base[p].G \cap Full(plan[p].G)) \ AtRisk(p) \subseteq awsG
      BY DEF AllKept, KeptUnlessRegranted
    <2>1. CASE ByDiffs(p)
      <3>1. AtRisk(p) = Regranted(p) /\ Safe(p)
        BY <2>1 DEF KeptInv, AtRisk, ByDiffs, Regranted
      <3>2. Full(plan[p].P) = plan[p].P /\ Full(plan[p].G) = plan[p].G
        BY <2>1, DiffPlan DEF ByDiffs, IndInv, TypeOK
      <3> QED BY <3>1, <3>2 DEF Safe
    <2>2. CASE ~ByDiffs(p)
      <3>1. AtRisk(p) = Flag /\ base[p].P \subseteq Flag /\ base[p].G \subseteq Flag
        BY <2>2 DEF AtRisk, ByDiffs, IndInv, TypeOK, Pair
      <3> QED BY <3>1
    <2> QED BY <2>1, <2>2
  <1> QED BY <1>1, InitKept, NextKept, Invariance, PTL DEF Spec

------------------------------------------------------------------------------
(* LFApply implements LFReconcile: every step of a caller is a step that   *)
(* LFReconcile lets that caller take.                                      *)
(* What the refinement mapping makes of a caller.                          *)
LEMMA Mapped ==
    ASSUME TypeOK, NEW p \in Proc
    PROVE  /\ Status[p] = IF pc[p] = "ok" THEN "ok"
                          ELSE IF pc[p] \in Ended THEN "failed" ELSE "running"
           /\ HasNoView(p) => View[p] = "none"
           /\ ~HasNoView(p) /\ dirty[p] => View[p] = "stale"
           /\ ~HasNoView(p) /\ ~dirty[p] => View[p] = "fresh"
           /\ Want[p] = [P |-> Full(plan[p].P), G |-> Full(plan[p].G)]
  BY DEF Status, View, Want

LEMMA SameReached ==
    ASSUME NEW p \in Proc
    PROVE  Promise!Reached(Want[p]) <=> Reached(plan[p])
  BY DEF Promise!Reached, Want, Reached

LEMMA InitPromise == Init => Promise!Init
  <1> SUFFICES ASSUME Init PROVE Promise!Init
    OBVIOUS
  <1>1. Want \in [Proc -> Promise!Pair]
    <2> SUFFICES ASSUME NEW p \in Proc
                 PROVE  [P |-> Full(plan[p].P), G |-> Full(plan[p].G)] \in Promise!Pair
      BY DEF Want
    <2>1. plan[p] \in Plans
      BY DEF Init
    <2>2. Full(plan[p].P) \subseteq Flag /\ Full(plan[p].G) \subseteq Full(plan[p].P)
      BY <2>1, PlanFacts
    <2> QED BY <2>2 DEF Promise!Pair
  <1>2. Status = [p \in Proc |-> "running"] /\ View = [p \in Proc |-> "none"]
    BY DEF Init, Status, View, HasNoView, Ended
  <1>3. [P |-> awsP, G |-> awsG] \in Promise!Pair
    BY DEF Init, Promise!Pair
  <1> QED BY <1>1, <1>2, <1>3 DEF Promise!Init

(* What a step does to a caller that does not take it.                     *)
Bystander(q) ==
    /\ plan'[q] = plan[q] /\ pc'[q] = pc[q] /\ attempt'[q] = attempt[q]
    /\ unlisted'[q] = unlisted[q]
    /\ dirty'[q] <=> dirty[q] \/ aws' # aws

LEMMA BystanderView ==
    ASSUME TypeOK, TypeOK', NEW q \in Proc, Bystander(q)
    PROVE  View'[q] = Promise!Outdate(q) /\ Status'[q] = Status[q]
  <1>1. HasNoView(q)' <=> HasNoView(q)
    BY DEF Bystander, HasNoView
  <1>2. View'[q] = (IF HasNoView(q)' THEN "none" ELSE IF dirty'[q] THEN "stale" ELSE "fresh")
    BY DEF View
  <1>3. View[q] = (IF HasNoView(q) THEN "none" ELSE IF dirty[q] THEN "stale" ELSE "fresh")
    BY DEF View
  <1>4. Promise!Outdate(q) = IF View[q] = "fresh" /\ aws' # aws THEN "stale" ELSE View[q]
    BY DEF Promise!Outdate, aws
  <1>5. Status'[q] = Status[q]
    BY DEF Bystander, Status
  <1>6. CASE HasNoView(q)
    BY <1>1, <1>2, <1>3, <1>4, <1>5, <1>6
  <1>7. CASE ~HasNoView(q) /\ dirty[q]
    BY <1>1, <1>2, <1>3, <1>4, <1>5, <1>7 DEF Bystander
  <1>8. CASE ~HasNoView(q) /\ ~dirty[q]
    BY <1>1, <1>2, <1>3, <1>4, <1>5, <1>8 DEF Bystander
  <1> QED BY <1>6, <1>7, <1>8

LEMMA WitnessBystander ==
    ASSUME NEW by, Witness(by), NEW q \in Proc, q \notin by
    PROVE  dirty'[q] <=> dirty[q] \/ aws' # aws
  BY DEF Witness, Outdates

LEMMA StepBystander ==
    ASSUME TypeOK, NEW p \in Proc, Step(p) \/ Crash(p), NEW q \in Proc, q # p
    PROVE  Bystander(q)
  <1>1. CASE ListPage(p) \/ List(p)
    BY <1>1 DEF ListPage, List, BeginsToList, Goto, history, aws, TypeOK, Bystander
  <1>2. CASE ListFails(p) \/ Retry(p) \/ Cancelled(p) \/ Crash(p)
    BY <1>2 DEF ListFails, Retry, Cancelled, Crash, Relist, Goto, Local, history, aws, TypeOK,
                Bystander
  <1>3. CASE AllRevoke(p) \/ AllGrant(p) \/ RevokeRemoved(p) \/ RevokeKept(p) \/ GrantAdded(p)
    <2>1. Witness({p}) /\ UNCHANGED Local /\ \E phase : Goto(p, phase)
      BY <1>3 DEF AllRevoke, AllGrant, RevokeRemoved, RevokeKept, GrantAdded, ReturnOr, Return
    <2>2. dirty'[q] <=> dirty[q] \/ aws' # aws
      BY <2>1, WitnessBystander
    <2> QED BY <2>1, <2>2 DEF Local, Goto, TypeOK, Bystander
  <1> QED BY <1>1, <1>2, <1>3 DEF Step
------------------------------------------------------------------------------
(* What a step does to the caller that takes it: it was running, it keeps  *)
(* its view, renews it or gives up, and it succeeds only with a view.      *)
OwnStep(p) ==
    /\ pc[p] \notin Ended
    /\ \/ View'[p] \in {View[p], "fresh"} /\ View'[p] # "none"
       \/ View'[p] = "none" /\ pc'[p] \in {"failed", "crashed"}

LEMMA ListOwn ==
    ASSUME TypeOK, TypeOK', NEW p \in Proc, ListPage(p) \/ List(p)
    PROVE  OwnStep(p)
  <1>1. pc[p] = "list" /\ BeginsToList(p)
    BY DEF ListPage, List
  <1>2. pc'[p] \notin {"failed", "crashed"} /\ unlisted'[p] # Flag
    <2>1. CASE ListPage(p)
      <3>1. PICK page \in {g \in Pages : g \subseteq unlisted[p]} \ {{}, unlisted[p]} :
               unlisted' = [unlisted EXCEPT ![p] = @ \ page]
        BY <2>1 DEF ListPage
      <3>2. unlisted'[p] = unlisted[p] \ page /\ page \subseteq Flag /\ page # {}
        BY <3>1 DEF TypeOK
      <3> QED BY <1>1, <2>1, <3>2 DEF ListPage
    <2>2. CASE List(p)
      <3>1. unlisted'[p] = {}
        BY <2>2 DEF List, TypeOK
      <3>2. pc'[p] \in {"ok", "allRevoke", "revoke"}
        BY <2>2 DEF List, Goto, AfterList, TypeOK
      <3> QED BY <3>1, <3>2, FlagAssumption
    <2> QED BY <2>1, <2>2
  <1>3. ~HasNoView(p)'
    BY <1>2 DEF HasNoView
  <1>4. CASE unlisted[p] = Flag
    <2>1. ~dirty'[p]
      BY <1>1, <1>4 DEF BeginsToList, TypeOK
    <2>2. View'[p] = "fresh"
      BY <1>3, <2>1 DEF View
    <2> QED BY <1>1, <2>2 DEF OwnStep, Ended
  <1>5. CASE unlisted[p] # Flag
    <2>1. dirty' = dirty /\ ~HasNoView(p)
      BY <1>1, <1>5 DEF BeginsToList, history, HasNoView
    <2>2. View'[p] = View[p] /\ View[p] # "none"
      BY <1>3, <2>1 DEF View
    <2> QED BY <1>1, <2>2 DEF OwnStep, Ended
  <1> QED BY <1>4, <1>5

LEMMA KeepsView ==
    ASSUME TypeOK, NEW p \in Proc, ~HasNoView(p), pc[p] \notin Ended,
           dirty'[p] = dirty[p],
           ~HasNoView(p)' \/ pc'[p] \in {"failed", "crashed"}
    PROVE  OwnStep(p)
  <1>1. View[p] # "none"
    BY DEF View
  <1>2. CASE ~HasNoView(p)'
    <2>1. View'[p] = View[p]
      BY <1>2 DEF View
    <2> QED BY <1>1, <2>1 DEF OwnStep
  <1>3. CASE HasNoView(p)'
    <2>1. View'[p] = "none"
      BY <1>3 DEF View
    <2> QED BY <1>3, <2>1 DEF OwnStep
  <1> QED BY <1>2, <1>3

LEMMA Own ==
    ASSUME TypeOK, TypeOK', NEW p \in Proc, Step(p) \/ Crash(p)
    PROVE  OwnStep(p)
  <1>1. CASE ListPage(p) \/ List(p)
    BY <1>1, ListOwn
  <1>2. CASE ListFails(p) \/ Cancelled(p) \/ Crash(p)
    <2>1. pc[p] \notin Ended /\ pc'[p] \in {"failed", "crashed"}
      BY <1>2 DEF ListFails, Cancelled, Crash, Goto, TypeOK, Ended
    <2>2. View'[p] = "none"
      BY <2>1 DEF View, HasNoView
    <2> QED BY <2>1, <2>2 DEF OwnStep
  <1>3. CASE Retry(p)
    <2>1. pc[p] = "backoff" /\ pc'[p] = "list" /\ attempt'[p] = attempt[p] + 1 /\ dirty' = dirty
      BY <1>3 DEF Retry, Goto, history, TypeOK
    <2>2. attempt[p] \in Nat
      BY RetriesAssumption DEF TypeOK
    <2> QED BY <2>1, <2>2, KeepsView DEF HasNoView, Ended
  <1>4. CASE AllRevoke(p) \/ AllGrant(p) \/ RevokeRemoved(p) \/ RevokeKept(p) \/ GrantAdded(p)
    <2>1. Witness({p}) /\ pc[p] \in DiffPhase \cup {"allRevoke", "allGrant"}
      BY <1>4 DEF AllRevoke, AllGrant, RevokeRemoved, RevokeKept, GrantAdded, DiffPhase
    <2>2. dirty'[p] = dirty[p]
      BY <2>1, WitnessEffect
    <2>3. pc'[p] # "list"
      BY <1>4 DEF AllRevoke, AllGrant, RevokeRemoved, RevokeKept, GrantAdded, ReturnOr, Return,
                  AfterDiff, Goto, TypeOK
    <2> QED BY <2>1, <2>2, <2>3, KeepsView DEF HasNoView, DiffPhase, Ended
  <1> QED BY <1>1, <1>2, <1>3, <1>4 DEF Step

LEMMA PromisedStep ==
    ASSUME IndInv, IndInv', NEW p \in Proc, Step(p) \/ Crash(p)
    PROVE  Promise!Step(p)
  <1> DEFINE s == Status'[p]
             v == View'[p]
  <1>1. TypeOK /\ TypeOK'
    BY DEF IndInv
  <1>2. OwnStep(p) /\ \A q \in Proc : q # p => Bystander(q)
    BY <1>1, Own, StepBystander
  <1>3. Status[p] = "running"
    BY <1>2 DEF OwnStep, Status, Ended
  <1>4. UNCHANGED Want
    <2>1. plan' = plan
      BY DEF Step, ListPage, List, ListFails, AllRevoke, AllGrant, RevokeRemoved, RevokeKept,
             GrantAdded, Retry, Cancelled, Crash, Local
    <2> QED BY <2>1 DEF Want, Full, Expand
  <1>5. Promise!Held
    BY <1>1 DEF TypeOK, Promise!Held
  <1>6. awsP' \subseteq awsP \cup Want[p].P /\ awsG' \subseteq awsG \cup Want[p].G
    <2>1. Want[p].P = Full(plan[p].P) /\ Want[p].G = Full(plan[p].G)
      BY DEF Want
    <2>2. CASE Step(p)
      BY <2>1, <2>2, StepAddsOnlyPlanned
    <2>3. CASE Crash(p)
      BY <2>3 DEF Crash, aws
    <2> QED BY <2>2, <2>3
  <1>7. s \in {"running", "ok", "failed"} /\ v \in {View[p], "fresh", "none"}
    BY <1>2 DEF Status, OwnStep
  <1>8. Status' = [Status EXCEPT ![p] = s]
    <2>1. \A q \in Proc : q # p => Status'[q] = Status[q]
      BY <1>1, <1>2, BystanderView
    <2> QED BY <2>1 DEF Status
  <1>9. View' = [q \in Proc |-> IF q = p THEN v ELSE Promise!Outdate(q)]
    <2>1. \A q \in Proc : q # p => View'[q] = Promise!Outdate(q)
      BY <1>1, <1>2, BystanderView
    <2> QED BY <2>1 DEF View
  <1>10. v = "none" => s = "failed" \/ View[p] = "none"
    BY <1>2 DEF OwnStep, Status, Ended
  <1>11. s = "ok" => pc'[p] = "ok"
    BY DEF Status
  <1>12. s = "ok" => v # "none"
    BY <1>2, <1>11 DEF OwnStep
  <1>13. s = "ok" /\ v = "fresh" => Promise!Reached(Want[p])'
    <2> SUFFICES ASSUME s = "ok", v = "fresh" PROVE Promise!Reached(Want[p])'
      OBVIOUS
    <2>1. ~dirty'[p] /\ pc'[p] = "ok"
      BY <1>11 DEF View
    <2>2. Reached(plan[p])'
      BY <2>1 DEF IndInv, CallerInv, HeldInv
    <2> QED BY <2>2 DEF Promise!Reached, Want, Reached
  <1> HIDE DEF s, v
  <1> QED BY <1>3, <1>4, <1>5, <1>6, <1>7, <1>8, <1>9, <1>10, <1>12, <1>13 DEF Promise!Step

LEMMA PromisedNext ==
    ASSUME IndInv, IndInv', [Next]_vars
    PROVE  [Promise!Next]_(Promise!vars)
  <1>1. TypeOK /\ TypeOK'
    BY DEF IndInv
  <1>2. CASE Disturb
    <2>1. Witness({}) /\ UNCHANGED <<Local, pc>>
      BY <1>2 DEF Disturb
    <2>2. \A q \in Proc : Bystander(q)
      BY <2>1, WitnessBystander DEF Local, Bystander
    <2>3. View' = [q \in Proc |-> Promise!Outdate(q)]
      <3>1. \A q \in Proc : View'[q] = Promise!Outdate(q)
        BY <1>1, <2>2, BystanderView
      <3> QED BY <3>1 DEF View
    <2>4. UNCHANGED <<Want, Status>>
      BY <2>1 DEF Local, Want, Status, Full, Expand
    <2>5. Promise!Held
      BY <1>1 DEF TypeOK, Promise!Held
    <2> QED BY <2>3, <2>4, <2>5 DEF Promise!Next, Promise!Disturb
  <1>3. ASSUME NEW p \in Proc, Step(p) \/ Crash(p) PROVE Promise!Next
    BY <1>3, PromisedStep DEF Promise!Next
  <1>4. CASE UNCHANGED vars
    BY <1>4 DEF vars, Promise!vars, Want, Status, View, HasNoView, Full, Expand
  <1> QED BY <1>2, <1>3, <1>4 DEF Next

(* applyResource keeps the promise of LFReconcile.                         *)
THEOREM Implements == Spec => Reconciles
  <1> QED BY InitPromise, Invariance, PromisedNext, PTL
          DEF Spec, Reconciles, Promise!Spec

------------------------------------------------------------------------------
(* Callers who agree on the plan bring it about together, however many     *)
(* they are and however their calls and the pages of their lists           *)
(* interleave.                                                             *)

(* What is held and should not be: permissions outside the plan w, and     *)
(* grant options on permissions that stay.  Nobody adds to either.         *)
Outside(w) == awsP \ Full(w.P)
Surplus(w) == (awsG \cap Full(w.P)) \ Full(w.G)

(* Nothing has been changed yet: what a caller has listed is what is held. *)
Exact(p) ==
    /\ pc[p] \notin {"keep", "grant", "allGrant", "ok"}
    /\ pc[p] = "list" => curP[p] = awsP \ unlisted[p] /\ curG[p] = awsG \ unlisted[p]
    /\ pc[p] \in {"revoke", "allRevoke"} =>
          /\ curP[p] = CollapseImplicitAll(awsP, Flag)
          /\ curG[p] = CollapseImplicitAll(awsG, Flag)

(* Only permissions outside the plan have been revoked: nobody has seen    *)
(* or will see a list that shows ALL, and whoever revokes the surplus has  *)
(* it in his list, no less and no more.                                    *)
Diffs(w, p) ==
    /\ pc[p] \notin {"allRevoke", "allGrant", "grant", "ok"}
    /\ pc[p] = "list" =>
          /\ ~(Flag \subseteq curP[p] \cup (awsP \cap unlisted[p]))
          /\ (curG[p] \cap Full(w.P)) \ Full(w.G) = Surplus(w) \ unlisted[p]
    /\ pc[p] \in {"revoke", "keep"} => KeepRevokeG(p) = Surplus(w)

(* The surplus has a pinned grant option: whoever would revoke it has that *)
(* in his list, and is refused.                                            *)
Sees(w, p) ==
    /\ pc[p] = "list" => Surplus(w) \ unlisted[p] \subseteq curG[p]
    /\ pc[p] \in {"revoke", "keep", "allRevoke"} => Surplus(w) \subseteq Full(curG[p])

Started(w) ==
    /\ Outside(w) = {}
    /\ \/ Surplus(w) = {}
       \/ ALL \notin w.P /\ \A p \in Proc : Diffs(w, p)
       \/ Surplus(w) \cap Pinned # {} /\ \A p \in Proc : Sees(w, p)

Untouched == \A p \in Proc : Exact(p)

(* Of everything planned that is not held there is a caller that is going  *)
(* to grant it, or has not succeeded.                                      *)
Unsettled == {"backoff", "failed", "crashed", "allRevoke", "allGrant"}

BringsP(p, f) ==
    \/ pc[p] \in Unsettled
    \/ pc[p] \in {"list", "revoke", "keep"} /\ f \notin curP[p]
    \/ pc[p] = "grant" /\ f \in GrantP(p)
BringsG(p, f) ==
    \/ pc[p] \in Unsettled
    \/ pc[p] \in {"list", "revoke", "keep", "grant"} /\ f \notin curG[p]

Owed(w) ==
    /\ \A f \in Full(w.P) \ awsP : \E p \in Proc : BringsP(p, f)
    /\ \A f \in Full(w.G) \ awsG : \E p \in Proc : BringsG(p, f)

PathInv == \A p \in Proc : pc[p] = "allRevoke" => AllPath(curP[p], plan[p].P)

Agreed(w) == disturbed = 0 /\ Proc # {} /\ \A p \in Proc : plan[p] = w

AgreeInv ==
    /\ PathInv
    /\ \A w \in Plans : Agreed(w) => (Untouched \/ Started(w)) /\ Owed(w)
------------------------------------------------------------------------------
(* A plan leaves something out unless it says ALL.                         *)
LEMMA NotEverything ==
    ASSUME NEW w \in Plans, ALL \notin w.P
    PROVE  /\ w.P \subseteq Flag /\ w.G \subseteq w.P
           /\ Full(w.P) = w.P /\ Full(w.G) = w.G
           /\ ~(Flag \subseteq w.P)
  <1>1. w.P \subseteq Flag /\ w.G \subseteq w.P
    BY PlanFacts
  <1>2. ~(Flag \subseteq w.P)
    <2>1. CheckPerms(w.P, Flag) /\ w.P # Nil
      BY NilAssumption DEF Plans, ValidPair, Perms
    <2> QED BY <1>1, <2>1, FlagAssumption DEF CheckPerms
  <1> QED BY <1>1, <1>2, NoALL

(* A call to revoke has the effect asked for or none; the answer tells     *)
(* which only when all of the request is held, and a pinned grant option   *)
(* in it stops the call.                                                   *)
LEMMA RevokeOutcome ==
    ASSUME NEW P \in Perms, NEW G \in Perms, NEW err, RevokeLFPerms(P, G, err),
           awsP \in SUBSET Flag, awsG \in SUBSET awsP
    PROVE  /\ \/ UNCHANGED aws
              \/ awsP' = awsP \ Full(P) /\ awsG' = awsG \ (Full(G) \cup Full(P))
           /\ err = "ok" /\ Full(P) \subseteq awsP /\ Full(G) \subseteq awsG =>
                 awsP' = awsP \ Full(P) /\ awsG' = awsG \ (Full(G) \cup Full(P))
           /\ Full(G) \cap awsG \cap Pinned # {} => UNCHANGED aws /\ err # "ok"
           /\ err = "superuser" => UNCHANGED aws /\ Full(G) \cap awsG \cap Pinned # {}
  <1>1. CASE P = {} /\ G = {}
    BY <1>1 DEF RevokeLFPerms, Full, Expand, aws
  <1>2. CASE ~(P = {} /\ G = {})
    <2>1. PICK reply \in Errors \cup {"ok", "noperms", "superuser"} :
             /\ ServiceRevoke(P, G, reply)
             /\ err = IF reply = "noperms" THEN "ok" ELSE reply
      BY <1>2 DEF RevokeLFPerms
    <2> DEFINE effect == awsP' = awsP \ Full(P) /\ awsG' = awsG \ (Full(G) \cup Full(P))
               fixed  == Full(G) \cap awsG \cap Pinned # {}
    <2>2. /\ UNCHANGED aws \/ effect
          /\ fixed => UNCHANGED aws /\ reply \in Errors \cup {"superuser"}
          /\ reply = "superuser" => UNCHANGED aws /\ fixed
          /\ reply \in {"ok", "noperms"} /\ Full(P) \subseteq awsP /\ Full(G) \subseteq awsG
                => effect
      BY <2>1 DEF ServiceRevoke, Remove, Errors
    <2> HIDE DEF effect, fixed
    <2>3. /\ err = "ok" => reply \in {"ok", "noperms"}
          /\ err = "superuser" => reply = "superuser"
          /\ reply \in Errors \cup {"superuser"} => err # "ok"
      BY <2>1 DEF Errors
    <2>4. /\ UNCHANGED aws \/ effect
          /\ err = "ok" /\ Full(P) \subseteq awsP /\ Full(G) \subseteq awsG => effect
          /\ fixed => UNCHANGED aws /\ err # "ok"
          /\ err = "superuser" => UNCHANGED aws /\ fixed
      BY <2>2, <2>3
    <2> QED BY <2>4 DEF effect, fixed
  <1> QED BY <1>1, <1>2

(* What a call to grant adds, if it has an effect.                         *)
LEMMA GrantOutcome ==
    ASSUME NEW P \in Perms, NEW G \in Perms, NEW err, GrantLFPerms(P, G, err)
    PROVE  /\ \/ UNCHANGED aws
              \/ awsP' = awsP \cup Full(P) \cup Full(G) /\ awsG' = awsG \cup Full(G)
           /\ err = "ok" =>
                 awsP' = awsP \cup Full(P) \cup Full(G) /\ awsG' = awsG \cup Full(G)
  <1>1. CASE P = {} /\ G = {}
    BY <1>1 DEF GrantLFPerms, Full, Expand, aws
  <1>2. CASE ~(P = {} /\ G = {})
    <2>1. ServiceGrant(P \cup G, G, err)
      BY <1>2 DEF GrantLFPerms
    <2>2. Full(P \cup G) = Full(P) \cup Full(G)
      BY FlagAssumption DEF Full, Expand, Perms
    <2> DEFINE effect == awsP' = awsP \cup Full(P) \cup Full(G) /\ awsG' = awsG \cup Full(G)
    <2>3. effect \/ (err \in Errors /\ UNCHANGED aws)
      BY <2>1, <2>2 DEF ServiceGrant, Add
    <2> HIDE DEF effect
    <2>4. (UNCHANGED aws \/ effect) /\ (err = "ok" => effect)
      BY <2>3 DEF Errors
    <2> QED BY <2>4 DEF effect
  <1> QED BY <1>1, <1>2

(* What is kept of the types.                                              *)
LEMMA Types ==
    ASSUME IndInv, NEW w \in Plans, Agreed(w), NEW p \in Proc
    PROVE  /\ awsP \in SUBSET Flag /\ awsG \in SUBSET awsP
           /\ curP[p] \in Perms /\ curG[p] \in Perms /\ regrant[p] \in Perms
           /\ unlisted[p] \in SUBSET Flag
           /\ plan[p] = w /\ w.P \in Perms /\ w.G \in Perms
           /\ Full(w.P) \subseteq Flag /\ Full(w.G) \subseteq Full(w.P)
           /\ pc \in [Proc -> Phase]
           /\ pc[p] = "list" => curP[p] \subseteq Flag \ unlisted[p] /\ curG[p] \subseteq curP[p]
           /\ pc[p] \in DiffPhase =>
                 /\ ALL \notin w.P /\ w.P \subseteq Flag /\ w.G \subseteq w.P
                 /\ Full(w.P) = w.P /\ Full(w.G) = w.G /\ ~(Flag \subseteq w.P)
                 /\ curP[p] \subseteq Flag /\ curG[p] \subseteq curP[p]
           /\ pc[p] = "grant" => regrant[p] \subseteq w.P
  <1>1. ControlInv(p) /\ plan[p] = w
    BY DEF IndInv, CallerInv, Agreed
  <1>2. ALL \notin w.P =>
           /\ w.P \subseteq Flag /\ w.G \subseteq w.P
           /\ Full(w.P) = w.P /\ Full(w.G) = w.G /\ ~(Flag \subseteq w.P)
    BY NotEverything
  <1> QED BY <1>1, <1>2, PlanFacts DEF IndInv, TypeOK, ControlInv
------------------------------------------------------------------------------
(* The steps of one caller leave the others where they are.                *)
Alone(p) ==
    /\ plan' = plan /\ disturbed' = disturbed
    /\ \A q \in Proc \ {p} :
          /\ pc'[q] = pc[q] /\ curP'[q] = curP[q] /\ curG'[q] = curG[q]
          /\ unlisted'[q] = unlisted[q] /\ regrant'[q] = regrant[q]

LEMMA StepAlone ==
    ASSUME IndInv, NEW p \in Proc, Step(p) \/ Crash(p)
    PROVE  Alone(p)
  <1>0. TypeOK
    BY DEF IndInv
  <1>1. CASE ListPage(p)
    BY <1>0, <1>1 DEF ListPage, Alone, TypeOK
  <1>2. CASE List(p)
    BY <1>0, <1>2 DEF List, Goto, Alone, TypeOK
  <1>3. CASE Retry(p)
    BY <1>0, <1>3 DEF Retry, Relist, Goto, Alone, TypeOK
  <1>4. CASE ListFails(p) \/ Cancelled(p) \/ Crash(p)
    BY <1>0, <1>4 DEF ListFails, Cancelled, Crash, Local, Goto, Alone, TypeOK
  <1>5. CASE AllRevoke(p) \/ AllGrant(p) \/ RevokeRemoved(p) \/ GrantAdded(p)
    BY <1>0, <1>5 DEF AllRevoke, AllGrant, RevokeRemoved, GrantAdded, Local, Goto, ReturnOr,
                      Return, Alone, TypeOK
  <1>6. CASE RevokeKept(p)
    BY <1>0, <1>6 DEF RevokeKept, Local, Goto, ReturnOr, Return, Alone, TypeOK
  <1> QED BY <1>1, <1>2, <1>3, <1>4, <1>5, <1>6 DEF Step

Good(w) == (Untouched \/ Started(w)) /\ Owed(w)

(* What is owed stays owed, by somebody else or by the caller that steps.  *)
LEMMA OwedKept ==
    ASSUME NEW w \in Plans, Owed(w), NEW p \in Proc, Alone(p),
           \A f \in Full(w.P) \ awsP' : BringsP(p, f)' \/ (f \notin awsP /\ ~BringsP(p, f)),
           \A f \in Full(w.G) \ awsG' : BringsG(p, f)' \/ (f \notin awsG /\ ~BringsG(p, f))
    PROVE  Owed(w)'
  <1>1. ASSUME NEW f, NEW q \in Proc \ {p}
        PROVE  /\ BringsP(q, f) => BringsP(q, f)'
               /\ BringsG(q, f) => BringsG(q, f)'
    BY <1>1 DEF Alone, BringsP, BringsG, GrantP
  <1>2. ASSUME NEW f \in Full(w.P) \ awsP' PROVE \E q \in Proc : BringsP(q, f)'
    BY <1>1 DEF Owed
  <1>3. ASSUME NEW f \in Full(w.G) \ awsG' PROVE \E q \in Proc : BringsG(q, f)'
    BY <1>1 DEF Owed
  <1> QED BY <1>2, <1>3 DEF Owed

(* With everything where it was, it is enough to look at the caller.       *)
LEMMA SameHeld ==
    ASSUME NEW w \in Plans, Untouched \/ Started(w), NEW p \in Proc, Alone(p), UNCHANGED aws,
           Exact(p) => Exact(p)' \/ Outside(w) \cup Surplus(w) = {},
           Outside(w) = {} /\ ALL \notin w.P /\ Diffs(w, p) => Diffs(w, p)' \/ Surplus(w) = {},
           Sees(w, p) => Sees(w, p)'
    PROVE  (Untouched \/ Started(w))'
  <1>1. Outside(w)' = Outside(w) /\ Surplus(w)' = Surplus(w)
    BY DEF aws, Outside, Surplus
  <1>2. ASSUME NEW q \in Proc \ {p}
        PROVE  /\ Exact(q) => Exact(q)'
               /\ Diffs(w, q) => Diffs(w, q)'
               /\ Sees(w, q) => Sees(w, q)'
    <2>1. Exact(q) => Exact(q)'
      BY <1>2 DEF Alone, aws, Exact, CollapseImplicitAll
    <2>2. Diffs(w, q) => Diffs(w, q)'
      BY <1>1, <1>2 DEF Alone, aws, Diffs, KeepRevokeG, RevokeG
    <2>3. Sees(w, q) => Sees(w, q)'
      BY <1>1, <1>2 DEF Alone, Sees
    <2> QED BY <2>1, <2>2, <2>3
  <1>3. CASE Untouched
    <2>1. CASE Exact(p)'
      BY <1>2, <1>3, <2>1 DEF Untouched
    <2>2. CASE Outside(w) \cup Surplus(w) = {}
      BY <1>1, <2>2 DEF Started
    <2> QED BY <1>3, <2>1, <2>2 DEF Untouched
  <1>4. CASE Started(w)
    <2>1. CASE Surplus(w) = {}
      BY <1>1, <1>4, <2>1 DEF Started
    <2>2. CASE ALL \notin w.P /\ (\A q \in Proc : Diffs(w, q)) /\ Surplus(w) # {}
      BY <1>1, <1>2, <1>4, <2>2 DEF Started
    <2>3. CASE Surplus(w) \cap Pinned # {} /\ \A q \in Proc : Sees(w, q)
      BY <1>1, <1>2, <1>4, <2>3 DEF Started
    <2> QED BY <1>4, <2>1, <2>2, <2>3 DEF Started
  <1> QED BY <1>3, <1>4
------------------------------------------------------------------------------
LEMMA InitAgree == Init => AgreeInv
  <1> SUFFICES ASSUME Init PROVE AgreeInv
    OBVIOUS
  <1>1. PathInv
    BY DEF Init, PathInv
  <1>2. Untouched
    BY DEF Init, Untouched, Exact
  <1>3. ASSUME NEW w \in Plans, Agreed(w) PROVE Owed(w)
    BY <1>3 DEF Init, Agreed, Owed, BringsP, BringsG
  <1> QED BY <1>1, <1>2, <1>3 DEF AgreeInv

------------------------------------------------------------------------------
(* Pages and lists.                                                        *)
LEMMA ListPageAgrees ==
    ASSUME IndInv, AgreeInv, NEW p \in Proc, ListPage(p), NEW w \in Plans, Agreed(w)
    PROVE  Good(w)'
  <1>1. PICK page \in SUBSET unlisted[p] :
           /\ curP' = [curP EXCEPT ![p] = Gathered(p, page).P]
           /\ curG' = [curG EXCEPT ![p] = Gathered(p, page).G]
           /\ unlisted' = [unlisted EXCEPT ![p] = @ \ page]
    BY DEF ListPage
  <1>2. pc[p] = "list" /\ pc' = pc /\ UNCHANGED aws /\ awsP' = awsP /\ awsG' = awsG
    BY DEF ListPage, aws
  <1>3. /\ pc'[p] = "list"
        /\ curP'[p] = curP[p] \cup (awsP \cap page)
        /\ curG'[p] = curG[p] \cup (awsG \cap page)
        /\ unlisted'[p] = unlisted[p] \ page
    BY <1>1, <1>2 DEF Gathered, IndInv, TypeOK
  <1>4. Alone(p) /\ (Untouched \/ Started(w)) /\ Owed(w)
    BY StepAlone DEF Step, AgreeInv
  <1>5. awsP \in SUBSET Flag /\ awsG \in SUBSET awsP
    BY Types
  <1>6. Exact(p) => Exact(p)'
    BY <1>2, <1>3 DEF Exact
  <1>7. Surplus(w) \subseteq awsG /\ Surplus(w) \cap Full(w.P) = Surplus(w)
        /\ Surplus(w) = (awsG \cap Full(w.P)) \ Full(w.G) /\ Surplus(w)' = Surplus(w)
    BY <1>2 DEF Surplus
  <1>8. Diffs(w, p) => Diffs(w, p)'
    <2> HAVE Diffs(w, p)
    <2>1. /\ ~(Flag \subseteq curP[p] \cup (awsP \cap unlisted[p]))
          /\ (curG[p] \cap Full(w.P)) \ Full(w.G) = Surplus(w) \ unlisted[p]
      BY <1>2 DEF Diffs
    <2>2. curP'[p] \cup (awsP' \cap unlisted'[p]) = curP[p] \cup (awsP \cap unlisted[p])
      BY <1>1, <1>2, <1>3
    <2>3. (curG'[p] \cap Full(w.P)) \ Full(w.G) = Surplus(w)' \ unlisted'[p]
      BY <1>1, <1>3, <1>7, <2>1
    <2> QED BY <1>3, <2>1, <2>2, <2>3 DEF Diffs
  <1>9. Sees(w, p) => Sees(w, p)'
    BY <1>1, <1>2, <1>3, <1>7 DEF Sees
  <1>10. (Untouched \/ Started(w))'
    BY <1>2, <1>4, <1>6, <1>8, <1>9, SameHeld
  <1>11. Owed(w)'
    <2>1. ASSUME NEW f, f \notin awsP' PROVE BringsP(p, f) => BringsP(p, f)'
      BY <1>2, <1>3, <2>1 DEF BringsP, Unsettled
    <2>2. ASSUME NEW f, f \notin awsG' PROVE BringsG(p, f) => BringsG(p, f)'
      BY <1>2, <1>3, <2>2 DEF BringsG, Unsettled
    <2> QED BY <1>2, <1>4, <2>1, <2>2, OwedKept
  <1> QED BY <1>10, <1>11 DEF Good

LEMMA ListAgrees ==
    ASSUME IndInv, AgreeInv, NEW p \in Proc, List(p), NEW w \in Plans, Agreed(w)
    PROVE  Good(w)'
  <1> DEFINE allP == curP[p] \cup (awsP \cap unlisted[p])
             allG == curG[p] \cup (awsG \cap unlisted[p])
             P == CollapseImplicitAll(allP, Flag)
             G == CollapseImplicitAll(allG, Flag)
  <1>1. /\ pc[p] = "list" /\ curP' = [curP EXCEPT ![p] = P] /\ curG' = [curG EXCEPT ![p] = G]
        /\ pc' = [pc EXCEPT ![p] = AfterList(P, plan[p].P)]
        /\ UNCHANGED aws /\ awsP' = awsP /\ awsG' = awsG
    BY DEF List, Goto, Gathered, aws
  <1>2. /\ awsP \in SUBSET Flag /\ awsG \in SUBSET awsP /\ unlisted[p] \in SUBSET Flag
        /\ curP[p] \subseteq Flag /\ curG[p] \subseteq curP[p] /\ plan[p] = w
        /\ w.P \in Perms /\ w.G \in Perms /\ Full(w.G) \subseteq Full(w.P)
    BY <1>1, Types
  <1>3. /\ curP'[p] = P /\ curG'[p] = G /\ pc'[p] = AfterList(P, w.P)
    BY <1>1, <1>2 DEF IndInv, TypeOK
  <1>4. allP \in SUBSET Flag /\ allG \in SUBSET allP
    BY <1>2
  <1>5. /\ Full(P) = allP /\ (P = {} <=> allP = {}) /\ (ALL \notin P => P = allP)
        /\ Full(G) = allG
        /\ ~(Flag \subseteq allP) => P = allP /\ ALL \notin P
        /\ ~(Flag \subseteq allG) => G = allG
    <2>1. ALL \notin allP
      BY <1>4, FlagAssumption
    <2> QED BY <1>4, <2>1, ListFacts DEF CollapseImplicitAll
  <1>6. Alone(p) /\ (Untouched \/ Started(w)) /\ Owed(w)
    BY StepAlone DEF Step, AgreeInv
  <1>7. Exact(p) => allP = awsP /\ allG = awsG
    BY <1>1, <1>2 DEF Exact
  <1>8. /\ Surplus(w) \subseteq awsG /\ Surplus(w)' = Surplus(w)
        /\ Surplus(w) = (awsG \cap Full(w.P)) \ Full(w.G)
    BY <1>1 DEF Surplus
  <1>9. w.P = {} => Full(w.P) = {}
    BY DEF Full, Expand
  <1>10. pc'[p] \in {"ok", "allRevoke", "revoke"}
         /\ (pc'[p] = "ok" <=> P = {} /\ w.P = {})
         /\ (pc'[p] = "allRevoke" => AllPath(P, w.P))
    BY <1>3 DEF AfterList
  <1> HIDE DEF P, G
  <1>11. Exact(p) => Exact(p)' \/ Outside(w) \cup Surplus(w) = {}
    <2> HAVE Exact(p)
    <2>1. CASE pc'[p] = "ok"
      BY <1>2, <1>5, <1>7, <1>9, <1>10, <2>1 DEF Outside, Surplus
    <2>2. CASE pc'[p] # "ok"
      <3>1. P = CollapseImplicitAll(awsP', Flag) /\ G = CollapseImplicitAll(awsG', Flag)
        BY <1>1, <1>7 DEF P, G
      <3> QED BY <1>3, <1>10, <2>2, <3>1 DEF Exact
    <2> QED BY <2>1, <2>2
  <1>12. ALL \notin w.P /\ Diffs(w, p) => Diffs(w, p)' \/ Surplus(w) = {}
    <2> HAVE ALL \notin w.P /\ Diffs(w, p)
    <2>1. /\ ~(Flag \subseteq allP)
          /\ (curG[p] \cap Full(w.P)) \ Full(w.G) = Surplus(w) \ unlisted[p]
      BY <1>1 DEF Diffs
    <2>2. P = allP /\ ALL \notin P /\ G = allG
      BY <1>4, <1>5, <2>1
    <2>3. pc'[p] \in {"ok", "revoke"}
      BY <1>10, <2>2 DEF AllPath
    <2>4. CASE pc'[p] = "ok"
      BY <1>8, <1>9, <1>10, <2>4
    <2>5. CASE pc'[p] = "revoke"
      <3>1. Full(w.P) = w.P /\ Full(w.G) = w.G
        BY NotEverything
      <3>2. KeepRevokeG(p)' = (G \ w.G) \cap w.P
        BY <1>2, <1>3, <1>6 DEF KeepRevokeG, RevokeG, Alone
      <3>3. (G \ w.G) \cap w.P = Surplus(w)
        BY <1>8, <2>1, <2>2, <3>1
      <3> QED BY <1>8, <2>5, <3>2, <3>3 DEF Diffs
    <2> QED BY <2>3, <2>4, <2>5
  <1>13. Sees(w, p) => Sees(w, p)'
    <2> HAVE Sees(w, p)
    <2>1. Surplus(w) \subseteq allG
      BY <1>1, <1>8 DEF Sees
    <2>2. Full(curG[p])' = allG
      BY <1>3, <1>5
    <2> QED BY <1>8, <1>10, <2>1, <2>2 DEF Sees
  <1>14. (Untouched \/ Started(w))'
    BY <1>1, <1>6, <1>11, <1>12, <1>13, SameHeld
  <1>15. Owed(w)'
    <2>1. ASSUME NEW f \in Full(w.P) \ awsP', BringsP(p, f) PROVE BringsP(p, f)'
      <3>1. f \notin allP /\ f \in Flag
        BY <1>1, <1>2, <2>1 DEF BringsP, Unsettled, Full, Expand, Perms
      <3>2. P = allP /\ pc'[p] # "ok"
        BY <1>5, <1>9, <1>10, <2>1, <3>1
      <3> QED BY <1>3, <1>10, <3>1, <3>2 DEF BringsP, Unsettled
    <2>2. ASSUME NEW f \in Full(w.G) \ awsG', BringsG(p, f) PROVE BringsG(p, f)'
      <3>1. f \notin allG /\ f \in Flag /\ f \in Full(w.P)
        BY <1>1, <1>2, <2>2 DEF BringsG, Unsettled, Full, Expand, Perms
      <3>2. G = allG /\ pc'[p] # "ok"
        BY <1>5, <1>9, <1>10, <3>1
      <3> QED BY <1>3, <1>10, <3>1, <3>2 DEF BringsG, Unsettled
    <2> QED BY <1>1, <1>6, <2>1, <2>2, OwedKept
  <1> QED BY <1>14, <1>15 DEF Good
------------------------------------------------------------------------------
(* What an error or success leads to.                                      *)
LEMMA Outcome ==
    ASSUME NEW err, NEW n
    PROVE  IF err = "ok" THEN AfterDiff(err, n) = "ok"
           ELSE AfterDiff(err, n) \in {"backoff", "failed"}
  BY DEF AfterDiff

(* The others keep their lists, and what these say of the surplus.         *)
LEMMA OthersStay ==
    ASSUME NEW w \in Plans, NEW p \in Proc, Alone(p), NEW q \in Proc \ {p},
           awsP' \subseteq awsP
    PROVE  /\ (Surplus(w)' = Surplus(w) /\ Diffs(w, q)) => Diffs(w, q)'
           /\ KeepRevokeG(q)' = KeepRevokeG(q)
  <1>1. KeepRevokeG(q)' = KeepRevokeG(q)
    BY DEF Alone, KeepRevokeG, RevokeG
  <1>2. ASSUME Surplus(w)' = Surplus(w), Diffs(w, q) PROVE Diffs(w, q)'
    <2>1. pc'[q] = pc[q] /\ curP'[q] = curP[q] /\ curG'[q] = curG[q] /\ unlisted'[q] = unlisted[q]
      BY DEF Alone
    <2> QED BY <1>1, <1>2, <2>1 DEF Diffs
  <1> QED BY <1>1, <1>2

LEMMA OthersSee ==
    ASSUME NEW w \in Plans, NEW p \in Proc, Alone(p), NEW q \in Proc \ {p},
           Surplus(w)' \subseteq Surplus(w), Sees(w, q)
    PROVE  Sees(w, q)'
  BY DEF Alone, Sees

(* A caller that waits, has given up, is killed, or begins a new list.     *)
LEMMA QuietAgrees ==
    ASSUME IndInv, AgreeInv, NEW p \in Proc,
           ListFails(p) \/ Retry(p) \/ Cancelled(p) \/ Crash(p),
           NEW w \in Plans, Agreed(w)
    PROVE  Good(w)'
  <1>1. UNCHANGED aws /\ awsP' = awsP /\ awsG' = awsG
    BY DEF ListFails, Retry, Cancelled, Crash, aws
  <1>2. Alone(p) /\ (Untouched \/ Started(w)) /\ Owed(w)
    BY StepAlone DEF Step, AgreeInv
  <1>3. \/ pc'[p] \in {"failed", "crashed"}
        \/ pc'[p] = "list" /\ curP'[p] = {} /\ curG'[p] = {} /\ unlisted'[p] = Flag
    BY DEF ListFails, Retry, Cancelled, Crash, Relist, Goto, IndInv, TypeOK
  <1>4. awsP \in SUBSET Flag /\ awsG \in SUBSET awsP
    BY Types
  <1>5. Surplus(w)' = Surplus(w) /\ Surplus(w) \subseteq Flag
    BY <1>1, <1>4 DEF Surplus
  <1>6. Exact(p)'
    BY <1>1, <1>3, <1>4 DEF Exact
  <1>7. Outside(w) = {} /\ ALL \notin w.P => Diffs(w, p)'
    <2> HAVE Outside(w) = {} /\ ALL \notin w.P
    <2>1. ~(Flag \subseteq awsP)
      BY NotEverything DEF Outside
    <2> QED BY <1>1, <1>3, <1>5, <2>1 DEF Diffs
  <1>8. Sees(w, p)'
    BY <1>3, <1>5 DEF Sees
  <1>9. (Untouched \/ Started(w))'
    BY <1>1, <1>2, <1>6, <1>7, <1>8, SameHeld
  <1>10. \A f : BringsP(p, f)' /\ BringsG(p, f)'
    BY <1>3 DEF BringsP, BringsG, Unsettled
  <1>11. Owed(w)'
    BY <1>2, <1>10, OwedKept
  <1> QED BY <1>9, <1>11 DEF Good
------------------------------------------------------------------------------
(* The full revoke and grant.                                              *)
LEMMA AllRevokeAgrees ==
    ASSUME IndInv, AgreeInv, NEW p \in Proc, AllRevoke(p), NEW w \in Plans, Agreed(w)
    PROVE  Good(w)'
  <1>1. PICK err \in Errors \cup {"ok", "superuser"} :
           /\ RevokeLFPerms(curP[p], curG[p], err)
           /\ ReturnOr(p, err, "allGrant")
    BY DEF AllRevoke
  <1>2. pc[p] = "allRevoke"
    BY DEF AllRevoke
  <1>3. Alone(p) /\ (Untouched \/ Started(w)) /\ Owed(w)
    BY StepAlone DEF Step, AgreeInv
  <1>4. /\ awsP \in SUBSET Flag /\ awsG \in SUBSET awsP
        /\ curP[p] \in Perms /\ curG[p] \in Perms
    BY Types
  <1>5. IF err = "ok" THEN pc'[p] = "allGrant" ELSE pc'[p] \in {"backoff", "failed"}
    BY <1>1, Outcome DEF ReturnOr, Return, Goto, IndInv, TypeOK
  <1> DEFINE effect == /\ awsP' = awsP \ Full(curP[p])
                       /\ awsG' = awsG \ (Full(curG[p]) \cup Full(curP[p]))
  <1>6. /\ UNCHANGED aws \/ effect
        /\ err = "ok" /\ Full(curP[p]) \subseteq awsP /\ Full(curG[p]) \subseteq awsG => effect
        /\ Full(curG[p]) \cap awsG \cap Pinned # {} => UNCHANGED aws /\ err # "ok"
    BY <1>1, <1>4, RevokeOutcome
  <1>7. awsP' \subseteq awsP /\ awsG' \subseteq awsG
    BY <1>6 DEF aws
  <1>8. ASSUME UNCHANGED aws, err # "ok" PROVE (Untouched \/ Started(w))'
    <2>1. Exact(p)' /\ Diffs(w, p)' /\ Sees(w, p)'
      BY <1>5, <1>8 DEF Exact, Diffs, Sees
    <2> QED BY <1>3, <1>8, <2>1, SameHeld
  <1>9. ASSUME Untouched PROVE (Untouched \/ Started(w))'
    <2>1. Full(curP[p]) = awsP /\ Full(curG[p]) = awsG
      BY <1>2, <1>4, <1>9, ListFacts DEF Untouched, Exact
    <2>2. CASE effect
      <3>1. awsP' = {} /\ awsG' = {}
        BY <1>4, <2>1, <2>2
      <3> QED BY <3>1 DEF Started, Outside, Surplus
    <2>3. CASE UNCHANGED aws /\ err # "ok"
      BY <1>8, <2>3
    <2> HIDE DEF effect
    <2> QED BY <1>6, <2>1, <2>2, <2>3
  <1>10. ASSUME Started(w) PROVE (Untouched \/ Started(w))'
    <2>1. CASE Surplus(w) = {}
      <3>1. Outside(w)' = {} /\ Surplus(w)' = {}
        BY <1>7, <1>10, <2>1 DEF Started, Outside, Surplus
      <3> QED BY <3>1 DEF Started
    <2>2. CASE Surplus(w) \cap Pinned # {} /\ \A q \in Proc : Sees(w, q)
      <3>1. Surplus(w) \subseteq Full(curG[p]) /\ Surplus(w) \subseteq awsG
        BY <1>2, <2>2 DEF Sees, Surplus
      <3> QED BY <1>6, <1>8, <2>2, <3>1
    <2>3. ~Diffs(w, p)
      BY <1>2 DEF Diffs
    <2> QED BY <1>10, <2>1, <2>2, <2>3 DEF Started
  <1>11. \A f : BringsP(p, f)' /\ BringsG(p, f)'
    BY <1>5 DEF BringsP, BringsG, Unsettled
  <1>12. Owed(w)'
    BY <1>3, <1>11, OwedKept
  <1> QED BY <1>3, <1>9, <1>10, <1>12 DEF Good

LEMMA AllGrantAgrees ==
    ASSUME IndInv, AgreeInv, NEW p \in Proc, AllGrant(p), NEW w \in Plans, Agreed(w)
    PROVE  Good(w)'
  <1>1. PICK err \in Errors \cup {"ok"} :
           GrantLFPerms(plan[p].P, plan[p].G, err) /\ Return(p, err)
    BY DEF AllGrant
  <1>2. pc[p] = "allGrant"
    BY DEF AllGrant
  <1>3. Alone(p) /\ (Untouched \/ Started(w)) /\ Owed(w)
    BY StepAlone DEF Step, AgreeInv
  <1>4. /\ awsP \in SUBSET Flag /\ awsG \in SUBSET awsP
        /\ plan[p] = w /\ w.P \in Perms /\ w.G \in Perms
        /\ Full(w.G) \subseteq Full(w.P)
    BY Types
  <1>5. IF err = "ok" THEN pc'[p] = "ok" ELSE pc'[p] \in {"backoff", "failed"}
    BY <1>1, Outcome DEF Return, Goto, IndInv, TypeOK
  <1> DEFINE effect == /\ awsP' = awsP \cup Full(w.P) \cup Full(w.G)
                       /\ awsG' = awsG \cup Full(w.G)
  <1>6. (UNCHANGED aws \/ effect) /\ (err = "ok" => effect)
    BY <1>1, <1>4, GrantOutcome
  <1>7. /\ Outside(w)' = Outside(w) /\ Surplus(w)' = Surplus(w)
        /\ awsP \subseteq awsP' /\ awsG \subseteq awsG'
    BY <1>4, <1>6 DEF Outside, Surplus, aws
  <1>8. Started(w) /\ ~Diffs(w, p)
    BY <1>2, <1>3 DEF Untouched, Exact, Diffs
  <1>9. Started(w)'
    <2>1. CASE Surplus(w) = {}
      BY <1>7, <1>8, <2>1 DEF Started
    <2>2. CASE Surplus(w) \cap Pinned # {} /\ \A q \in Proc : Sees(w, q)
      <3>1. Sees(w, p)'
        BY <1>5 DEF Sees
      <3>2. \A q \in Proc \ {p} : Sees(w, q)'
        BY <1>3, <1>7, <2>2, OthersSee
      <3> QED BY <1>7, <1>8, <2>2, <3>1, <3>2 DEF Started
    <2> QED BY <1>8, <2>1, <2>2 DEF Started
  <1>10. Owed(w)'
    <2>1. CASE err = "ok"
      <3>1. Full(w.P) \ awsP' = {} /\ Full(w.G) \ awsG' = {}
        BY <1>6, <2>1
      <3> QED BY <1>3, <3>1, OwedKept
    <2>2. CASE err # "ok"
      <3>1. \A f : BringsP(p, f)' /\ BringsG(p, f)'
        BY <1>5, <2>2 DEF BringsP, BringsG, Unsettled
      <3> QED BY <1>3, <3>1, OwedKept
    <2> QED BY <2>1, <2>2
  <1> QED BY <1>9, <1>10 DEF Good
------------------------------------------------------------------------------
(* The diff.                                                               *)
LEMMA RevokeRemovedAgrees ==
    ASSUME IndInv, AgreeInv, NEW p \in Proc, RevokeRemoved(p), NEW w \in Plans, Agreed(w)
    PROVE  Good(w)'
  <1> DEFINE P == curP[p] \ w.P
             G == (curG[p] \ w.G) \cap P
  <1>1. pc[p] = "revoke" /\ curP' = curP /\ curG' = curG
    BY DEF RevokeRemoved, Local
  <1>2. Alone(p) /\ (Untouched \/ Started(w)) /\ Owed(w)
    BY StepAlone DEF Step, AgreeInv
  <1>3. /\ awsP \in SUBSET Flag /\ awsG \in SUBSET awsP /\ plan[p] = w
        /\ ALL \notin w.P /\ w.G \subseteq w.P
        /\ Full(w.P) = w.P /\ Full(w.G) = w.G
        /\ curP[p] \subseteq Flag /\ curG[p] \subseteq curP[p]
    BY <1>1, Types DEF DiffPhase
  <1>4. PICK err \in Errors \cup {"ok", "superuser"} :
           RevokeLFPerms(P, G, err) /\ ReturnOr(p, err, "keep")
    BY <1>3 DEF RevokeRemoved, RevokeOnlyP, RevokeOnlyG, RevokeG
  <1>5. IF err = "ok" THEN pc'[p] = "keep" ELSE pc'[p] \in {"backoff", "failed"}
    BY <1>4, Outcome DEF ReturnOr, Return, Goto, IndInv, TypeOK
  <1>6. /\ P \in Perms /\ G \in Perms /\ Full(P) = P /\ Full(G) = G
        /\ G \subseteq P /\ P \cap w.P = {}
    BY <1>3, NoALL DEF Perms
  <1> DEFINE effect == awsP' = awsP \ P /\ awsG' = awsG \ P
  <1> HIDE DEF P, G
  <1>7. /\ UNCHANGED aws \/ effect
        /\ err = "ok" /\ P \subseteq awsP /\ G \subseteq awsG => effect
    <2>1. G \cup P = P
      BY <1>6
    <2> QED BY <1>3, <1>4, <1>6, <2>1, RevokeOutcome
  <1>8. Surplus(w)' = Surplus(w) /\ awsP' \subseteq awsP
    BY <1>3, <1>6, <1>7 DEF Surplus, aws
  <1>9. KeepRevokeG(p)' = KeepRevokeG(p) /\ KeepRevokeG(p) = (curG[p] \ w.G) \cap w.P
    BY <1>1, <1>2, <1>3 DEF KeepRevokeG, RevokeG, Alone
  <1>10. ASSUME Untouched PROVE (Untouched \/ Started(w))'
    <2>1. /\ curP[p] = CollapseImplicitAll(awsP, Flag)
          /\ curG[p] = CollapseImplicitAll(awsG, Flag)
      BY <1>1, <1>10 DEF Untouched, Exact
    <2>2. curP[p] = awsP /\ curG[p] = awsG /\ ~(Flag \subseteq awsP) /\ ~(Flag \subseteq awsG)
      BY <1>3, <2>1, FlagAssumption DEF CollapseImplicitAll
    <2>3. CASE UNCHANGED aws /\ err # "ok"
      <3>1. Exact(p)' /\ Diffs(w, p)' /\ Sees(w, p)'
        BY <1>5, <2>3 DEF Exact, Diffs, Sees
      <3> QED BY <1>2, <2>3, <3>1, SameHeld
    <2>4. CASE effect
      <3>1. Outside(w)' = {}
        BY <1>3, <2>2, <2>4 DEF P, Outside
      <3>2. Surplus(w) = (awsG \cap w.P) \ w.G
        BY <1>3 DEF Surplus
      <3>3. Diffs(w, p)'
        BY <1>5, <1>8, <1>9, <2>2, <3>2 DEF Diffs
      <3>4. ASSUME NEW q \in Proc \ {p} PROVE Diffs(w, q)
        <4>1. Exact(q) /\ plan[q] = w
          BY <1>10 DEF Untouched, Agreed
        <4>2. CollapseImplicitAll(awsP, Flag) = awsP /\ CollapseImplicitAll(awsG, Flag) = awsG
          BY <2>2 DEF CollapseImplicitAll
        <4>3. ALL \notin awsP
          BY <1>3, FlagAssumption
        <4>4. pc[q] # "allRevoke"
          BY <1>3, <4>1, <4>2, <4>3 DEF Exact, AgreeInv, PathInv, AllPath
        <4>5. pc[q] = "list" => Diffs(w, q)
          BY <1>3, <2>2, <3>2, <4>1 DEF Exact, Diffs
        <4>6. pc[q] = "revoke" => Diffs(w, q)
          BY <3>2, <4>1, <4>2 DEF Exact, Diffs, KeepRevokeG, RevokeG
        <4> QED BY <4>1, <4>4, <4>5, <4>6 DEF Exact, Diffs
      <3>5. \A q \in Proc \ {p} : Diffs(w, q)'
        BY <1>2, <1>8, <3>4, OthersStay
      <3> QED BY <1>3, <3>1, <3>3, <3>5 DEF Started
    <2>5. P \subseteq awsP /\ G \subseteq awsG
      BY <2>2 DEF P, G
    <2> HIDE DEF effect
    <2> QED BY <1>7, <2>3, <2>4, <2>5
  <1>11. ASSUME Started(w) PROVE (Untouched \/ Started(w))'
    <2>1. awsP' = awsP /\ awsG' = awsG
      BY <1>3, <1>6, <1>7, <1>11 DEF Started, Outside, aws
    <2>2. Outside(w)' = {}
      BY <1>11, <2>1 DEF Started, Outside
    <2>3. Diffs(w, p) => Diffs(w, p)'
      BY <1>1, <1>5, <1>8, <1>9 DEF Diffs
    <2>4. Sees(w, p) => Sees(w, p)'
      BY <1>1, <1>5, <1>8 DEF Sees
    <2>5. CASE Surplus(w) = {}
      BY <1>8, <2>2, <2>5 DEF Started
    <2>6. CASE ALL \notin w.P /\ \A q \in Proc : Diffs(w, q)
      <3>1. \A q \in Proc : Diffs(w, q)'
        BY <1>2, <1>8, <2>3, <2>6, OthersStay
      <3> QED BY <2>2, <2>6, <3>1 DEF Started
    <2>7. CASE Surplus(w) \cap Pinned # {} /\ \A q \in Proc : Sees(w, q)
      <3>1. \A q \in Proc : Sees(w, q)'
        BY <1>2, <1>8, <2>4, <2>7, OthersSee
      <3> QED BY <1>8, <2>2, <2>7, <3>1 DEF Started
    <2> QED BY <1>11, <2>5, <2>6, <2>7 DEF Started
  <1>12. Owed(w)'
    <2>1. ASSUME NEW f \in Full(w.P) \ awsP'
          PROVE  BringsP(p, f)' \/ (f \notin awsP /\ ~BringsP(p, f))
      <3>1. f \notin awsP
        BY <1>3, <1>6, <1>7, <2>1 DEF aws
      <3> QED BY <1>1, <1>5, <3>1 DEF BringsP, Unsettled
    <2>2. ASSUME NEW f \in Full(w.G) \ awsG'
          PROVE  BringsG(p, f)' \/ (f \notin awsG /\ ~BringsG(p, f))
      <3>1. f \notin awsG
        BY <1>3, <1>6, <1>7, <2>2 DEF aws
      <3> QED BY <1>1, <1>5, <3>1 DEF BringsG, Unsettled
    <2> QED BY <1>2, <2>1, <2>2, OwedKept
  <1> QED BY <1>2, <1>10, <1>11, <1>12 DEF Good

LEMMA RevokeKeptAgrees ==
    ASSUME IndInv, AgreeInv, NEW p \in Proc, RevokeKept(p), NEW w \in Plans, Agreed(w)
    PROVE  Good(w)'
  <1> DEFINE K == KeepRevokeG(p)
  <1>1. pc[p] = "keep" /\ curP' = curP /\ curG' = curG
    BY DEF RevokeKept, Local
  <1>2. Alone(p) /\ (Untouched \/ Started(w)) /\ Owed(w)
    BY StepAlone DEF Step, AgreeInv
  <1>3. /\ awsP \in SUBSET Flag /\ awsG \in SUBSET awsP /\ plan[p] = w
        /\ ALL \notin w.P /\ w.P \subseteq Flag /\ w.G \subseteq w.P
        /\ Full(w.P) = w.P /\ Full(w.G) = w.G
        /\ curP[p] \subseteq Flag /\ curG[p] \subseteq curP[p]
    BY <1>1, Types DEF DiffPhase
  <1>4. PICK err \in Errors \cup {"ok", "superuser"} :
           /\ RevokeLFPerms(K, K, err)
           /\ regrant' = [regrant EXCEPT ![p] = IF err = "ok" THEN K ELSE {}]
           /\ IF err = "superuser" THEN Goto(p, "grant") ELSE ReturnOr(p, err, "grant")
    BY DEF RevokeKept
  <1>5. IF err \in {"ok", "superuser"} THEN pc'[p] = "grant" ELSE pc'[p] \in {"backoff", "failed"}
    BY <1>4, Outcome DEF ReturnOr, Return, Goto, IndInv, TypeOK
  <1>6. K = (curG[p] \ w.G) \cap w.P
    BY <1>3 DEF KeepRevokeG, RevokeG
  <1>7. K \in Perms /\ Full(K) = K /\ K \cap w.G = {}
    BY <1>3, <1>6, NoALL DEF Perms
  <1>8. regrant'[p] = IF err = "ok" THEN K ELSE {}
    BY <1>4 DEF IndInv, TypeOK
  <1> DEFINE effect == awsP' = awsP \ K /\ awsG' = awsG \ K
  <1> HIDE DEF K
  <1>9. /\ UNCHANGED aws \/ effect
        /\ err = "ok" /\ K \subseteq awsP /\ K \subseteq awsG => effect
        /\ K \cap awsG \cap Pinned # {} => UNCHANGED aws /\ err # "ok"
        /\ err = "superuser" => UNCHANGED aws /\ K \cap awsG \cap Pinned # {}
    <2>1. K \cup K = K
      OBVIOUS
    <2> QED BY <1>3, <1>4, <1>7, <2>1, RevokeOutcome
  <1>10. Started(w)
    BY <1>1, <1>2 DEF Untouched, Exact
  <1>11. /\ awsP' \subseteq awsP /\ awsG' \subseteq awsG
         /\ Outside(w)' = {} /\ Surplus(w)' \subseteq Surplus(w)
    BY <1>9, <1>10 DEF Started, Outside, Surplus, aws
  <1>12. Sees(w, p)'
    BY <1>5 DEF Sees
  <1>13. UNCHANGED aws => Surplus(w)' = Surplus(w)
    BY DEF aws, Surplus
  <1>14. ASSUME UNCHANGED aws, Surplus(w) \cap Pinned # {}, \A q \in Proc : Sees(w, q)
         PROVE  Started(w)'
    <2>1. \A q \in Proc \ {p} : Sees(w, q)'
      BY <1>2, <1>11, <1>14, OthersSee
    <2> QED BY <1>11, <1>12, <1>13, <1>14, <2>1 DEF Started
  <1>15. Started(w)'
    <2>1. CASE Surplus(w) = {}
      BY <1>11, <2>1 DEF Started
    <2>2. CASE ALL \notin w.P /\ \A q \in Proc : Diffs(w, q)
      <3>1. K = Surplus(w)
        BY <1>1, <2>2 DEF Diffs, K
      <3>2. Surplus(w) \subseteq awsG /\ Surplus(w) \subseteq awsP
        BY <1>3 DEF Surplus
      <3>3. CASE effect
        <4>1. Surplus(w)' = {}
          BY <3>1, <3>3 DEF Surplus
        <4> QED BY <1>11, <4>1 DEF Started
      <3>4. CASE UNCHANGED aws /\ err = "superuser"
        <4>1. ASSUME NEW q \in Proc PROVE Sees(w, q)
          <5>1. pc[q] \in DiffPhase => Full(curG[q]) = curG[q] /\ Full(w.P) = w.P
            BY Types, NoALL
          <5>2. pc[q] \in {"revoke", "keep"} => Surplus(w) \subseteq curG[q]
            BY <2>2 DEF Diffs, KeepRevokeG, RevokeG
          <5>3. pc[q] = "list" => Surplus(w) \ unlisted[q] \subseteq curG[q]
            BY <2>2 DEF Diffs
          <5>4. pc[q] # "allRevoke"
            BY <2>2 DEF Diffs
          <5> QED BY <5>1, <5>2, <5>3, <5>4 DEF Sees, DiffPhase
        <4>2. Surplus(w) \cap Pinned # {}
          BY <1>9, <3>1, <3>4
        <4> QED BY <1>14, <3>4, <4>1, <4>2
      <3>5. CASE UNCHANGED aws /\ err \notin {"ok", "superuser"}
        <4>1. Diffs(w, p)'
          BY <1>5, <3>5 DEF Diffs
        <4>2. \A q \in Proc \ {p} : Diffs(w, q)'
          BY <1>2, <1>11, <1>13, <2>2, <3>5, OthersStay
        <4> QED BY <1>11, <2>2, <4>1, <4>2 DEF Started
      <3> HIDE DEF effect
      <3> QED BY <1>9, <3>1, <3>2, <3>3, <3>4, <3>5
    <2>3. CASE Surplus(w) \cap Pinned # {} /\ \A q \in Proc : Sees(w, q)
      <3>1. Full(curG[p]) = curG[p]
        BY <1>3, NoALL
      <3>2. Surplus(w) \subseteq K /\ Surplus(w) \subseteq awsG
        BY <1>1, <1>3, <1>6, <2>3, <3>1 DEF Sees, Surplus
      <3> QED BY <1>9, <1>14, <2>3, <3>2
    <2> QED BY <1>10, <2>1, <2>2, <2>3 DEF Started
  <1>16. Owed(w)'
    <2>1. ASSUME NEW f \in Full(w.P) \ awsP'
          PROVE  BringsP(p, f)' \/ (f \notin awsP /\ ~BringsP(p, f))
      <3>1. CASE err \notin {"ok", "superuser"}
        BY <1>5, <3>1 DEF BringsP, Unsettled
      <3>2. CASE err \in {"ok", "superuser"} /\ f \notin awsP
        <4>1. GrantP(p)' = (w.P \ curP[p]) \cup regrant'[p]
          BY <1>1, <1>2, <1>3 DEF GrantP, Alone
        <4> QED BY <1>1, <1>3, <1>5, <2>1, <3>2, <4>1 DEF BringsP, Unsettled
      <3>3. CASE err \in {"ok", "superuser"} /\ f \in awsP
        <4>1. err = "ok" /\ f \in K
          BY <1>9, <2>1, <3>3 DEF aws
        <4>2. f \in GrantP(p)'
          BY <1>8, <4>1 DEF GrantP
        <4> QED BY <1>5, <4>1, <4>2 DEF BringsP
      <3> QED BY <3>1, <3>2, <3>3
    <2>2. ASSUME NEW f \in Full(w.G) \ awsG'
          PROVE  BringsG(p, f)' \/ (f \notin awsG /\ ~BringsG(p, f))
      <3>1. f \notin awsG
        BY <1>3, <1>7, <1>9, <2>2 DEF aws
      <3> QED BY <1>1, <1>5, <3>1 DEF BringsG, Unsettled
    <2> QED BY <1>2, <2>1, <2>2, OwedKept
  <1> QED BY <1>15, <1>16 DEF Good

LEMMA GrantAddedAgrees ==
    ASSUME IndInv, AgreeInv, NEW p \in Proc, GrantAdded(p), NEW w \in Plans, Agreed(w)
    PROVE  Good(w)'
  <1> DEFINE P == GrantP(p)
             G == w.G \ curG[p]
  <1>1. pc[p] = "grant" /\ curP' = curP /\ curG' = curG
    BY DEF GrantAdded, Local
  <1>2. Alone(p) /\ (Untouched \/ Started(w)) /\ Owed(w)
    BY StepAlone DEF Step, AgreeInv
  <1>3. /\ awsP \in SUBSET Flag /\ awsG \in SUBSET awsP /\ plan[p] = w
        /\ ALL \notin w.P /\ w.P \subseteq Flag /\ w.G \subseteq w.P
        /\ Full(w.P) = w.P /\ Full(w.G) = w.G
        /\ regrant[p] \subseteq w.P
    BY <1>1, Types DEF DiffPhase
  <1>4. PICK err \in Errors \cup {"ok"} : GrantLFPerms(P, G, err) /\ Return(p, err)
    BY <1>3 DEF GrantAdded, GrantG
  <1>5. IF err = "ok" THEN pc'[p] = "ok" ELSE pc'[p] \in {"backoff", "failed"}
    BY <1>4, Outcome DEF Return, Goto, IndInv, TypeOK
  <1>6. /\ P \in Perms /\ G \in Perms /\ Full(P) = P /\ Full(G) = G
        /\ P \subseteq w.P /\ G \subseteq w.G
    BY <1>3, NoALL DEF Perms, GrantP
  <1> DEFINE effect == awsP' = awsP \cup P \cup G /\ awsG' = awsG \cup G
  <1> HIDE DEF P, G
  <1>7. (UNCHANGED aws \/ effect) /\ (err = "ok" => effect)
    BY <1>4, <1>6, GrantOutcome
  <1>8. Outside(w)' = Outside(w) /\ Surplus(w)' = Surplus(w)
    BY <1>3, <1>6, <1>7 DEF Outside, Surplus, aws
  <1>9. Started(w) /\ ~Diffs(w, p)
    BY <1>1, <1>2 DEF Untouched, Exact, Diffs
  <1>10. Started(w)'
    <2>1. CASE Surplus(w) = {}
      BY <1>8, <1>9, <2>1 DEF Started
    <2>2. CASE Surplus(w) \cap Pinned # {} /\ \A q \in Proc : Sees(w, q)
      <3>1. Sees(w, p)'
        BY <1>5 DEF Sees
      <3>2. \A q \in Proc \ {p} : Sees(w, q)'
        BY <1>2, <1>8, <2>2, OthersSee
      <3> QED BY <1>8, <1>9, <2>2, <3>1, <3>2 DEF Started
    <2> QED BY <1>9, <2>1, <2>2 DEF Started
  <1>11. Owed(w)'
    <2>1. ASSUME NEW f \in Full(w.P) \ awsP'
          PROVE  BringsP(p, f)' \/ (f \notin awsP /\ ~BringsP(p, f))
      <3>1. CASE err = "ok"
        <4>1. f \notin awsP /\ f \notin P
          BY <1>7, <2>1, <3>1
        <4> QED BY <1>1, <4>1 DEF BringsP, Unsettled, P
      <3>2. CASE err # "ok"
        BY <1>5, <3>2 DEF BringsP, Unsettled
      <3> QED BY <3>1, <3>2
    <2>2. ASSUME NEW f \in Full(w.G) \ awsG'
          PROVE  BringsG(p, f)' \/ (f \notin awsG /\ ~BringsG(p, f))
      <3>1. CASE err = "ok"
        <4>1. f \notin awsG /\ f \notin G
          BY <1>7, <2>2, <3>1
        <4>2. f \in curG[p]
          BY <1>3, <2>2, <4>1 DEF G
        <4> QED BY <1>1, <4>1, <4>2 DEF BringsG, Unsettled
      <3>2. CASE err # "ok"
        BY <1>5, <3>2 DEF BringsG, Unsettled
      <3> QED BY <3>1, <3>2
    <2> QED BY <1>2, <2>1, <2>2, OwedKept
  <1> QED BY <1>10, <1>11 DEF Good
------------------------------------------------------------------------------
(* Only a list that shows ALL, or a plan that says it, leads to the full   *)
(* revoke.                                                                 *)
LEMMA PathStep ==
    ASSUME IndInv, PathInv, [Next]_vars
    PROVE  PathInv'
  <1>1. CASE Disturb \/ UNCHANGED vars
    BY <1>1 DEF Disturb, Local, vars, PathInv, AllPath
  <1>2. ASSUME NEW p \in Proc, Step(p) \/ Crash(p)
        PROVE  PathInv'
    <2>1. Alone(p)
      BY <1>2, StepAlone
    <2>2. pc'[p] = "allRevoke" => AllPath(curP[p], plan[p].P)'
      <3>1. CASE List(p)
        <4> DEFINE P == CollapseImplicitAll(Gathered(p, unlisted[p]).P, Flag)
        <4>1. curP'[p] = P /\ pc'[p] = AfterList(P, plan[p].P) /\ plan' = plan
          BY <3>1 DEF List, Goto, IndInv, TypeOK
        <4> HIDE DEF P
        <4> QED BY <4>1 DEF AfterList, AllPath
      <3>2. CASE ListPage(p)
        BY <3>2 DEF ListPage
      <3>3. CASE ListFails(p) \/ Retry(p) \/ Cancelled(p) \/ Crash(p)
        BY <3>3 DEF ListFails, Retry, Cancelled, Crash, Goto, IndInv, TypeOK
      <3>4. CASE AllRevoke(p) \/ AllGrant(p) \/ RevokeRemoved(p) \/ RevokeKept(p) \/ GrantAdded(p)
        <4>1. \E err \in Errors \cup {"ok", "superuser"}, next \in {"allGrant", "keep", "grant"} :
                 ReturnOr(p, err, next) \/ Return(p, err) \/ Goto(p, next)
          BY <3>4 DEF AllRevoke, AllGrant, RevokeRemoved, RevokeKept, GrantAdded
        <4> QED BY <4>1, Outcome DEF ReturnOr, Return, Goto, IndInv, TypeOK
      <3> QED BY <1>2, <3>1, <3>2, <3>3, <3>4 DEF Step
    <2>3. \A q \in Proc \ {p} : pc'[q] = "allRevoke" => AllPath(curP[q], plan[q].P)'
      BY <2>1 DEF Alone, PathInv, AllPath
    <2> QED BY <2>2, <2>3 DEF PathInv
  <1> QED BY <1>1, <1>2 DEF Next

LEMMA NextAgree == IndInv /\ AgreeInv /\ [Next]_vars => AgreeInv'
  <1> SUFFICES ASSUME IndInv, AgreeInv, [Next]_vars
               PROVE  AgreeInv'
    OBVIOUS
  <1>1. PathInv'
    BY PathStep DEF AgreeInv
  <1>2. ASSUME NEW w \in Plans, Agreed(w)'
        PROVE  Good(w)'
    <2>1. CASE Disturb
      BY <1>2, <2>1 DEF Disturb, Agreed, IndInv, TypeOK
    <2>2. ASSUME NEW p \in Proc, Step(p) \/ Crash(p)
          PROVE  Good(w)'
      <3>1. Agreed(w)
        BY <1>2, <2>2, StepAlone DEF Alone, Agreed
      <3> QED BY <2>2, <3>1, ListPageAgrees, ListAgrees, QuietAgrees, AllRevokeAgrees,
                 AllGrantAgrees, RevokeRemovedAgrees, RevokeKeptAgrees, GrantAddedAgrees
              DEF Step
    <2>3. CASE UNCHANGED vars
      <3>1. Agreed(w) /\ Good(w)
        BY <1>2, <2>3 DEF vars, Agreed, AgreeInv, Good
      <3>2. Outside(w)' = Outside(w) /\ Surplus(w)' = Surplus(w)
        BY <2>3 DEF vars, Outside, Surplus
      <3>3. \A p \in Proc : Exact(p)' = Exact(p)
        BY <2>3 DEF vars, Exact
      <3>4. \A p \in Proc : Diffs(w, p)' = Diffs(w, p) /\ Sees(w, p)' = Sees(w, p)
        BY <2>3, <3>2 DEF vars, Diffs, Sees, KeepRevokeG, RevokeG
      <3>5. \A p \in Proc : \A f : BringsP(p, f)' = BringsP(p, f) /\ BringsG(p, f)' = BringsG(p, f)
        BY <2>3 DEF vars, BringsP, BringsG, GrantP
      <3>6. (Untouched \/ Started(w))'
        BY <3>1, <3>2, <3>3, <3>4 DEF Good, Untouched, Started
      <3>7. Owed(w)'
        BY <2>3, <3>1, <3>5 DEF vars, Good, Owed
      <3> QED BY <3>6, <3>7 DEF Good
    <2> QED BY <2>1, <2>2, <2>3 DEF Next
  <1> QED BY <1>1, <1>2 DEF AgreeInv, Good

(* Once all have succeeded nothing is owed, and all the surplus left, if   *)
(* any, was refused.                                                       *)
LEMMA Conclusion == IndInv /\ AgreeInv => AgreeingCallersConverge
  <1> SUFFICES ASSUME IndInv, AgreeInv, disturbed = 0, \A q \in Proc : pc[q] = "ok",
                      \A q, r \in Proc : plan[q] = plan[r], NEW p \in Proc
               PROVE  Reached(plan[p])
    BY DEF AgreeingCallersConverge
  <1> DEFINE w == plan[p]
  <1>1. w \in Plans /\ Agreed(w)
    BY DEF IndInv, TypeOK, Agreed
  <1> HIDE DEF w
  <1>2. (Untouched \/ Started(w)) /\ Owed(w)
    BY <1>1 DEF AgreeInv
  <1>3. ~Untouched /\ ~Diffs(w, p)
    BY DEF Untouched, Exact, Diffs
  <1>4. Outside(w) = {} /\ (Surplus(w) = {} \/ Surplus(w) \cap Pinned # {})
    BY <1>2, <1>3 DEF Started
  <1>5. Full(w.P) \subseteq awsP /\ Full(w.G) \subseteq awsG
    BY <1>2 DEF Owed, BringsP, BringsG, Unsettled
  <1>6. awsP = Full(w.P) /\ awsG \subseteq awsP
    BY <1>4, <1>5 DEF Outside, IndInv, TypeOK
  <1>7. Surplus(w) = awsG \ Full(w.G)
    BY <1>6 DEF Surplus
  <1>8. awsG = Full(w.G) \/ (awsG \cap Pinned) \ Full(w.G) # {}
    BY <1>4, <1>5, <1>7
  <1> QED BY <1>5, <1>6, <1>8 DEF Reached, w

(* Callers that agree on the plan do not undo one another: once all of     *)
(* them have succeeded, and nobody else interfered, the plan is in place,  *)
(* for every set of permissions, every number of callers, and every        *)
(* interleaving of their lists, pages, revokes, grants and retries.        *)
THEOREM Agreement == Spec => []AgreeingCallersConverge
  <1> QED BY Conclusion, InitAgree, NextAgree, Invariance, PTL DEF Spec
------------------------------------------------------------------------------
(* What Termination rests on, for every limit and whatever is answered.    *)
StepsLeft(phase) ==
    CASE phase = "list" -> 5
      [] phase \in {"revoke", "allRevoke"} -> 4
      [] phase = "keep" -> 3
      [] phase \in {"grant", "allGrant"} -> 2
      [] phase = "backoff" -> 1
      [] phase \in Ended -> 0

(* Within an attempt p is further on, or has fewer permissions to list; or *)
(* it begins one of the attempts that are left.                            *)
Nearer(p) ==
    \/ /\ attempt'[p] = attempt[p]
       /\ \/ StepsLeft(pc'[p]) < StepsLeft(pc[p])
          \/ /\ pc[p] = "list" /\ pc'[p] = "list"
             /\ unlisted'[p] \subseteq unlisted[p] /\ unlisted'[p] # unlisted[p]
    \/ attempt'[p] = attempt[p] + 1 /\ attempt'[p] <= MaxRetries

Place(p) == <<pc[p], attempt[p], unlisted[p]>>

NoStepBack ==
    [][\A p \in Proc : /\ Step(p) => Nearer(p)
                       /\ UNCHANGED Place(p) \/ Nearer(p)]_vars

LEMMA OwnStepCounts ==
    ASSUME IndInv, NEW p \in Proc, Step(p) \/ Crash(p)
    PROVE  /\ Nearer(p)
           /\ \A q \in Proc \ {p} : UNCHANGED Place(q)
  <1>1. /\ pc \in [Proc -> Phase] /\ attempt \in [Proc -> 0 .. MaxRetries]
        /\ unlisted \in [Proc -> SUBSET Flag]
    BY DEF IndInv, TypeOK
  <1>2. CASE ListPage(p)
    <2>1. PICK page \in SUBSET unlisted[p] :
             page # {} /\ unlisted' = [unlisted EXCEPT ![p] = @ \ page]
      BY <1>2 DEF ListPage
    <2>2. pc' = pc /\ attempt' = attempt /\ pc[p] = "list"
      BY <1>2 DEF ListPage
    <2> QED BY <1>1, <2>1, <2>2 DEF Nearer, Place
  <1>3. CASE List(p)
    <2>1. PICK phase \in {"ok", "allRevoke", "revoke"} : Goto(p, phase)
      BY <1>3 DEF List, AfterList
    <2>2. attempt' = attempt /\ unlisted' = [unlisted EXCEPT ![p] = {}] /\ pc[p] = "list"
      BY <1>3 DEF List
    <2> QED BY <1>1, <2>1, <2>2 DEF Nearer, Place, Goto, StepsLeft, Ended
  <1>4. ASSUME NEW from \in {"allRevoke", "allGrant", "revoke", "keep", "grant"},
               NEW phase \in {"allGrant", "keep", "grant", "backoff"} \cup Ended,
               pc[p] = from, Goto(p, phase), UNCHANGED Local,
               \/ phase \in Ended \cup {"backoff"}
               \/ <<from, phase>> \in {<<"allRevoke", "allGrant">>, <<"revoke", "keep">>,
                                       <<"keep", "grant">>}
        PROVE  /\ Nearer(p)
               /\ \A q \in Proc \ {p} : UNCHANGED Place(q)
    <2>1. attempt' = attempt /\ unlisted' = unlisted /\ pc' = [pc EXCEPT ![p] = phase]
      BY <1>4 DEF Local, Goto
    <2>2. StepsLeft(phase) < StepsLeft(from)
      BY <1>4 DEF StepsLeft, Ended
    <2> QED BY <1>1, <1>4, <2>1, <2>2 DEF Nearer, Place
  <1>5. ASSUME NEW err, Return(p, err)
        PROVE  \E phase \in Ended \cup {"backoff"} : Goto(p, phase)
    BY <1>5 DEF Return, AfterDiff, Ended
  <1>6. CASE AllRevoke(p)
    <2>1. \E phase \in {"allGrant", "backoff"} \cup Ended : Goto(p, phase)
      BY <1>5, <1>6 DEF AllRevoke, ReturnOr
    <2> QED BY <1>4, <1>6, <2>1 DEF AllRevoke
  <1>7. CASE AllGrant(p)
    <2>1. \E phase \in {"backoff"} \cup Ended : Goto(p, phase)
      BY <1>5, <1>7 DEF AllGrant
    <2> QED BY <1>4, <1>7, <2>1 DEF AllGrant
  <1>8. CASE RevokeRemoved(p)
    <2>1. \E phase \in {"keep", "backoff"} \cup Ended : Goto(p, phase)
      BY <1>5, <1>8 DEF RevokeRemoved, ReturnOr
    <2> QED BY <1>4, <1>8, <2>1 DEF RevokeRemoved
  <1>9. CASE RevokeKept(p)
    <2>1. \E phase \in {"grant", "backoff"} \cup Ended : Goto(p, phase)
      BY <1>5, <1>9 DEF RevokeKept, ReturnOr
    <2> QED BY <1>4, <1>9, <2>1 DEF RevokeKept
  <1>10. CASE GrantAdded(p)
    <2>1. \E phase \in {"backoff"} \cup Ended : Goto(p, phase)
      BY <1>5, <1>10 DEF GrantAdded
    <2> QED BY <1>4, <1>10, <2>1 DEF GrantAdded
  <1>11. CASE Retry(p)
    <2>1. attempt[p] \in 0 .. MaxRetries /\ attempt[p] < MaxRetries
      BY <1>1, <1>11 DEF Retry, IndInv, CallerInv, ControlInv
    <2>2. attempt'[p] = attempt[p] + 1 /\ attempt'[p] <= MaxRetries
      BY <1>1, <1>11, <2>1, RetriesAssumption DEF Retry
    <2> QED BY <1>1, <1>11, <2>2 DEF Retry, Relist, Goto, Nearer, Place
  <1>12. CASE ListFails(p) \/ Cancelled(p) \/ Crash(p)
    <2>1. PICK phase \in {"failed", "crashed"} : pc' = [pc EXCEPT ![p] = phase]
      BY <1>12 DEF ListFails, Cancelled, Crash, Goto
    <2>2. attempt' = attempt /\ unlisted' = unlisted /\ pc[p] \in Phase \ Ended
      BY <1>1, <1>12 DEF ListFails, Cancelled, Crash, Local, Ended
    <2>3. StepsLeft(phase) < StepsLeft(pc[p])
      BY <2>2 DEF StepsLeft, Phase, Ended
    <2> QED BY <1>1, <2>1, <2>2, <2>3 DEF Nearer, Place
  <1> QED
    BY <1>2, <1>3, <1>6, <1>7, <1>8, <1>9, <1>10, <1>11, <1>12 DEF Step

(* applyResource never goes round without using up an attempt, of which it *)
(* has MaxRetries + 1, and nothing that other callers and administrators   *)
(* do sets it back: every step of a caller takes it nearer its return.     *)
THEOREM EveryStepCounts == Spec => NoStepBack
  <1>1. ASSUME IndInv, [Next]_vars, NEW p \in Proc
        PROVE  (Step(p) => Nearer(p)) /\ (UNCHANGED Place(p) \/ Nearer(p))
    <2>1. CASE Disturb \/ UNCHANGED vars
      <3>1. UNCHANGED Place(p)
        BY <2>1 DEF Disturb, Local, Place, vars
      <3> QED BY <1>1, <3>1, OwnStepCounts
    <2>2. ASSUME NEW q \in Proc, Step(q) \/ Crash(q)
          PROVE  UNCHANGED Place(p) \/ Nearer(p)
      BY <1>1, <2>2, OwnStepCounts
    <2> QED BY <1>1, <2>1, <2>2, OwnStepCounts DEF Next
  <1>2. IndInv /\ [Next]_vars
          => [\A p \in Proc : /\ Step(p) => Nearer(p)
                              /\ UNCHANGED Place(p) \/ Nearer(p)]_vars
    BY <1>1
  <1> QED BY <1>2, Invariance, PTL DEF Spec, NoStepBack
===============================================================================
